------------------------ MODULE EventListenerProofs ------------------------
(***************************************************************************)
(* Proofs about EventListener: the delivery protocol keeps the queue and   *)
(* the event in flight together, no serial is given twice, and the queues  *)
(* implement BoundedFifo, for any number of emitters, restarts and events  *)
(* and any buffer size.                                                    *)
(***************************************************************************)
EXTENDS EventListener, SequenceTheorems, TLAPS

USE DerivesAssumption, BufferSizeAssumption, MaxEventsAssumption, MaxInstancesAssumption,
    MaxPoolSerialAssumption
    DEF Instances, Encoded, NoEvent, NoTarget, emitVars, mapVars, pumpVars

\* An emitter past the lookup carries an event; one past encodeEvent a header.
Carrying ==
  \A e \in Emitters :
    /\ emitter[e] # "idle" => event[e] \in 1..MaxEvents
    /\ emitter[e] = "queue" => encoded[e] \in [to : Instances, header : Encoded]

IInv == TypeOK /\ Carrying /\ QueueBounded /\ HeadIsInFlight /\ NoLostWakeup

-----------------------------------------------------------------------------
\* Appending to a queue that is not empty leaves its first event first.
LEMMA HeadOfAppend ==
  ASSUME NEW S, NEW s \in Seq(S), NEW x \in S
  PROVE  /\ Append(s, x) \in Seq(S) /\ Append(s, x) # <<>> /\ Len(Append(s, x)) = Len(s) + 1
         /\ s # <<>> => Head(Append(s, x)) = Head(s)
  <1>1. /\ Append(s, x) \in Seq(S) /\ Append(s, x) # <<>> /\ Len(Append(s, x)) = Len(s) + 1
        /\ \A i \in 1..Len(s) : Append(s, x)[i] = s[i]
    BY AppendProperties
  <1>2. ASSUME s # <<>> PROVE Head(Append(s, x)) = Head(s)
    <2>1. Len(s) \in Nat /\ Len(s) # 0  BY <1>2, LenProperties, EmptySeq
    <2>2. Append(s, x)[1] = s[1]  BY <1>1, <2>1
    <2>3. Head(s) = s[1]  BY <1>2, HeadTailProperties
    <2>4. Head(Append(s, x)) = Append(s, x)[1]  BY <1>1, HeadTailProperties
    <2> QED  BY <2>2, <2>3, <2>4
  <1> QED  BY <1>1, <1>2

\* Removing the first event of a queue shortens it.
LEMMA TailShorter ==
  ASSUME NEW S, NEW s \in Seq(S), s # <<>>
  PROVE  Tail(s) \in Seq(S) /\ Len(Tail(s)) = Len(s) - 1 /\ Head(s) \in S
  BY HeadTailProperties

\* No queue, goroutine or emitter exists yet.
LEMMA InitIInv == Init => IInv
  <1> SUFFICES ASSUME Init PROVE IInv
    OBVIOUS
  <1>1. TypeOK
    <2>1. crashed \in BOOLEAN  BY Zenon DEF Init
    <2>2. <<>> \in Seq(Encoded)  OBVIOUS
    <2>3. queue \in [Instances -> Seq(Encoded)] /\ acked \in [Instances -> Seq(Encoded)]
      BY <2>2 DEF Init
    <2> QED  BY <2>1, <2>3 DEF Init, TypeOK
  <1>2. Carrying  BY DEF Init, Carrying
  <1>3. QueueBounded  BY EmptySeq DEF Init, QueueBounded
  <1>4. HeadIsInFlight /\ NoLostWakeup  BY DEF Init, HeadIsInFlight, NoLostWakeup
  <1> QED  BY <1>1, <1>2, <1>3, <1>4 DEF IInv

-----------------------------------------------------------------------------
\* Steps that keep the queues and the events in flight keep the invariant, if
\* they leave a pump waiting only where there is nothing to do.

\* Waking the pump keeps its type and leaves it waiting nowhere new.
LEMMA SignalledPump ==
  ASSUME TypeOK, NEW i \in Instances, pump' = Signalled(i)
  PROVE  /\ pump' \in [Instances -> {"none", "ready", "get", "waiting", "result", "ended"}]
         /\ pump'[i] # "waiting"
         /\ \A j \in Instances : j # i => pump'[j] = pump[j]
         /\ \A j \in Instances : pump'[j] = "result" => pump[j] = "result"
  BY DEF TypeOK, Signalled

\* Registering, unregistering and the runtime's abort.
LEMMA ManagerStep ==
  ASSUME IInv, NEW i \in Instances, Manager(i)
  PROVE  IInv'
  <1> USE DEF IInv
  <1>1. CASE Register(i)
    <2>1. TypeOK'
      <3>1. todo' \in [Emitters -> SUBSET Instances]  BY <1>1 DEF TypeOK, Register, Iterating
      <3>2. started' \in 0..MaxInstances /\ registered' \subseteq Instances /\ alive' \subseteq Instances
        BY <1>1 DEF TypeOK, Register
      <3>3. pump' \in [Instances -> {"none", "ready", "get", "waiting", "result", "ended"}]
        BY <1>1 DEF TypeOK, Register
      <3> QED  BY <1>1, <3>1, <3>2, <3>3 DEF TypeOK, Register
    <2>2. Carrying' /\ QueueBounded'  BY <1>1 DEF Register, Carrying, QueueBounded
    <2>3. HeadIsInFlight' /\ NoLostWakeup'
      BY <1>1 DEF TypeOK, Register, HeadIsInFlight, NoLostWakeup
    <2> QED  BY <2>1, <2>2, <2>3
  <1>2. CASE Unregister(i)
    <2>1. pump' = Signalled(i)  BY <1>2 DEF Unregister
    <2>2. TypeOK'
      <3>1. todo' \in [Emitters -> SUBSET Instances]  BY <1>2 DEF TypeOK, Unregister, Iterating
      <3>2. registered' \subseteq Instances /\ stopped' \subseteq Instances
        BY <1>2 DEF TypeOK, Unregister
      <3> QED  BY <1>2, <2>1, <3>1, <3>2, SignalledPump DEF TypeOK, Unregister
    <2>3. Carrying' /\ QueueBounded'  BY <1>2 DEF Unregister, Carrying, QueueBounded
    <2>4. HeadIsInFlight'  BY <1>2, <2>1, SignalledPump DEF Unregister, HeadIsInFlight
    <2>5. NoLostWakeup'
      BY <1>2, <2>1, SignalledPump DEF Unregister, NoLostWakeup
    <2> QED  BY <2>2, <2>3, <2>4, <2>5
  <1>3. CASE MapRaceCrashes(i)
    <2>1. crashed' \in BOOLEAN  BY <1>3, Zenon DEF MapRaceCrashes
    <2>2. TypeOK'  BY <1>3, <2>1 DEF TypeOK, MapRaceCrashes
    <2>3. (Carrying /\ QueueBounded /\ HeadIsInFlight /\ NoLostWakeup)'
      BY <1>3 DEF MapRaceCrashes, Carrying, QueueBounded, HeadIsInFlight, NoLostWakeup
    <2> QED  BY <2>2, <2>3
  <1> QED  BY <1>1, <1>2, <1>3 DEF Manager

\* EmitEvent, encodeEvent and the queueing part of HandleEvent.
LEMMA EmitterStep ==
  ASSUME IInv, NEW e \in Emitters, Emitter(e)
  PROVE  IInv'
  <1> USE DEF IInv
  <1>1. ASSUME NEW t \in Types, Emit(e, t) PROVE IInv'
    <2>1. TypeOK'
      <3>1. eventSerial' \in 0..MaxEvents  BY <1>1 DEF TypeOK, Emit
      <3>2. emitter' \in [Emitters -> {"idle", "next", "queue"}] /\ todo' \in [Emitters -> SUBSET Instances]
        BY <1>1 DEF TypeOK, Emit
      <3>3. event' \in [Emitters -> 0..MaxEvents]  BY <1>1 DEF TypeOK, Emit
      <3> QED  BY <1>1, <3>1, <3>2, <3>3 DEF TypeOK, Emit
    <2>2. Carrying'  BY <1>1 DEF TypeOK, Emit, Carrying
    <2>3. QueueBounded' /\ HeadIsInFlight' /\ NoLostWakeup'
      BY <1>1 DEF Emit, QueueBounded, HeadIsInFlight, NoLostWakeup
    <2> QED  BY <2>1, <2>2, <2>3
  <1>2. ASSUME NEW i \in Instances, Encode(e, i) PROVE IInv'
    <2> DEFINE header == [serial |-> event[e], poolserial |-> poolSerial]
    <2>1. header \in Encoded  BY <1>2 DEF TypeOK, Encode, Carrying
    <2>2. [to |-> i, header |-> header] \in [to : Instances, header : Encoded]  BY <2>1
    <2>3. TypeOK'
      <3>1. encoded' \in [Emitters -> [to : Instances, header : Encoded] \cup {NoTarget}]
        BY <1>2, <2>2 DEF TypeOK, Encode, NextSerial
      <3>2. poolSerial' \in 1..(MaxPoolSerial + 1) /\ emitter' \in [Emitters -> {"idle", "next", "queue"}]
        BY <1>2 DEF TypeOK, Encode
      <3> QED  BY <1>2, <3>1, <3>2 DEF TypeOK, Encode
    <2>4. Carrying'  BY <1>2, <2>2 DEF TypeOK, Encode, NextSerial, Carrying
    <2>5. QueueBounded' /\ HeadIsInFlight' /\ NoLostWakeup'
      BY <1>2 DEF Encode, QueueBounded, HeadIsInFlight, NoLostWakeup
    <2> QED  BY <2>3, <2>4, <2>5
  <1>3. CASE Enqueue(e)
    <2> DEFINE i == encoded[e].to
               header == encoded[e].header
    <2>1. i \in Instances /\ header \in Encoded  BY <1>3 DEF Enqueue, Carrying
    <2>2. queue[i] \in Seq(Encoded)  BY <2>1 DEF TypeOK
    <2>3. /\ Append(queue[i], header) \in Seq(Encoded) /\ Append(queue[i], header) # <<>>
          /\ Len(Append(queue[i], header)) = Len(queue[i]) + 1
          /\ queue[i] # <<>> => Head(Append(queue[i], header)) = Head(queue[i])
      <3> HIDE DEF Encoded, i, header
      <3> QED  BY <2>1, <2>2, HeadOfAppend
    <2>4. /\ emitter' \in [Emitters -> {"idle", "next", "queue"}]
          /\ todo' \in [Emitters -> SUBSET Instances]
          /\ event' \in [Emitters -> 0..MaxEvents]
          /\ encoded' \in [Emitters -> [to : Instances, header : Encoded] \cup {NoTarget}]
      <3>1. emitter' \in [Emitters -> {"idle", "next", "queue"}]  BY <1>3 DEF TypeOK, Enqueue
      <3>2. todo' \in [Emitters -> SUBSET Instances]  BY <1>3 DEF TypeOK, Enqueue
      <3>3. event' \in [Emitters -> 0..MaxEvents]  BY <1>3 DEF TypeOK, Enqueue
      <3>4. encoded' \in [Emitters -> [to : Instances, header : Encoded] \cup {NoTarget}]
        BY <1>3 DEF TypeOK, Enqueue
      <3> QED  BY <3>1, <3>2, <3>3, <3>4
    <2>5. Carrying'  BY <1>3 DEF TypeOK, Enqueue, Carrying
    <2>6. CASE HasRoom(i)
      <3>1. queue' = [queue EXCEPT ![i] = Append(queue[i], header)] /\ pump' = Signalled(i)
        BY <1>3, <2>6 DEF Enqueue
      <3>2. queue' \in [Instances -> Seq(Encoded)]  BY <3>1, <2>1, <2>3 DEF TypeOK
      <3>3. TypeOK'  BY <1>3, <2>1, <2>4, <3>1, <3>2, SignalledPump DEF TypeOK, Enqueue
      <3>4. /\ queue'[i] = Append(queue[i], header)
            /\ \A j \in Instances : j # i => queue'[j] = queue[j]
        BY <2>1, <3>1 DEF TypeOK
      <3>5. Len(queue[i]) \in Nat  BY <2>2
      <3>6. QueueBounded'
        <4>1. Len(queue'[i]) = Len(queue[i]) + 1  BY <2>3, <3>4
        <4>2. Len(queue'[i]) <= BufferSize + 1  BY <2>6, <3>5, <4>1 DEF HasRoom
        <4> QED  BY <3>4, <4>2 DEF QueueBounded
      <3>7. HeadIsInFlight'
        <4> SUFFICES ASSUME NEW j \in Instances, pump'[j] = "result"
                     PROVE  queue'[j] # <<>> /\ Head(queue'[j]) = inFlight[j]
          BY <1>3 DEF Enqueue, HeadIsInFlight
        <4>1. queue[j] # <<>> /\ Head(queue[j]) = inFlight[j]
          BY <2>1, <3>1, SignalledPump DEF HeadIsInFlight
        <4>2. CASE j = i
          <5>1. queue'[j] # <<>> /\ Head(queue'[j]) = Head(queue[j])
            <6> HIDE DEF i, header, Encoded, NoEvent
            <6> QED  BY <2>3, <3>4, <4>1, <4>2
          <5> QED  BY <4>1, <5>1
        <4>3. CASE j # i  BY <3>4, <4>1, <4>3
        <4> QED  BY <4>2, <4>3
      <3>8. NoLostWakeup'
        BY <1>3, <2>1, <3>1, <3>4, SignalledPump DEF Enqueue, NoLostWakeup
      <3> QED  BY <2>5, <3>3, <3>6, <3>7, <3>8
    <2>7. CASE ~HasRoom(i)
      <3>1. UNCHANGED <<queue, pump>>  BY <1>3, <2>7 DEF Enqueue
      <3>2. TypeOK'  BY <1>3, <2>4, <3>1 DEF TypeOK, Enqueue
      <3>3. QueueBounded' /\ HeadIsInFlight' /\ NoLostWakeup'
        BY <1>3, <3>1 DEF Enqueue, QueueBounded, HeadIsInFlight, NoLostWakeup
      <3> QED  BY <2>5, <3>2, <3>3
    <2> QED  BY <2>6, <2>7
  <1> QED  BY <1>1, <1>2, <1>3 DEF Emitter

\* The delivery goroutine and the listener program.  Only RESULT OK changes a
\* queue, and only at its head.
LEMMA InstanceStep ==
  ASSUME IInv, NEW i \in Instances, Pump(i) \/ Program(i)
  PROVE  IInv'
  <1> USE DEF IInv, PumpAt
  <1>1. CASE Ready(i) \/ Ended(i) \/ Wait(i) \/ Quit(i) \/ WriteFails(i)
    <2> DEFINE points == {"none", "ready", "get", "waiting", "result", "ended"}
    <2>1. UNCHANGED <<emitVars, mapVars, queue, inFlight, acked, crashed>>
      BY <1>1 DEF Ready, Ended, Wait, Quit, WriteFails
    <2>2. PICK p \in points \ {"result"} : /\ pump' = [pump EXCEPT ![i] = p]
                                           /\ p = "waiting" => queue[i] = <<>> /\ i \notin stopped
      BY <1>1 DEF Ready, Ended, Wait, Quit, WriteFails
    <2>3. TypeOK'  BY <2>1, <2>2 DEF TypeOK
    <2>4. Carrying' /\ QueueBounded'  BY <2>1 DEF Carrying, QueueBounded
    <2>5. HeadIsInFlight' /\ NoLostWakeup'
      BY <2>1, <2>2 DEF TypeOK, HeadIsInFlight, NoLostWakeup
    <2> QED  BY <2>3, <2>4, <2>5
  <1>2. CASE Write(i)
    <2>1. queue[i] \in Seq(Encoded) /\ queue[i] # <<>>  BY <1>2 DEF TypeOK, Write
    <2>2. Head(queue[i]) \in Encoded
      <3> HIDE DEF Encoded
      <3> QED  BY <2>1, TailShorter
    <2>3. TypeOK'
      <3>1. inFlight' \in [Instances -> Encoded \cup {NoEvent}]  BY <1>2, <2>2 DEF TypeOK, Write
      <3>2. pump' \in [Instances -> {"none", "ready", "get", "waiting", "result", "ended"}]
        BY <1>2 DEF TypeOK, Write
      <3> QED  BY <1>2, <3>1, <3>2 DEF TypeOK, Write
    <2>4. Carrying' /\ QueueBounded'  BY <1>2 DEF Write, Carrying, QueueBounded
    <2>5. HeadIsInFlight' /\ NoLostWakeup'
      BY <1>2 DEF TypeOK, Write, HeadIsInFlight, NoLostWakeup
    <2> QED  BY <2>3, <2>4, <2>5
  <1>3. CASE ResultOK(i)
    <2>1. queue[i] \in Seq(Encoded) /\ queue[i] # <<>>
      BY <1>3 DEF TypeOK, ResultOK, HeadIsInFlight
    <2>2. /\ Tail(queue[i]) \in Seq(Encoded) /\ Len(Tail(queue[i])) = Len(queue[i]) - 1
          /\ Head(queue[i]) \in Encoded
      <3> HIDE DEF Encoded
      <3> QED  BY <2>1, TailShorter
    <2>3. acked[i] \in Seq(Encoded) /\ Append(acked[i], Head(queue[i])) \in Seq(Encoded)
      <3>1. acked[i] \in Seq(Encoded)  BY DEF TypeOK
      <3> HIDE DEF Encoded
      <3> QED  BY <2>2, <3>1, HeadOfAppend
    <2>4. TypeOK'
      <3>1. queue' \in [Instances -> Seq(Encoded)]  BY <1>3, <2>2 DEF TypeOK, ResultOK
      <3>2. acked' \in [Instances -> Seq(Encoded)]  BY <1>3, <2>3 DEF TypeOK, ResultOK
      <3>3. pump' \in [Instances -> {"none", "ready", "get", "waiting", "result", "ended"}]
        BY <1>3 DEF TypeOK, ResultOK
      <3>4. inFlight' \in [Instances -> Encoded \cup {NoEvent}]  BY <1>3 DEF TypeOK, ResultOK
      <3> QED  BY <1>3, <3>1, <3>2, <3>3, <3>4 DEF TypeOK, ResultOK
    <2>5. Carrying'  BY <1>3 DEF ResultOK, Carrying
    <2>6. QueueBounded'
      <3>1. queue'[i] = Tail(queue[i]) /\ \A j \in Instances : j # i => queue'[j] = queue[j]
        BY <1>3 DEF TypeOK, ResultOK
      <3>2. Len(queue[i]) \in Nat /\ Len(queue[i]) <= BufferSize + 1  BY <2>1 DEF QueueBounded
      <3>3. Len(queue'[i]) = Len(queue[i]) - 1  BY <2>2, <3>1
      <3>4. Len(queue'[i]) <= BufferSize + 1  BY <3>2, <3>3
      <3> QED  BY <3>1, <3>4 DEF QueueBounded
    <2>7. HeadIsInFlight'  BY <1>3 DEF TypeOK, ResultOK, HeadIsInFlight
    <2>8. NoLostWakeup'  BY <1>3 DEF TypeOK, ResultOK, NoLostWakeup
    <2> QED  BY <2>4, <2>5, <2>6, <2>7, <2>8
  <1>4. CASE ResultFails(i) \/ ResultUnknown(i)
    <2>1. TypeOK'
      <3>1. inFlight' \in [Instances -> Encoded \cup {NoEvent}]
        BY <1>4 DEF TypeOK, ResultFails, ResultUnknown
      <3>2. pump' \in [Instances -> {"none", "ready", "get", "waiting", "result", "ended"}]
        BY <1>4 DEF TypeOK, ResultFails, ResultUnknown
      <3> QED  BY <1>4, <3>1, <3>2 DEF TypeOK, ResultFails, ResultUnknown
    <2>2. Carrying' /\ QueueBounded'  BY <1>4 DEF ResultFails, ResultUnknown, Carrying, QueueBounded
    <2>3. HeadIsInFlight' /\ NoLostWakeup'
      BY <1>4 DEF TypeOK, ResultFails, ResultUnknown, HeadIsInFlight, NoLostWakeup
    <2> QED  BY <2>1, <2>2, <2>3
  <1>5. CASE Dies(i)
    <2>1. TypeOK'  BY <1>5 DEF TypeOK, Dies
    <2>2. Carrying' /\ QueueBounded'  BY <1>5 DEF Dies, Carrying, QueueBounded
    <2>3. HeadIsInFlight' /\ NoLostWakeup'  BY <1>5 DEF Dies, HeadIsInFlight, NoLostWakeup
    <2> QED  BY <2>1, <2>2, <2>3
  <1> QED  BY <1>1, <1>2, <1>3, <1>4, <1>5 DEF Pump, Program

\* Every step, a stuttering one included, keeps the invariant.
LEMMA StepIInv == IInv /\ [Next]_vars => IInv'
  <1> SUFFICES ASSUME IInv, [Next]_vars PROVE IInv'
    OBVIOUS
  <1>1. CASE UNCHANGED vars
    <2>1. TypeOK'  BY <1>1 DEF IInv, TypeOK, vars
    <2>2. (Carrying /\ QueueBounded /\ HeadIsInFlight /\ NoLostWakeup)'
      BY <1>1 DEF IInv, vars, Carrying, QueueBounded, HeadIsInFlight, NoLostWakeup
    <2> QED  BY <2>1, <2>2 DEF IInv
  <1>2. CASE Next
    <2>1. ASSUME NEW i \in Instances, Manager(i) PROVE IInv'  BY <2>1, ManagerStep
    <2>2. ASSUME NEW i \in Instances, Pump(i) \/ Program(i) PROVE IInv'  BY <2>2, InstanceStep
    <2>3. ASSUME NEW e \in Emitters, Emitter(e) PROVE IInv'  BY <2>3, EmitterStep
    <2> QED  BY <1>2, <2>1, <2>2, <2>3 DEF Next
  <1> QED  BY <1>1, <1>2

\* The inductive invariant holds in every reachable state.
LEMMA Inductive == Spec => []IInv
  BY InitIInv, StepIInv, PTL DEF Spec

-----------------------------------------------------------------------------
\* Type correctness: encodeEvent, HandleEvent and the delivery goroutine only
\* build and move well-formed headers.
THEOREM TypeCorrect == Spec => []TypeOK
  <1>1. IInv => TypeOK  BY DEF IInv
  <1> QED  BY <1>1, Inductive, PTL

\* No queue of HandleEvent grows beyond buffer_size + 1.
THEOREM BufferBounded == Spec => []QueueBounded
  <1>1. IInv => QueueBounded  BY DEF IInv
  <1> QED  BY <1>1, Inductive, PTL

\* removeFirstEvent removes the event the program has acknowledged, for any
\* number of emitters queueing meanwhile.
THEOREM AcknowledgesWhatWasSent == Spec => []HeadIsInFlight
  <1>1. IInv => HeadIsInFlight  BY DEF IInv
  <1> QED  BY <1>1, Inductive, PTL

\* The condition variable of getFirstEvent, HandleEvent and stop() loses no
\* wake-up.
THEOREM WakeupsArrive == Spec => []NoLostWakeup
  <1>1. IInv => NoLostWakeup  BY DEF IInv
  <1> QED  BY <1>1, Inductive, PTL

-----------------------------------------------------------------------------
\* Serials.

\* Emitters own the serials they took: an event's, and a header's until it is queued.
Owned ==
  /\ \A e \in Emitters : emitter[e] # "idle" => event[e] <= eventSerial
  /\ \A e, f \in Emitters : emitter[e] # "idle" /\ emitter[f] # "idle" /\ event[e] = event[f] => e = f
  /\ \A e \in Emitters : emitter[e] = "queue" =>
       /\ encoded[e].to \in todo[e] /\ encoded[e].header.serial = event[e]
       /\ encoded[e].header.poolserial < poolSerial
  /\ \A e, f \in Emitters :
       emitter[e] = "queue" /\ emitter[f] = "queue"
         /\ encoded[e].header.poolserial = encoded[f].header.poolserial => e = f

\* What was given carries serials taken before and owned by no emitter that
\* would still use them.
Spent ==
  \A i \in Instances : \A m \in 1..Len(Given(i)) :
    /\ Given(i)[m].serial <= eventSerial /\ Given(i)[m].poolserial < poolSerial
    /\ \A e \in Emitters :
         /\ emitter[e] # "idle" /\ i \in todo[e] => Given(i)[m].serial # event[e]
         /\ emitter[e] = "queue" => Given(i)[m].poolserial # encoded[e].header.poolserial

\* Emitters reach only instances that exist; one that does not was given nothing.
Existing ==
  /\ registered \subseteq 1..started
  /\ \A e \in Emitters : todo[e] \subseteq 1..started
  /\ \A i \in Instances : i > started => Given(i) = <<>>

SInv == Owned /\ Spent /\ Existing /\ SerialsDistinct

\* Joining what was acknowledged with what is queued: queueing appends, and a
\* queue's head moves across unchanged.
LEMMA JoiningAppend ==
  ASSUME NEW S, NEW a \in Seq(S), NEW q \in Seq(S), NEW x \in S
  PROVE  a \o Append(q, x) = Append(a \o q, x)
  BY SMTT(20)

LEMMA JoiningHead ==
  ASSUME NEW S, NEW a \in Seq(S), NEW q \in Seq(S), q # <<>>
  PROVE  Append(a, Head(q)) \o Tail(q) = a \o q
  BY SMTT(20)

\* What an instance was given is a sequence of headers.
LEMMA GivenType ==
  ASSUME TypeOK, NEW i \in Instances
  PROVE  Given(i) \in Seq(Encoded) /\ Len(Given(i)) \in Nat
  <1>1. acked[i] \in Seq(Encoded) /\ queue[i] \in Seq(Encoded)  BY DEF TypeOK
  <1> HIDE DEF Encoded
  <1>2. Given(i) \in Seq(Encoded)  BY <1>1 DEF Given
  <1> QED  BY <1>2, LenProperties

\* Only HandleEvent gives an instance anything, the header it has encoded.
LEMMA GivenSteps ==
  ASSUME IInv, [Next]_vars
  PROVE  \/ \A j \in Instances : Given(j)' = Given(j)
         \/ \E e \in Emitters, i \in Instances :
              /\ Enqueue(e) /\ encoded[e].to = i /\ encoded[e].header \in Encoded
              /\ Given(i)' = Append(Given(i), encoded[e].header)
              /\ \A j \in Instances \ {i} : Given(j)' = Given(j)
  <1> USE DEF IInv
  <1>1. CASE UNCHANGED <<queue, acked>>  BY <1>1 DEF Given
  <1>2. ASSUME NEW i \in Instances, ResultOK(i) PROVE \A j \in Instances : Given(j)' = Given(j)
    <2>1. acked[i] \in Seq(Encoded) /\ queue[i] \in Seq(Encoded) /\ queue[i] # <<>>
      BY <1>2 DEF TypeOK, ResultOK, PumpAt, HeadIsInFlight
    <2>2. /\ acked'[i] = Append(acked[i], Head(queue[i])) /\ queue'[i] = Tail(queue[i])
          /\ \A j \in Instances \ {i} : acked'[j] = acked[j] /\ queue'[j] = queue[j]
      BY <1>2 DEF TypeOK, ResultOK
    <2>3. acked'[i] \o queue'[i] = acked[i] \o queue[i]
      <3> HIDE DEF Encoded
      <3> QED  BY <2>1, <2>2, JoiningHead
    <2> QED  BY <2>2, <2>3 DEF Given
  <1>3. ASSUME NEW e \in Emitters, Enqueue(e), NEW i \in Instances, encoded[e].to = i, HasRoom(i)
        PROVE  /\ encoded[e].header \in Encoded
               /\ Given(i)' = Append(Given(i), encoded[e].header)
               /\ \A j \in Instances \ {i} : Given(j)' = Given(j)
    <2>1. PICK header \in Encoded : header = encoded[e].header  BY <1>3 DEF Enqueue, Carrying
    <2>2. acked[i] \in Seq(Encoded) /\ queue[i] \in Seq(Encoded)  BY DEF TypeOK
    <2>3. /\ acked' = acked /\ queue'[i] = Append(queue[i], header)
          /\ \A j \in Instances \ {i} : queue'[j] = queue[j]
      BY <1>3, <2>1 DEF TypeOK, Enqueue
    <2>4. acked[i] \o Append(queue[i], header) = Append(acked[i] \o queue[i], header)
      <3> HIDE DEF Encoded
      <3>1. PICK a \in Seq(Encoded), q \in Seq(Encoded) : a = acked[i] /\ q = queue[i]  BY <2>2, Zenon
      <3>2. a \o Append(q, header) = Append(a \o q, header)  BY JoiningAppend
      <3> QED  BY <3>1, <3>2, Zenon
    <2> QED  BY <2>1, <2>3, <2>4 DEF Given
  <1>4. ASSUME NEW e \in Emitters, Enqueue(e), ~HasRoom(encoded[e].to) PROVE UNCHANGED <<queue, acked>>
    BY <1>4 DEF Enqueue
  <1>5. ASSUME NEW i \in Instances, Manager(i) PROVE UNCHANGED <<queue, acked>>
    BY <1>5 DEF Manager, Register, Unregister, MapRaceCrashes
  <1>6. ASSUME NEW i \in Instances, Pump(i) PROVE UNCHANGED <<queue, acked>>
    BY <1>6 DEF Pump, Wait, Quit, Write, WriteFails, Ended
  <1>7. ASSUME NEW i \in Instances, Ready(i) \/ ResultFails(i) \/ ResultUnknown(i) \/ Dies(i)
        PROVE  UNCHANGED <<queue, acked>>
    BY <1>7 DEF Ready, ResultFails, ResultUnknown, Dies
  <1>8. ASSUME NEW e \in Emitters, \/ \E t \in Types : Emit(e, t)
                                   \/ \E i \in Instances : Encode(e, i)
        PROVE  UNCHANGED <<queue, acked>>
    BY <1>8 DEF Emit, Encode
  <1>9. ASSUME NEW e \in Emitters, Enqueue(e) PROVE encoded[e].to \in Instances
    BY <1>9 DEF Enqueue, Carrying
  <1>10. CASE UNCHANGED vars  BY <1>1, <1>10 DEF vars
  <1> QED  BY <1>1, <1>2, <1>3, <1>4, <1>5, <1>6, <1>7, <1>8, <1>9, <1>10 DEF Next, Program, Emitter

\* No serial is taken yet.
LEMMA InitSInv == Init => SInv
  <1> SUFFICES ASSUME Init PROVE SInv
    OBVIOUS
  <1>1. \A i \in Instances : Given(i) = <<>> /\ Len(Given(i)) = 0  BY DEF Init, Given
  <1>2. Owned /\ Existing  BY <1>1 DEF Init, Owned, Existing
  <1>3. Spent /\ SerialsDistinct  BY <1>1 DEF Spent, SerialsDistinct
  <1> QED  BY <1>2, <1>3 DEF SInv

\* Where nothing is given the serials stay distinct.
LEMMA KeepsDistinct ==
  ASSUME SerialsDistinct, \A j \in Instances : Given(j)' = Given(j)
  PROVE  SerialsDistinct'
  <1>1. ASSUME NEW i \in Instances, NEW j \in Instances,
               NEW m \in 1..Len(Given(i)'), NEW n \in 1..Len(Given(j)')
        PROVE  /\ Given(i)'[m].poolserial = Given(j)'[n].poolserial => i = j /\ m = n
               /\ i = j /\ Given(i)'[m].serial = Given(i)'[n].serial => m = n
    <2>1. Given(i)' = Given(i) /\ Given(j)' = Given(j)  OBVIOUS
    <2>2. m \in 1..Len(Given(i)) /\ n \in 1..Len(Given(j))  BY <2>1, Zenon
    <2>3. Given(i)[m].poolserial = Given(j)[n].poolserial => i = j /\ m = n
      BY <2>2, Zenon DEF SerialsDistinct
    <2>4. i = j /\ Given(i)[m].serial = Given(i)[n].serial => m = n
      BY <2>2, Zenon DEF SerialsDistinct
    <2> QED  BY <2>1, <2>3, <2>4, Zenon
  <1> QED  BY <1>1 DEF SerialsDistinct

\* The maps: only instances that exist are found by an emitter's loop, and a
\* new one was given nothing yet.
LEMMA ManagerSInv ==
  ASSUME IInv, SInv, NEW i \in Instances, Manager(i), \A j \in Instances : Given(j)' = Given(j)
  PROVE  SInv'
  <1> USE DEF SInv
  <1>1. SerialsDistinct'  BY KeepsDistinct
  <1>2. /\ UNCHANGED <<emitter, event, encoded, eventSerial, poolSerial>>
        /\ started <= started' /\ started \in Nat /\ started' \in Nat
        /\ \A e \in Emitters :
             todo'[e] \subseteq todo[e] \cup {j \in Instances : started < j /\ j <= started'}
        /\ registered' \subseteq registered \cup (1..started')
    <2>1. started \in Nat /\ todo \in [Emitters -> SUBSET Instances]  BY DEF IInv, TypeOK
    <2>2. CASE Register(i)  BY <2>1, <2>2 DEF Register, CanRegister
    <2>3. CASE Unregister(i)  BY <2>1, <2>3 DEF Unregister
    <2>4. CASE MapRaceCrashes(i)  BY <2>1, <2>4 DEF MapRaceCrashes
    <2> QED  BY <2>2, <2>3, <2>4 DEF Manager
  <1>3. \A e \in Emitters : emitter[e] = "queue" => encoded[e].to \in todo'[e]
    <2>1. CASE Register(i)  BY <2>1 DEF Register, Owned
    <2>2. CASE Unregister(i)  BY <2>2 DEF Unregister, Owned
    <2>3. CASE MapRaceCrashes(i)  BY <2>3 DEF MapRaceCrashes, Owned
    <2> QED  BY <2>1, <2>2, <2>3 DEF Manager
  <1>4. Owned'  BY <1>2, <1>3 DEF Owned
  <1>5. Existing'  BY <1>2 DEF IInv, TypeOK, Existing
  <1>6. Spent'
    <2> SUFFICES ASSUME NEW j \in Instances, NEW m \in 1..Len(Given(j)), NEW e \in Emitters,
                        emitter[e] # "idle", j \in todo'[e]
                 PROVE  Given(j)[m].serial # event[e]
      BY <1>2 DEF Spent
    <2>1. j <= started
      <3>1. CASE j > started
        <4>1. Given(j) = <<>>  BY <3>1 DEF Existing
        <4>2. Len(Given(j)) = 0  BY <4>1
        <4> QED  BY <4>2
      <3> QED  BY <1>2, <3>1
    <2>2. j \in todo[e]  BY <1>2, <2>1
    <2> QED  BY <2>2 DEF Spent
  <1> QED  BY <1>1, <1>4, <1>5, <1>6

\* EmitEvent takes an event serial, encodeEvent a pool serial that is new.
LEMMA EmitEncodeSInv ==
  ASSUME IInv, SInv, NEW e \in Emitters,
         \/ \E t \in Types : Emit(e, t)
         \/ \E i \in Instances : Encode(e, i),
         \A j \in Instances : Given(j)' = Given(j)
  PROVE  SInv'
  <1> USE DEF SInv
  <1>1. SerialsDistinct'  BY KeepsDistinct
  <1>2. \A j \in Instances : Given(j) \in Seq(Encoded)  BY GivenType DEF IInv
  <1>3. \A j \in Instances : \A m \in 1..Len(Given(j)) : Given(j)[m] \in Encoded
    <2> HIDE DEF Encoded
    <2> QED  BY <1>2, ElementOfSeq
  <1>4. ASSUME NEW t \in Types, Emit(e, t) PROVE SInv'
    <2>1. /\ eventSerial \in Nat /\ eventSerial' = eventSerial + 1
          /\ UNCHANGED <<poolSerial, encoded, started, registered>>
          /\ \A f \in Emitters \ {e} : emitter'[f] = emitter[f] /\ event'[f] = event[f] /\ todo'[f] = todo[f]
          /\ todo'[e] \subseteq registered /\ emitter[e] = "idle" /\ emitter'[e] \in {"idle", "next"}
          /\ emitter'[e] # "idle" => event'[e] = eventSerial + 1
      BY <1>4 DEF IInv, TypeOK, Emit
    <2>2. \A f \in Emitters : event[f] \in Nat  BY DEF IInv, TypeOK
    <2>3. Owned'
      <3>1. \A f \in Emitters \ {e} : emitter[f] # "idle" => event[f] <= eventSerial  BY DEF Owned
      <3>2. \A f \in Emitters : emitter'[f] # "idle" => event'[f] <= eventSerial'  BY <2>1, <2>2, <3>1
      <3>3. \A f, g \in Emitters :
              emitter'[f] # "idle" /\ emitter'[g] # "idle" /\ event'[f] = event'[g] => f = g
        BY <2>1, <2>2, <3>1 DEF Owned
      <3>4. \A f \in Emitters : emitter'[f] = "queue" => f # e /\ emitter[f] = "queue"  BY <2>1
      <3> QED  BY <2>1, <3>2, <3>3, <3>4 DEF Owned
    <2>4. Existing'  BY <2>1 DEF Existing
    <2>5. Spent'
      <3> SUFFICES ASSUME NEW j \in Instances, NEW m \in 1..Len(Given(j))
                   PROVE  /\ Given(j)[m].serial <= eventSerial' /\ Given(j)[m].poolserial < poolSerial
                          /\ \A f \in Emitters :
                               /\ emitter'[f] # "idle" /\ j \in todo'[f] => Given(j)[m].serial # event'[f]
                               /\ emitter'[f] = "queue" => Given(j)[m].poolserial # encoded[f].header.poolserial
        BY <2>1 DEF Spent
      <3>1. Given(j)[m].serial \in Nat  BY <1>3
      <3>2. Given(j)[m].serial <= eventSerial /\ Given(j)[m].poolserial < poolSerial  BY DEF Spent
      <3>3. Given(j)[m].serial <= eventSerial'  BY <2>1, <3>1, <3>2
      <3>4. emitter'[e] # "idle" => Given(j)[m].serial # event'[e]  BY <2>1, <3>1, <3>2
      <3> QED  BY <2>1, <3>2, <3>3, <3>4 DEF Spent
    <2> QED  BY <1>1, <2>3, <2>4, <2>5
  <1>5. ASSUME NEW i \in Instances, Encode(e, i) PROVE SInv'
    <2>1. /\ poolSerial \in Nat /\ poolSerial' = poolSerial + 1
          /\ UNCHANGED <<eventSerial, event, todo, started, registered>>
          /\ i \in todo[e] /\ emitter[e] = "next" /\ emitter'[e] = "queue"
          /\ encoded'[e] = [to |-> i, header |-> [serial |-> event[e], poolserial |-> poolSerial]]
          /\ \A f \in Emitters \ {e} : emitter'[f] = emitter[f] /\ encoded'[f] = encoded[f]
      BY <1>5 DEF IInv, TypeOK, Encode, NextSerial
    <2>2. /\ encoded'[e].to = i /\ encoded'[e].header.serial = event[e]
          /\ encoded'[e].header.poolserial = poolSerial
      BY <2>1
    <2>3. \A f \in Emitters \ {e} : emitter[f] = "queue" =>
            encoded[f].header.poolserial \in Nat /\ encoded[f].header.poolserial < poolSerial
      BY DEF IInv, Carrying, Owned
    <2>4. Owned'
      <3>1. \A f \in Emitters : emitter'[f] # "idle" => emitter[f] # "idle"  BY <2>1
      <3>2. \A f \in Emitters : emitter'[f] = "queue" =>
              /\ encoded'[f].to \in todo[f] /\ encoded'[f].header.serial = event[f]
              /\ encoded'[f].header.poolserial < poolSerial'
        BY <2>1, <2>2, <2>3 DEF Owned
      <3>3. \A f, g \in Emitters :
              emitter'[f] = "queue" /\ emitter'[g] = "queue"
                /\ encoded'[f].header.poolserial = encoded'[g].header.poolserial => f = g
        BY <2>1, <2>2, <2>3 DEF Owned
      <3> QED  BY <2>1, <3>1, <3>2, <3>3 DEF Owned
    <2>5. Existing'  BY <2>1 DEF Existing
    <2>6. Spent'
      <3> SUFFICES ASSUME NEW j \in Instances, NEW m \in 1..Len(Given(j))
                   PROVE  /\ Given(j)[m].serial <= eventSerial /\ Given(j)[m].poolserial < poolSerial'
                          /\ \A f \in Emitters :
                               /\ emitter'[f] # "idle" /\ j \in todo[f] => Given(j)[m].serial # event[f]
                               /\ emitter'[f] = "queue" => Given(j)[m].poolserial # encoded'[f].header.poolserial
        BY <2>1 DEF Spent
      <3>1. Given(j)[m].poolserial \in Nat  BY <1>3
      <3>2. Given(j)[m].serial <= eventSerial /\ Given(j)[m].poolserial < poolSerial  BY DEF Spent
      <3>3. Given(j)[m].poolserial < poolSerial' /\ Given(j)[m].poolserial # encoded'[e].header.poolserial
        BY <2>1, <2>2, <3>1, <3>2
      <3> QED  BY <2>1, <3>2, <3>3 DEF Spent
    <2> QED  BY <1>1, <2>4, <2>5, <2>6
  <1> QED  BY <1>4, <1>5

\* HandleEvent's append spends the two serials the emitter owned for this
\* instance; when the queue is full they are dropped with the event.
LEMMA EnqueueSInv ==
  ASSUME IInv, SInv, NEW e \in Emitters, NEW i \in Instances, Enqueue(e), encoded[e].to = i,
         NEW header \in Encoded, header = encoded[e].header,
         \/ \A j \in Instances : Given(j)' = Given(j)
         \/ /\ Given(i)' = Append(Given(i), header)
            /\ \A j \in Instances \ {i} : Given(j)' = Given(j)
  PROVE  SInv'
  <1> USE DEF SInv
  <1>1. \A j \in Instances : Given(j) \in Seq(Encoded) /\ Len(Given(j)) \in Nat
    BY GivenType DEF IInv
  <1>2. \A j \in Instances : \A m \in 1..Len(Given(j)') :
          \/ m \in 1..Len(Given(j)) /\ Given(j)'[m] = Given(j)[m]
          \/ j = i /\ m = Len(Given(i)) + 1 /\ Given(j)'[m] = header
    <2>1. PICK G \in Seq(Encoded) : G = Given(i)  BY <1>1
    <2>2. /\ Len(Append(G, header)) = Len(G) + 1 /\ Len(G) \in Nat
          /\ \A m \in 1 .. Len(G) + 1 : Append(G, header)[m] = IF m <= Len(G) THEN G[m] ELSE header
      <3> HIDE DEF Encoded
      <3> QED  BY <2>1
    <2>3. CASE \A j \in Instances : Given(j)' = Given(j)  BY <2>3
    <2>4. CASE Given(i)' = Append(Given(i), header) /\ \A j \in Instances \ {i} : Given(j)' = Given(j)
      <3>1. /\ Len(Given(i)') = Len(Given(i)) + 1
            /\ \A m \in 1 .. Len(Given(i)) + 1 :
                 Given(i)'[m] = IF m <= Len(Given(i)) THEN Given(i)[m] ELSE header
        BY <2>1, <2>2, <2>4
      <3>2. ASSUME NEW m \in 1..Len(Given(i)')
            PROVE  \/ m \in 1..Len(Given(i)) /\ Given(i)'[m] = Given(i)[m]
                   \/ m = Len(Given(i)) + 1 /\ Given(i)'[m] = header
        <4>1. Len(Given(i)) \in Nat  BY <1>1
        <4>2. m \in 1 .. Len(Given(i)) + 1  BY <3>1
        <4> QED  BY <3>1, <4>1, <4>2
      <3>3. ASSUME NEW j \in Instances \ {i}, NEW m \in 1..Len(Given(j)')
            PROVE  m \in 1..Len(Given(j)) /\ Given(j)'[m] = Given(j)[m]
        BY <2>4
      <3> QED  BY <3>2, <3>3
    <2> QED  BY <2>3, <2>4
  <1>3. ASSUME NEW j \in Instances, NEW m \in 1..Len(Given(j)'), m \in 1..Len(Given(j))
        PROVE  Given(j)'[m] = Given(j)[m]
    <2>1. CASE j = i /\ m = Len(Given(i)) + 1
      <3>1. Len(Given(i)) \in Nat /\ Len(Given(i)) + 1 \in 1..Len(Given(i))  BY <1>1, <1>3, <2>1
      <3> QED  BY <3>1
    <2> QED  BY <1>2, <2>1
  <1>4. /\ emitter[e] = "queue" /\ emitter'[e] \in {"idle", "next"}
        /\ i \in todo[e] /\ todo'[e] = todo[e] \ {i}
        /\ emitter'[e] # "idle" => event'[e] = event[e]
        /\ UNCHANGED <<eventSerial, poolSerial, started, registered>>
        /\ \A f \in Emitters \ {e} : /\ emitter'[f] = emitter[f] /\ event'[f] = event[f]
                                     /\ todo'[f] = todo[f] /\ encoded'[f] = encoded[f]
    <2>1. i \in todo[e]  BY DEF Enqueue, Owned
    <2> QED  BY <2>1 DEF IInv, TypeOK, Enqueue
  <1>5. header.serial = event[e] /\ header.poolserial < poolSerial /\ event[e] <= eventSerial
    BY <1>4 DEF Owned
  <1>6. Owned'
    <2>1. \A f \in Emitters : emitter'[f] = "queue" => f # e /\ emitter[f] = "queue"  BY <1>4
    <2>2. \A f \in Emitters : emitter'[f] # "idle" => emitter[f] # "idle" /\ event'[f] = event[f]  BY <1>4
    <2> QED  BY <1>4, <2>1, <2>2 DEF Owned
  <1>7. Existing'
    <2>1. \A j \in Instances : j > started => j # i  BY <1>4 DEF Existing, IInv, TypeOK
    <2> QED  BY <1>4, <2>1 DEF Existing
  <1>8. Spent'
    <2> SUFFICES ASSUME NEW j \in Instances, NEW m \in 1..Len(Given(j)')
                 PROVE  /\ Given(j)'[m].serial <= eventSerial /\ Given(j)'[m].poolserial < poolSerial
                        /\ \A f \in Emitters :
                             /\ emitter'[f] # "idle" /\ j \in todo'[f] => Given(j)'[m].serial # event'[f]
                             /\ emitter'[f] = "queue" =>
                                  Given(j)'[m].poolserial # encoded'[f].header.poolserial
      BY <1>4 DEF Spent
    <2>1. CASE m \in 1..Len(Given(j)) /\ Given(j)'[m] = Given(j)[m]
      <3>1. /\ Given(j)[m].serial <= eventSerial /\ Given(j)[m].poolserial < poolSerial
            /\ \A f \in Emitters :
                 /\ emitter[f] # "idle" /\ j \in todo[f] => Given(j)[m].serial # event[f]
                 /\ emitter[f] = "queue" => Given(j)[m].poolserial # encoded[f].header.poolserial
        BY <2>1 DEF Spent
      <3> QED  BY <1>4, <2>1, <3>1
    <2>2. CASE j = i /\ Given(j)'[m] = header
      <3>1. \A f \in Emitters \ {e} : emitter[f] # "idle" => event[f] # event[e]  BY <1>4 DEF Owned
      <3>2. \A f \in Emitters \ {e} : emitter[f] = "queue" => encoded[f].header.poolserial # header.poolserial
        BY <1>4 DEF Owned
      <3> QED  BY <1>4, <1>5, <2>2, <3>1, <3>2
    <2> QED  BY <1>2, <2>1, <2>2
  <1>9. SerialsDistinct'
    <2>1. ASSUME NEW j \in Instances, NEW m \in 1..Len(Given(j))
          PROVE  /\ Given(j)[m].poolserial # header.poolserial
                 /\ j = i => Given(j)[m].serial # header.serial
      BY <1>4, <1>5 DEF Spent
    <2>2. ASSUME NEW j \in Instances, NEW k \in Instances,
                 NEW m \in 1..Len(Given(j)'), NEW n \in 1..Len(Given(k)'),
                 Given(j)'[m].poolserial = Given(k)'[n].poolserial
          PROVE  j = k /\ m = n
      <3>1. CASE m \in 1..Len(Given(j)) /\ n \in 1..Len(Given(k))
        <4>1. Given(j)'[m] = Given(j)[m] /\ Given(k)'[n] = Given(k)[n]  BY <1>3, <3>1
        <4>2. Given(j)[m].poolserial = Given(k)[n].poolserial  BY <2>2, <4>1
        <4>3. \A x, y \in Instances : \A p \in 1..Len(Given(x)), q \in 1..Len(Given(y)) :
                Given(x)[p].poolserial = Given(y)[q].poolserial => x = y /\ p = q
          BY DEF SerialsDistinct
        <4> HIDE DEF Given, SInv
        <4> QED  BY <3>1, <4>2, <4>3, Zenon
      <3>2. CASE m \in 1..Len(Given(j)) /\ n \notin 1..Len(Given(k))
        <4>1. Given(j)'[m] = Given(j)[m] /\ Given(k)'[n] = header  BY <1>1, <1>2, <3>2
        <4> QED  BY <2>1, <2>2, <3>2, <4>1
      <3>3. CASE m \notin 1..Len(Given(j)) /\ n \in 1..Len(Given(k))
        <4>1. Given(j)'[m] = header /\ Given(k)'[n] = Given(k)[n]  BY <1>1, <1>2, <3>3
        <4> QED  BY <2>1, <2>2, <3>3, <4>1
      <3>4. CASE m \notin 1..Len(Given(j)) /\ n \notin 1..Len(Given(k))  BY <1>2, <3>4
      <3> QED  BY <3>1, <3>2, <3>3, <3>4
    <2>3. ASSUME NEW j \in Instances, NEW m \in 1..Len(Given(j)'), NEW n \in 1..Len(Given(j)'),
                 Given(j)'[m].serial = Given(j)'[n].serial
          PROVE  m = n
      <3>1. CASE m \in 1..Len(Given(j)) /\ n \in 1..Len(Given(j))
        <4>1. Given(j)'[m] = Given(j)[m] /\ Given(j)'[n] = Given(j)[n]  BY <1>3, <3>1
        <4> QED  BY <2>3, <3>1, <4>1 DEF SerialsDistinct
      <3>2. CASE m \in 1..Len(Given(j)) /\ n \notin 1..Len(Given(j))
        <4>1. Given(j)'[m] = Given(j)[m] /\ Given(j)'[n] = header /\ j = i  BY <1>1, <1>2, <3>2
        <4> QED  BY <2>1, <2>3, <3>2, <4>1
      <3>3. CASE m \notin 1..Len(Given(j)) /\ n \in 1..Len(Given(j))
        <4>1. Given(j)'[m] = header /\ Given(j)'[n] = Given(j)[n] /\ j = i  BY <1>1, <1>2, <3>3
        <4> QED  BY <2>1, <2>3, <3>3, <4>1
      <3>4. CASE m \notin 1..Len(Given(j)) /\ n \notin 1..Len(Given(j))  BY <1>2, <3>4
      <3> QED  BY <3>1, <3>2, <3>3, <3>4
    <2> QED  BY <2>2, <2>3 DEF SerialsDistinct
  <1> QED  BY <1>6, <1>7, <1>8, <1>9

\* Steps of a delivery goroutine or of its program leave every serial where it is.
LEMMA StepSInv == IInv /\ SInv /\ [Next]_vars => SInv'
  <1> SUFFICES ASSUME IInv, SInv, [Next]_vars PROVE SInv'
    OBVIOUS
  <1>1. CASE \A j \in Instances : Given(j)' = Given(j)
    <2>1. ASSUME UNCHANGED <<eventSerial, poolSerial, emitter, event, todo, encoded, started, registered>>
          PROVE  SInv'
      <3>1. Owned' /\ Existing'  BY <1>1, <2>1 DEF SInv, Owned, Existing
      <3>2. SerialsDistinct'  BY <1>1, KeepsDistinct DEF SInv
      <3>3. Spent'
        <4> SUFFICES ASSUME NEW i \in Instances, NEW m \in 1..Len(Given(i))
                     PROVE  /\ Given(i)[m].serial <= eventSerial /\ Given(i)[m].poolserial < poolSerial
                            /\ \A e \in Emitters :
                                 /\ emitter[e] # "idle" /\ i \in todo[e] => Given(i)[m].serial # event[e]
                                 /\ emitter[e] = "queue" => Given(i)[m].poolserial # encoded[e].header.poolserial
          BY <1>1, <2>1, ZenonT(30) DEF Spent
        <4> QED  BY ZenonT(30) DEF SInv, Spent
      <3> QED  BY <3>1, <3>2, <3>3 DEF SInv
    <2>2. ASSUME NEW i \in Instances, Pump(i) \/ Program(i) PROVE SInv'
      <3>1. UNCHANGED <<eventSerial, poolSerial, emitter, event, todo, encoded, started, registered>>
        BY <2>2 DEF Pump, Program, Wait, Quit, Write, WriteFails, Ended, Ready, ResultOK, ResultFails,
                    ResultUnknown, Dies
      <3> QED  BY <2>1, <3>1
    <2>3. ASSUME NEW i \in Instances, Manager(i) PROVE SInv'  BY <1>1, <2>3, ManagerSInv
    <2>4. ASSUME NEW e \in Emitters, Emitter(e) PROVE SInv'
      <3>1. CASE Enqueue(e)
        <4>1. encoded[e].to \in Instances /\ encoded[e].header \in Encoded
          BY <3>1 DEF IInv, Enqueue, Carrying
        <4> QED  BY <1>1, <3>1, <4>1, EnqueueSInv
      <3> QED  BY <1>1, <2>4, <3>1, EmitEncodeSInv DEF Emitter
    <2>5. CASE UNCHANGED vars  BY <2>1, <2>5 DEF vars
    <2> QED  BY <2>2, <2>3, <2>4, <2>5 DEF Next
  <1>2. ASSUME NEW e \in Emitters, NEW i \in Instances, Enqueue(e), encoded[e].to = i,
               encoded[e].header \in Encoded, Given(i)' = Append(Given(i), encoded[e].header),
               \A j \in Instances \ {i} : Given(j)' = Given(j)
        PROVE  SInv'
    BY <1>2, EnqueueSInv
  <1> QED  BY <1>1, <1>2, GivenSteps

\* No two events given to the instances of a pool carry the same pool serial,
\* and none is given an event twice, for any number of emitters and restarts:
\* encodeEvent's and NewXxxEvent's serials are used once each.
THEOREM NoSerialTwice == Spec => []SerialsDistinct
  <1>1. SInv => SerialsDistinct  BY DEF SInv
  <1> QED  BY <1>1, InitSInv, StepSInv, Inductive, PTL DEF Spec

-----------------------------------------------------------------------------
\* Every step is a step of BoundedFifo or leaves queues and acknowledgements alone.
LEMMA StepFifo == IInv /\ [Next]_vars => [Fifo!Next]_<<queue, acked>>
  <1> SUFFICES ASSUME IInv, [Next]_vars PROVE Fifo!Next \/ UNCHANGED <<queue, acked>>
    OBVIOUS
  <1> USE DEF IInv
  <1>1. CASE UNCHANGED vars  BY <1>1 DEF vars
  <1>2. ASSUME NEW i \in Instances, Manager(i) PROVE UNCHANGED <<queue, acked>>
    BY <1>2 DEF Manager, Register, Unregister, MapRaceCrashes
  <1>3. ASSUME NEW i \in Instances, Pump(i) PROVE UNCHANGED <<queue, acked>>
    BY <1>3 DEF Pump, Wait, Quit, Write, WriteFails, Ended
  <1>4. ASSUME NEW i \in Instances, Program(i) PROVE Fifo!Next \/ UNCHANGED <<queue, acked>>
    <2>1. CASE ResultOK(i)
      <3>1. Fifo!Complete(i)
        BY <2>1 DEF ResultOK, PumpAt, HeadIsInFlight, Fifo!Complete
      <3> QED  BY <3>1 DEF Fifo!Next
    <2>2. CASE Ready(i) \/ ResultFails(i) \/ ResultUnknown(i) \/ Dies(i)
      BY <2>2 DEF Ready, ResultFails, ResultUnknown, Dies
    <2> QED  BY <1>4, <2>1, <2>2 DEF Program
  <1>5. ASSUME NEW e \in Emitters, Emitter(e) PROVE Fifo!Next \/ UNCHANGED <<queue, acked>>
    <2>1. CASE Enqueue(e)
      <3> DEFINE i == encoded[e].to
                 header == encoded[e].header
      <3>1. i \in Instances /\ header \in Encoded  BY <2>1 DEF Enqueue, Carrying
      <3>2. CASE HasRoom(i)
        <4>1. Len(queue[i]) \in Nat
          <5>1. queue[i] \in Seq(Encoded)  BY <3>1 DEF TypeOK
          <5> QED  BY <5>1, LenProperties
        <4>2. Len(queue[i]) < BufferSize + 1  BY <3>2, <4>1 DEF HasRoom
        <4>3. queue' = [queue EXCEPT ![i] = Append(queue[i], header)] /\ UNCHANGED acked
          BY <2>1, <3>2 DEF Enqueue
        <4>4. Fifo!Accept(i, header)  BY <4>2, <4>3 DEF Fifo!Accept
        <4> QED  BY <3>1, <4>4 DEF Fifo!Next
      <3>3. CASE ~HasRoom(i)  BY <2>1, <3>3 DEF Enqueue
      <3> QED  BY <3>2, <3>3
    <2>2. CASE \/ \E t \in Types : Emit(e, t)
               \/ \E i \in Instances : Encode(e, i)
      BY <2>2 DEF Emit, Encode
    <2> QED  BY <1>5, <2>1, <2>2 DEF Emitter
  <1> QED  BY <1>1, <1>2, <1>3, <1>4, <1>5 DEF Next

\* The queues of the listener's instances implement BoundedFifo: HandleEvent
\* accepts, removeFirstEvent completes, and no failure, restart or
\* unregistering loses, repeats or reorders an accepted event.
THEOREM ImplementsFifo == Spec => QueuesAreFifo
  <1>1. Init => Fifo!Init  BY DEF Init, Fifo!Init
  <1>2. IInv /\ [Next]_vars => [Fifo!Next]_Fifo!vars  BY StepFifo DEF Fifo!vars
  <1> QED  BY <1>1, <1>2, Inductive, PTL DEF Spec, QueuesAreFifo, Fifo!Spec
=============================================================================
