---------------------------- MODULE BoundedFifo ----------------------------
(***************************************************************************)
(* What the buffers of event listeners promise: a value is accepted while  *)
(* there is room, and values leave a buffer in the order in which it       *)
(* accepted them, each exactly once.                                       *)
(***************************************************************************)
EXTENDS Naturals, Sequences

CONSTANTS Buffers, Capacity, Value

VARIABLES
  pending,  \* per buffer: accepted, not yet done
  done      \* per buffer: every value that has left, in order

vars == <<pending, done>>

Init == /\ pending = [b \in Buffers |-> <<>>]
        /\ done = [b \in Buffers |-> <<>>]

Accept(b, v) ==
  /\ Len(pending[b]) < Capacity
  /\ pending' = [pending EXCEPT ![b] = Append(@, v)]
  /\ UNCHANGED done

Complete(b) ==
  /\ pending[b] # <<>>
  /\ pending' = [pending EXCEPT ![b] = Tail(@)]
  /\ done' = [done EXCEPT ![b] = Append(@, Head(pending[b]))]

Next == \E b \in Buffers : Complete(b) \/ \E v \in Value : Accept(b, v)

Spec == Init /\ [][Next]_vars
=============================================================================
