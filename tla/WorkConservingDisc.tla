------------------------- MODULE WorkConservingDisc -------------------------
(***************************************************************************)
(* What a multi-flow queue disc promises its caller, whatever order it     *)
(* serves its flows in: packets of a flow leave in arrival order, a        *)
(* dequeue returns null only when the disc is empty, a packet is discarded *)
(* only by an arrival that finds the disc full (one packet, at the head of *)
(* some flow) or its own flow at the limit of its queue, a peeked packet   *)
(* is the next one handed out, and every call returns.  A packet refused   *)
(* by the queue of its flow costs the disc one slot for good.              *)
(* DrrQueueDisc and SfqQueueDisc are shown to implement it.                *)
(***************************************************************************)
EXTENDS Naturals, Sequences, FiniteSets

CONSTANTS Flows, Items, NoItem, Capacity, FlowLimit

VARIABLES
  stored,   \* the packets of each flow, oldest first
  held,     \* the packet handed to a peek and not yet dequeued, or NoItem
  refused,  \* packets turned away by the queue of their flow
  busy      \* a dequeue or a peek was called and has not returned

vars == <<stored, held, refused, busy>>

Count(q) == Cardinality(UNION {{f} \X (1 .. Len(q[f])) : f \in Flows})

Init ==
  /\ stored = [f \in Flows |-> <<>>]
  /\ held = NoItem
  /\ refused = 0
  /\ busy = FALSE

\* A packet arrives; when the disc is full one packet has to go.
Arrive(f, x) ==
  /\ ~ busy
  /\ LET fits == Len(stored[f]) < FlowLimit
         q == IF fits THEN [stored EXCEPT ![f] = Append(@, x)] ELSE stored
     IN  /\ refused' = IF fits THEN refused ELSE refused + 1
         /\ IF Count(stored) + refused < Capacity
            THEN stored' = q
            ELSE \E v \in Flows : /\ q[v] # <<>>
                                  /\ stored' = [q EXCEPT ![v] = Tail(@)]
  /\ UNCHANGED <<held, busy>>

\* A dequeue that finds a peeked packet.
Release == ~ busy /\ held # NoItem /\ held' = NoItem
           /\ UNCHANGED <<stored, refused, busy>>

Call == ~ busy /\ held = NoItem /\ busy' = TRUE
        /\ UNCHANGED <<stored, held, refused>>

\* The call yields the oldest packet of some flow: to the caller if it was a
\* dequeue, set aside if it was a peek.
Yield(f) ==
  /\ busy
  /\ stored[f] # <<>>
  /\ stored' = [stored EXCEPT ![f] = Tail(@)]
  /\ held' \in {NoItem, Head(stored[f])}
  /\ busy' = FALSE
  /\ UNCHANGED refused

ReturnNull ==
  /\ busy
  /\ \A f \in Flows : stored[f] = <<>>
  /\ busy' = FALSE
  /\ UNCHANGED <<stored, held, refused>>

Return == ReturnNull \/ \E f \in Flows : Yield(f)

Next == \/ \E f \in Flows, x \in Items : Arrive(f, x)
        \/ Release \/ Call \/ Return

Spec == Init /\ [][Next]_vars
FairSpec == Spec /\ WF_vars(Return)
=============================================================================
