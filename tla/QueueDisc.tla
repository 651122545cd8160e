------------------------------ MODULE QueueDisc ------------------------------
(***************************************************************************)
(* The bookkeeping that every queue disc inherits from ns3::QueueDisc      *)
(* (traffic-control/model/queue-disc.cc), as operators on one record.      *)
(*                                                                         *)
(*   m_nPackets       packets the disc counts as its own                   *)
(*   m_requeued       the packet set aside by Requeue or by Peek           *)
(*   m_peeked         m_requeued was set aside by Peek, not by Requeue     *)
(*   nTotal...        the packet counters of QueueDisc::Stats              *)
(*                                                                         *)
(* The byte counters move in lockstep with the packet counters (the same   *)
(* statements, with item->GetSize () in the place of 1) and the per-reason *)
(* maps and trace sources feed nothing back, so both are left out.  A      *)
(* concrete disc is a module that keeps such a record in a variable and    *)
(* calls these operators where its code, or the trace callbacks installed  *)
(* by AddInternalQueue and AddQueueDiscClass, call the methods.            *)
(***************************************************************************)
EXTENDS Integers

CONSTANT NoItem        \* the null Ptr<QueueDiscItem>

\* What the record of a disc may hold when items are drawn from the set Items.
Base(Items) ==
  [ m_nPackets : Nat,
    m_requeued : Items \cup {NoItem},
    m_peeked   : BOOLEAN,
    nTotalReceived : Nat,
    nTotalEnqueued : Nat,
    nTotalDequeued : Nat,
    nTotalDroppedBeforeEnqueue : Nat,
    nTotalDroppedAfterDequeue  : Nat ]

\* QueueDisc::QueueDisc
NewBase ==
  [ m_nPackets |-> 0, m_requeued |-> NoItem, m_peeked |-> FALSE,
    nTotalReceived |-> 0, nTotalEnqueued |-> 0, nTotalDequeued |-> 0,
    nTotalDroppedBeforeEnqueue |-> 0, nTotalDroppedAfterDequeue |-> 0 ]

\* The first statement of QueueDisc::Enqueue, before DoEnqueue is called.
PacketReceived(b) == [b EXCEPT !.nTotalReceived = @ + 1]

PacketEnqueued(b) ==
  [b EXCEPT !.m_nPackets = @ + 1, !.nTotalEnqueued = @ + 1]

\* The statistics part of PacketDequeued, past its test of m_peeked.
CountDequeued(b) ==
  [b EXCEPT !.m_nPackets = @ - 1, !.nTotalDequeued = @ + 1]

\* A packet leaves an internal queue or a child.  While a peek is under way or
\* a peeked packet is held the call does nothing: the packet is still counted.
PacketDequeuedAlways(b) == CountDequeued(b)                         \* mutant
PacketDequeued(b) == IF b.m_peeked THEN b ELSE CountDequeued(b)

DropBeforeEnqueue(b) ==
  [b EXCEPT !.nTotalDroppedBeforeEnqueue = @ + 1]

\* A packet that already left its queue is discarded.  With m_peeked set the
\* PacketDequeued that preceded did nothing, so it is made up for here.
DropAfterDequeueNoMakeUp(b) ==                                      \* mutant
  [b EXCEPT !.nTotalDroppedAfterDequeue = @ + 1]
DropAfterDequeue(b) ==
  LET c == [b EXCEPT !.nTotalDroppedAfterDequeue = @ + 1]
  IN  IF b.m_peeked THEN CountDequeued(c) ELSE c

\* QueueDisc::Dequeue, the branch that hands out the packet set aside.
ReleaseRequeued(b) ==
  LET c == [b EXCEPT !.m_requeued = NoItem, !.m_peeked = FALSE]
  IN  IF b.m_peeked THEN CountDequeued(c) ELSE c

\* The tail of QueueDisc::DoPeek, with the result of Dequeue () in item.
KeepPeeked(b, item) ==
  [b EXCEPT !.m_requeued = item, !.m_peeked = (item # NoItem)]

\* The number of packets the disc still owes because it set one aside.
Held(b) == IF b.m_requeued # NoItem /\ b.m_peeked THEN 1 ELSE 0

-----------------------------------------------------------------------------
\* NS_ASSERT at the end of QueueDisc::Enqueue and of QueueDisc::Dequeue.
AssertEnqueue(b) ==
  b.nTotalReceived = b.nTotalDroppedBeforeEnqueue + b.nTotalEnqueued
AssertDequeue(b) == b.m_nPackets = b.nTotalEnqueued - b.nTotalDequeued
=============================================================================
