---------------------------- MODULE SfqQueueDisc ----------------------------
(***************************************************************************)
(* ns3::SfqQueueDisc (traffic-control/model/sfq-queue-disc.cc): stochastic *)
(* fair queueing, one packet per flow and round, with the QueueDisc        *)
(* wrappers Enqueue, Dequeue and Peek through which it is called.          *)
(*                                                                         *)
(* A packet is abstracted to its hash bucket, its size and its arrival     *)
(* number.  Unlike DrrQueueDisc a flow stays in m_flowList when its last   *)
(* packet leaves and is removed when its turn comes with nothing to send,  *)
(* so each iteration of the loop of DoDequeue is a step (pc = "loop").     *)
(***************************************************************************)
EXTENDS QueueDisc, Sequences, FiniteSets, SequencesExt

CONSTANTS
  Flows,         \* the hash buckets 0 .. m_flows - 1
  Sizes,         \* the values of QueueDiscItem::GetSize
  MaxSize,       \* attribute MaxSize, in packets
  ChildLimit,    \* attribute MaxSize of the child FifoQueueDisc (1000p)
  MaxReceived    \* bound on the packets of one behaviour

ASSUME FlowsAssumption == IsFiniteSet(Flows)
ASSUME SizesAssumption == Sizes \subseteq (Nat \ {0})
ASSUME LimitsAssumption ==
  MaxSize \in Nat /\ ChildLimit \in Nat \ {0} /\ MaxReceived \in Nat

VARIABLES
  m_classes,           \* the flows that have a class, in creation order
  fifo,                \* the internal queue of each flow's child disc
  m_nBytes,            \* m_nBytes of each flow's child disc
  m_status,
  m_flowList,
  m_currentQueueSize,
  root,                \* the QueueDisc part of the SfqQueueDisc itself
  pc                   \* "idle", or "loop" inside DoDequeue

vars == <<m_classes, fifo, m_nBytes, m_status, m_flowList, m_currentQueueSize,
          root, pc>>

Item == [flow : Flows, size : Sizes, id : 1 .. MaxReceived]
ASSUME NoItemAssumption == NoItem \notin Item

Init ==
  /\ m_classes = <<>>
  /\ fifo = [f \in Flows |-> <<>>]
  /\ m_nBytes = [f \in Flows |-> 0]
  /\ m_status = [f \in Flows |-> "SFQ_EMPTY_SLOT"]
  /\ m_flowList = <<>>
  /\ m_currentQueueSize = 0
  /\ root = NewBase
  /\ pc = "idle"

-----------------------------------------------------------------------------
(* DoEnqueue *)

\* A class and its child are created on the first packet of the bucket.
ClassesWith(f) == IF \E i \in DOMAIN m_classes : m_classes[i] = f
                  THEN m_classes ELSE Append(m_classes, f)

\* FifoQueueDisc::DoEnqueue: tail drop, the limit being in packets.
ChildAccepts(f) == Len(fifo[f]) + 1 <= ChildLimit

\* The scan of DropFromLongestQueue: the first class whose child holds the
\* most bytes, and class 0 when none holds any.
IsLongestAtLeast(v, classes, bytes) ==                              \* mutant
  \E i \in DOMAIN classes : classes[i] = v
IsLongest(v, classes, bytes) ==
  \E i \in DOMAIN classes :
    /\ classes[i] = v
    /\ \A j \in DOMAIN classes :
         /\ bytes[classes[j]] <= bytes[v]
         /\ j < i => bytes[classes[j]] < bytes[v]

\* DropFromLongestQueue on the state DoEnqueue has reached, with the callbacks
\* of GetInternalQueue (0)->Dequeue () on child and root.
DropFromLongestQueue(classes, queues, bytes, b) ==
  \E v \in Flows :
    /\ IsLongest(v, classes, bytes)
    /\ fifo' = [queues EXCEPT ![v] = Tail(@)]
    /\ m_nBytes' = [bytes EXCEPT ![v] = @ - Head(queues[v]).size]
    /\ root' = DropAfterDequeue(PacketDequeued(b))

MustDrop == m_currentQueueSize >= MaxSize

\* The end of DoEnqueue: a flow not in the list joins its tail, even when the
\* overflow drop has just taken its only packet.
JoinAlways(f) ==                                                    \* mutant
  /\ m_status' = [m_status EXCEPT ![f] = "SFQ_IN_USE"]
  /\ m_flowList' = Append(m_flowList, f)
Join(f) ==
  IF m_status[f] = "SFQ_EMPTY_SLOT"
  THEN /\ m_status' = [m_status EXCEPT ![f] = "SFQ_IN_USE"]
       /\ m_flowList' = Append(m_flowList, f)
  ELSE UNCHANGED <<m_status, m_flowList>>

\* QueueDisc::Enqueue for a packet of size s that hashes to bucket f.
Enqueue(f, s) ==
  /\ pc = "idle"
  /\ root.nTotalReceived < MaxReceived
  /\ m_classes' = ClassesWith(f)
  /\ LET item == [flow |-> f, size |-> s, id |-> root.nTotalReceived + 1]
         b == PacketReceived(root)
         queues == IF ChildAccepts(f)
                   THEN [fifo EXCEPT ![f] = Append(@, item)] ELSE fifo
         bytes == IF ChildAccepts(f)
                  THEN [m_nBytes EXCEPT ![f] = @ + s] ELSE m_nBytes
         counted == IF ChildAccepts(f)
                    THEN PacketEnqueued(b) ELSE DropBeforeEnqueue(b)
     IN  IF MustDrop
         THEN /\ DropFromLongestQueue(ClassesWith(f), queues, bytes, counted)
              /\ m_currentQueueSize' = (m_currentQueueSize - 1) + 1
         ELSE /\ fifo' = queues
              /\ m_nBytes' = bytes
              /\ root' = counted
              /\ m_currentQueueSize' = m_currentQueueSize + 1
  /\ Join(f)
  /\ UNCHANGED pc

-----------------------------------------------------------------------------
(* Dequeue, Peek and the loop of DoDequeue *)

\* QueueDisc::Dequeue with a peeked packet at hand.
DequeueRequeued ==
  /\ pc = "idle"
  /\ root.m_requeued # NoItem
  /\ root' = ReleaseRequeued(root)
  /\ UNCHANGED <<m_classes, fifo, m_nBytes, m_status, m_flowList,
                 m_currentQueueSize, pc>>

\* QueueDisc::Dequeue, or QueueDisc::Peek, without one: DoDequeue is entered.
CallDoDequeue(peek) ==
  /\ pc = "idle"
  /\ root.m_requeued = NoItem
  /\ root' = [root EXCEPT !.m_peeked = peek]
  /\ pc' = "loop"
  /\ UNCHANGED <<m_classes, fifo, m_nBytes, m_status, m_flowList,
                 m_currentQueueSize>>

\* m_flowList.front () on an empty list is undefined.  The std::list of both
\* libstdc++ (C++11 ABI) and libc++ keeps the element count where the value of
\* its sentinel node would be, so 0 is read as the pointer, the test !flow
\* holds and DoDequeue returns 0.
ReturnNull ==
  /\ pc = "loop"
  /\ m_flowList = <<>>
  /\ root' = KeepPeeked(root, NoItem)
  /\ pc' = "idle"
  /\ UNCHANGED <<m_classes, fifo, m_nBytes, m_status, m_flowList,
                 m_currentQueueSize>>

\* The list after the flow at its head was served.
RotateNot == m_flowList                                             \* mutant
Rotated == Append(Tail(m_flowList), Head(m_flowList))

\* The head flow sends one packet and goes to the tail; the packet goes to the
\* caller or, under Peek, aside.
ServeFlow ==
  /\ pc = "loop"
  /\ m_flowList # <<>>
  /\ LET f == Head(m_flowList)
         item == Head(fifo[f])
         b == PacketDequeued(root)
     IN  /\ fifo[f] # <<>>
         /\ fifo' = [fifo EXCEPT ![f] = Tail(@)]
         /\ m_nBytes' = [m_nBytes EXCEPT ![f] = @ - item.size]
         /\ root' = IF root.m_peeked THEN KeepPeeked(b, item) ELSE b
  /\ m_flowList' = Rotated
  /\ m_currentQueueSize' = m_currentQueueSize - 1
  /\ pc' = "idle"
  /\ UNCHANGED <<m_classes, m_status>>

\* The head flow has nothing to send and leaves the list.
RemoveFlowKeepsStatus(f) ==                                         \* mutant
  m_flowList' = Tail(m_flowList) /\ UNCHANGED m_status
RemoveFlow(f) ==
  /\ m_flowList' = Tail(m_flowList)
  /\ m_status' = [m_status EXCEPT ![f] = "SFQ_EMPTY_SLOT"]

SkipFlow ==
  /\ pc = "loop"
  /\ m_flowList # <<>>
  /\ fifo[Head(m_flowList)] = <<>>
  /\ RemoveFlow(Head(m_flowList))
  /\ UNCHANGED <<m_classes, fifo, m_nBytes, m_currentQueueSize, root, pc>>

-----------------------------------------------------------------------------
Loop == ReturnNull \/ ServeFlow \/ SkipFlow

Next ==
  \/ \E f \in Flows, s \in Sizes : Enqueue(f, s)
  \/ DequeueRequeued
  \/ \E peek \in BOOLEAN : CallDoDequeue(peek)
  \/ ReturnNull
  \/ ServeFlow
  \/ SkipFlow

Spec == Init /\ [][Next]_vars

\* A call of DoDequeue that was made keeps running.
FairSpec == Spec /\ WF_vars(Loop)

-----------------------------------------------------------------------------
(* Properties *)

\* One element per packet in a child queue, and how many there are.
SlotsOf(q) == UNION {{f} \X (1 .. Len(q[f])) : f \in Flows}
NStored == Cardinality(SlotsOf(fifo))

\* Types of the whole state: in particular no counter of the disc, all of them
\* unsigned in the code, is ever decremented below zero.
TypeOK ==
  /\ m_classes \in Seq(Flows)
  /\ fifo \in [Flows -> Seq(Item)]
  /\ m_nBytes \in [Flows -> Nat]
  /\ m_status \in [Flows -> {"SFQ_EMPTY_SLOT", "SFQ_IN_USE"}]
  /\ m_flowList \in Seq(Flows)
  /\ m_currentQueueSize \in Nat
  /\ root \in Base(Item)
  /\ pc \in {"idle", "loop"}

\* The status of a flow, its place in m_flowList and its queue agree at every
\* call boundary, drops and lazy removal included: no flow is listed twice
\* (it would get two turns a round) and no flow with packets is off the list
\* (it would never be served again).
FlowListSound ==
  /\ \A i, j \in DOMAIN m_flowList : m_flowList[i] = m_flowList[j] => i = j
  /\ \A f \in Flows : m_status[f] = "SFQ_IN_USE"
                        <=> \E i \in DOMAIN m_flowList : m_flowList[i] = f
  /\ \A f \in Flows : fifo[f] # <<>> => m_status[f] = "SFQ_IN_USE"

\* The books balance through overflow drops, child tail drops and peeks: see
\* DrrQueueDisc, whose counting SfqQueueDisc repeats.
BooksBalance ==
  /\ AssertEnqueue(root)
  /\ AssertDequeue(root)
  /\ root.m_nPackets = NStored + Held(root)
  /\ m_currentQueueSize >= NStored
  /\ root.nTotalDroppedBeforeEnqueue = 0 => m_currentQueueSize = NStored
  /\ pc = "idle" => (root.m_peeked <=> root.m_requeued # NoItem)
  /\ pc = "loop" => root.m_requeued = NoItem

\* The disc never stores more than MaxSize packets.
CapacityRespected == NStored <= MaxSize

\* The sizes of the packets of q, added up one by one.
BytesUpTo(q) ==
  LET sum[n \in 0 .. Len(q)] == IF n = 0 THEN 0 ELSE sum[n - 1] + q[n].size
  IN  sum
BytesOf(q) == BytesUpTo(q)[Len(q)]

\* This step takes the oldest packet of v, the flow with the most bytes once the
\* arriving packet, of flow f and size s, is in its queue.
TakesFromLongest(f, s, v) ==
  LET item == [flow |-> f, size |-> s, id |-> root'.nTotalReceived]
      full == IF ChildAccepts(f)
              THEN [fifo EXCEPT ![f] = Append(@, item)] ELSE fifo
  IN  /\ full[v] # <<>>
      /\ fifo' = [full EXCEPT ![v] = Tail(@)]
      /\ \A g \in Flows : BytesOf(full[g]) <= BytesOf(full[v])

\* An overflow drop hits the flow that really holds the most bytes, counted
\* packet by packet and not by the m_nBytes the scan reads, among all flows and
\* not only those with a class, once the new packet is in its queue; it takes
\* that flow's oldest packet and no other.
DropHitsLongest ==
  root'.nTotalDroppedAfterDequeue # root.nTotalDroppedAfterDequeue =>
    \E f \in Flows, s \in Sizes, v \in Flows : TakesFromLongest(f, s, v)
DropsFromLongest == [][DropHitsLongest]_vars

Disc == INSTANCE WorkConservingDisc
          WITH Items <- Item, Capacity <- MaxSize, FlowLimit <- ChildLimit,
               stored <- fifo, held <- root.m_requeued,
               refused <- root.nTotalDroppedBeforeEnqueue,
               busy <- (pc = "loop")

\* SfqQueueDisc keeps the promises of a work-conserving disc: order within a
\* flow, null only when empty, drops only when full or by a full child, and
\* (with the fairness of FairSpec) calls that return.  What it really counts
\* against its limit is the packets stored and those its children refused.
ImplementsDisc == Disc!FairSpec

\* The state of the disc is consistent at every call boundary of DoEnqueue and
\* DoDequeue: list, books and capacity, by the parts named here.
SfqInv == TypeOK /\ FlowListSound /\ BooksBalance /\ CapacityRespected
=============================================================================
