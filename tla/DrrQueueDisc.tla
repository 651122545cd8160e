---------------------------- MODULE DrrQueueDisc ----------------------------
(***************************************************************************)
(* ns3::DrrQueueDisc (traffic-control/model/drr-queue-disc.cc): deficit    *)
(* round robin over one FifoQueueDisc per hash bucket, together with the   *)
(* QueueDisc wrappers Enqueue, Dequeue and Peek through which it is called.*)
(*                                                                         *)
(* A packet is abstracted to its hash bucket (item->Hash () % m_flows),    *)
(* its size and its arrival number.  Enqueue is one step.  DoDequeue is a  *)
(* loop that may go round the active list many times, so each iteration of *)
(* its do ... while (true) is a step and pc says that the loop is running; *)
(* nothing else runs meanwhile, the simulator being single threaded.       *)
(***************************************************************************)
EXTENDS QueueDisc, Sequences, FiniteSets

CONSTANTS
  Flows,         \* the hash buckets 0 .. m_flows - 1
  Sizes,         \* the values of QueueDiscItem::GetSize
  Quantum,       \* attribute Quantum, an uint32_t
  MaxQueueSize,  \* attribute MaxQueueSize, in packets
  ChildLimit,    \* attribute MaxSize of the child FifoQueueDisc (1000p)
  Int32Half,     \* 2^31, the number of negative int32_t values
  MaxReceived    \* bound on the packets of one behaviour

ASSUME FlowsAssumption == IsFiniteSet(Flows)
ASSUME SizesAssumption == Sizes \subseteq (Nat \ {0})
ASSUME QuantumAssumption == Quantum \in Nat
ASSUME LimitsAssumption ==
  MaxQueueSize \in Nat /\ ChildLimit \in Nat \ {0} /\ MaxReceived \in Nat
ASSUME WidthAssumption ==
  Int32Half \in Nat \ {0} /\ Quantum < 2 * Int32Half

VARIABLES
  m_classes,           \* the flows that have a class, in creation order
  fifo,                \* the internal queue of each flow's child disc
  m_nBytes,            \* m_nBytes of each flow's child disc
  m_deficit,
  m_status,
  m_hasDeficitBumped,
  m_activeList,
  m_currentQueueSize,
  root,                \* the QueueDisc part of the DrrQueueDisc itself
  pc                   \* "idle", or "loop" inside DoDequeue

flowVars == <<fifo, m_nBytes, m_deficit, m_status, m_hasDeficitBumped>>
vars == <<m_classes, flowVars, m_activeList, m_currentQueueSize, root, pc>>

Item == [flow : Flows, size : Sizes, id : 1 .. MaxReceived]
ASSUME NoItemAssumption == NoItem \notin Item

\* Conversion to int32_t of a value less than one turn out of its range: what
\* the two's complement builds of ns-3 do on conversion and on overflow.
ToInt32(n) == IF n >= Int32Half THEN n - 2 * Int32Half
              ELSE IF n < - Int32Half THEN n + 2 * Int32Half ELSE n

Init ==
  /\ m_classes = <<>>
  /\ fifo = [f \in Flows |-> <<>>]
  /\ m_nBytes = [f \in Flows |-> 0]
  /\ m_deficit = [f \in Flows |-> 0]
  /\ m_status = [f \in Flows |-> "INACTIVE"]
  /\ m_hasDeficitBumped = [f \in Flows |-> FALSE]
  /\ m_activeList = <<>>
  /\ m_currentQueueSize = 0
  /\ root = NewBase
  /\ pc = "idle"

-----------------------------------------------------------------------------
(* DoEnqueue *)

HasClass(f) == \E i \in DOMAIN m_classes : m_classes[i] = f

\* A class and its child are created on the first packet of the bucket.
ClassesWith(f) == IF HasClass(f) THEN m_classes ELSE Append(m_classes, f)

\* An inactive flow joins the tail of the active list with one quantum.
ActivateNewOnly(f) ==                                               \* mutant
  IF ~ HasClass(f)
  THEN /\ m_status' = [m_status EXCEPT ![f] = "ACTIVE"]
       /\ m_deficit' = [m_deficit EXCEPT ![f] = ToInt32(Quantum)]
       /\ m_activeList' = Append(m_activeList, f)
  ELSE UNCHANGED <<m_status, m_deficit, m_activeList>>
ActivateForgetful(f) ==                                             \* mutant
  /\ m_status' = [m_status EXCEPT ![f] = "ACTIVE"]
  /\ m_deficit' = [m_deficit EXCEPT ![f] = ToInt32(Quantum)]
  /\ m_activeList' = Append(m_activeList, f)
Activate(f) ==
  IF m_status[f] = "INACTIVE"
  THEN /\ m_status' = [m_status EXCEPT ![f] = "ACTIVE"]
       /\ m_deficit' = [m_deficit EXCEPT ![f] = ToInt32(Quantum)]
       /\ m_activeList' = Append(m_activeList, f)
  ELSE UNCHANGED <<m_status, m_deficit, m_activeList>>

\* FifoQueueDisc::DoEnqueue: tail drop, the limit being in packets.
ChildAccepts(f) == Len(fifo[f]) + 1 <= ChildLimit

\* The scan of DrrDropFromLongestQueue: the first class whose child holds
\* the most bytes, and class 0 when none holds any.
IsLongest(v, classes, bytes) ==
  \E i \in DOMAIN classes :
    /\ classes[i] = v
    /\ \A j \in DOMAIN classes :
         /\ bytes[classes[j]] <= bytes[v]
         /\ j < i => bytes[classes[j]] < bytes[v]

\* DrrDropFromLongestQueue on the state DoEnqueue has reached, with the
\* callbacks of GetInternalQueue (0)->Dequeue () on child and root.
DrrDropFromLongestQueue(classes, queues, bytes, b) ==
  \E v \in Flows :
    /\ IsLongest(v, classes, bytes)
    /\ fifo' = [queues EXCEPT ![v] = Tail(@)]
    /\ m_nBytes' = [bytes EXCEPT ![v] = @ - Head(queues[v]).size]
    /\ root' = DropAfterDequeue(PacketDequeued(b))

\* m_currentQueueSize -= 1 in the overflow drop, += 1 in every DoEnqueue.
MustDropOffByOne == m_currentQueueSize > MaxQueueSize               \* mutant
MustDrop == m_currentQueueSize >= MaxQueueSize

\* QueueDisc::Enqueue for a packet of size s that hashes to bucket f.
Enqueue(f, s) ==
  /\ pc = "idle"
  /\ root.nTotalReceived < MaxReceived
  /\ m_classes' = ClassesWith(f)
  /\ Activate(f)
  /\ LET item == [flow |-> f, size |-> s, id |-> root.nTotalReceived + 1]
         b == PacketReceived(root)
         queues == IF ChildAccepts(f)
                   THEN [fifo EXCEPT ![f] = Append(@, item)] ELSE fifo
         bytes == IF ChildAccepts(f)
                  THEN [m_nBytes EXCEPT ![f] = @ + s] ELSE m_nBytes
         counted == IF ChildAccepts(f)
                    THEN PacketEnqueued(b) ELSE DropBeforeEnqueue(b)
     IN  IF MustDrop
         THEN /\ DrrDropFromLongestQueue(ClassesWith(f), queues, bytes, counted)
              /\ m_currentQueueSize' = (m_currentQueueSize - 1) + 1
         ELSE /\ fifo' = queues
              /\ m_nBytes' = bytes
              /\ root' = counted
              /\ m_currentQueueSize' = m_currentQueueSize + 1
  /\ UNCHANGED <<m_hasDeficitBumped, pc>>

-----------------------------------------------------------------------------
(* Dequeue, Peek and the loop of DoDequeue *)

\* QueueDisc::Dequeue with a peeked packet at hand.
DequeueRequeued ==
  /\ pc = "idle"
  /\ root.m_requeued # NoItem
  /\ root' = ReleaseRequeued(root)
  /\ UNCHANGED <<m_classes, flowVars, m_activeList, m_currentQueueSize, pc>>

\* QueueDisc::Dequeue without one: DoDequeue is entered.
Dequeue ==
  /\ pc = "idle"
  /\ root.m_requeued = NoItem
  /\ pc' = "loop"
  /\ UNCHANGED <<m_classes, flowVars, m_activeList, m_currentQueueSize, root>>

\* QueueDisc::Peek when no packet is set aside; when one is, it is returned
\* and nothing changes.  m_peeked is set before DoDequeue is entered.
Peek ==
  /\ pc = "idle"
  /\ root.m_requeued = NoItem
  /\ root' = [root EXCEPT !.m_peeked = TRUE]
  /\ pc' = "loop"
  /\ UNCHANGED <<m_classes, flowVars, m_activeList, m_currentQueueSize>>

\* The loop finds no active flow and returns null.
ReturnNull ==
  /\ pc = "loop"
  /\ m_activeList = <<>>
  /\ root' = KeepPeeked(root, NoItem)
  /\ pc' = "idle"
  /\ UNCHANGED <<m_classes, flowVars, m_activeList, m_currentQueueSize>>

\* The deficit of the flow at the head of the list once it is given its
\* quantum for this round, unless it already was.
BumpAlways(f) == ToInt32(m_deficit[f] + ToInt32(Quantum))           \* mutant
BumpedDeficit(f) == IF m_hasDeficitBumped[f] THEN m_deficit[f]
                    ELSE ToInt32(m_deficit[f] + ToInt32(Quantum))

\* The condition of the inner while and the test on the head packet.  That
\* while never goes round twice: each branch of its body leaves it.
MaySendAtAnyDeficit(f) ==                                           \* mutant
  BumpedDeficit(f) > 0 /\ fifo[f] # <<>>
MaySend(f) == /\ BumpedDeficit(f) > 0
              /\ fifo[f] # <<>>
              /\ Head(fifo[f]).size <= BumpedDeficit(f)

\* What the loop leaves of a flow: idle when its queue ran empty ...
Deactivate(f) ==
  /\ m_deficit' = [m_deficit EXCEPT ![f] = 0]
  /\ m_status' = [m_status EXCEPT ![f] = "INACTIVE"]
  /\ m_hasDeficitBumped' = [m_hasDeficitBumped EXCEPT ![f] = FALSE]
  /\ m_activeList' = Tail(m_activeList)
\* ... or active, with what remains of its deficit.
KeepActive(f, deficit, bumped, list) ==
  /\ m_deficit' = [m_deficit EXCEPT ![f] = deficit]
  /\ m_hasDeficitBumped' = [m_hasDeficitBumped EXCEPT ![f] = bumped]
  /\ m_activeList' = list
  /\ UNCHANGED m_status

\* The child queues after flow f's Dequeue ().
TakeHeadUnlessPeeked(f) ==                                          \* mutant
  IF root.m_peeked THEN fifo ELSE [fifo EXCEPT ![f] = Tail(@)]
TakeHead(f) == [fifo EXCEPT ![f] = Tail(@)]

\* The head flow sends its head packet and stays at the head of the list
\* while it has more; the packet goes to the caller or, under Peek, aside.
SendFrom(f) ==
  LET item == Head(fifo[f])
      left == BumpedDeficit(f) - item.size
      b == PacketDequeued(root)
  IN  /\ fifo' = TakeHead(f)
      /\ m_nBytes' = [m_nBytes EXCEPT ![f] = @ - item.size]
      /\ m_currentQueueSize' = m_currentQueueSize - 1
      /\ IF Tail(fifo[f]) = <<>>
         THEN Deactivate(f)
         ELSE KeepActive(f, left, TRUE, <<f>> \o Tail(m_activeList))
      /\ root' = IF root.m_peeked THEN KeepPeeked(b, item) ELSE b
      /\ pc' = "idle"

ServeFlow ==
  /\ pc = "loop"
  /\ m_activeList # <<>>
  /\ MaySend(Head(m_activeList))
  /\ SendFrom(Head(m_activeList))
  /\ UNCHANGED m_classes

\* The head flow cannot send: it leaves the list if its queue is empty (the
\* overflow drop took its last packet), else goes to the tail of the list.
PassOver(f) ==
  IF fifo[f] = <<>>
  THEN Deactivate(f)
  ELSE KeepActive(f, BumpedDeficit(f), FALSE, Append(Tail(m_activeList), f))

SkipFlow ==
  /\ pc = "loop"
  /\ m_activeList # <<>>
  /\ ~ MaySend(Head(m_activeList))
  /\ PassOver(Head(m_activeList))
  /\ UNCHANGED <<m_classes, fifo, m_nBytes, m_currentQueueSize, root, pc>>

-----------------------------------------------------------------------------
Loop == ReturnNull \/ ServeFlow \/ SkipFlow

Next ==
  \/ \E f \in Flows, s \in Sizes : Enqueue(f, s)
  \/ DequeueRequeued
  \/ Dequeue
  \/ Peek
  \/ ReturnNull
  \/ ServeFlow
  \/ SkipFlow

Spec == Init /\ [][Next]_vars

\* A call of DoDequeue that was made keeps running.
FairSpec == Spec /\ WF_vars(Loop)

-----------------------------------------------------------------------------
(* Properties *)

\* One element per packet in a child queue, and how many there are.
SlotsOf(q) == UNION {{f} \X (1 .. Len(q[f])) : f \in Flows}
NStored == Cardinality(SlotsOf(fifo))

\* Types of the whole state: in particular no counter of the disc, all of them
\* unsigned in the code, is ever decremented below zero.
TypeOK ==
  /\ m_classes \in Seq(Flows)
  /\ fifo \in [Flows -> Seq(Item)]
  /\ m_nBytes \in [Flows -> Nat]
  /\ m_deficit \in [Flows -> - Int32Half .. Int32Half - 1]
  /\ m_status \in [Flows -> {"ACTIVE", "INACTIVE"}]
  /\ m_hasDeficitBumped \in [Flows -> BOOLEAN]
  /\ m_activeList \in Seq(Flows)
  /\ m_currentQueueSize \in Nat
  /\ root \in Base(Item)
  /\ pc \in {"idle", "loop"}

\* The status of a flow, its place in m_activeList and its queue agree at
\* every call boundary of DoEnqueue and DoDequeue: no flow is listed twice, no
\* flow with packets is off the list (it would never be served again), an idle
\* flow keeps no credit, and only the flow at the head is in mid-round.
ActiveListSound ==
  /\ \A i, j \in DOMAIN m_activeList :
       m_activeList[i] = m_activeList[j] => i = j
  /\ \A f \in Flows : m_status[f] = "ACTIVE"
                        <=> \E i \in DOMAIN m_activeList : m_activeList[i] = f
  /\ \A f \in Flows : fifo[f] # <<>> => m_status[f] = "ACTIVE"
  /\ \A f \in Flows : m_status[f] = "INACTIVE"
                        => m_deficit[f] = 0 /\ ~ m_hasDeficitBumped[f]
  /\ \A i \in DOMAIN m_activeList :
       i > 1 => ~ m_hasDeficitBumped[m_activeList[i]]

\* The books balance through overflow drops, child tail drops and peeks: the
\* asserts of QueueDisc::Enqueue and Dequeue hold and m_nPackets is what is
\* stored plus the peeked packet.  m_currentQueueSize is the "current size of
\* the queue" until a child first refuses a packet; DoEnqueue counts that packet
\* all the same, and from then on the counter is only never too small.
BooksBalance ==
  /\ AssertEnqueue(root)
  /\ AssertDequeue(root)
  /\ root.m_nPackets = NStored + Held(root)
  /\ m_currentQueueSize >= NStored
  /\ root.nTotalDroppedBeforeEnqueue = 0 => m_currentQueueSize = NStored
  /\ pc = "idle" => (root.m_peeked <=> root.m_requeued # NoItem)
  /\ pc = "loop" => root.m_requeued = NoItem

\* The disc never stores more than MaxQueueSize packets.
CapacityRespected == NStored <= MaxQueueSize

\* A flow that waits for its turn holds at most one quantum or less than some
\* packet; in mid-round it holds at most a quantum more.  The deficit is never
\* negative.  (True when these amounts fit an int32_t.)
DeficitBounded ==
  \A f \in Flows :
    LET extra == IF m_hasDeficitBumped[f] THEN Quantum ELSE 0
    IN  /\ m_deficit[f] >= 0
        /\ \/ m_deficit[f] <= Quantum + extra
           \/ \E s \in Sizes : m_deficit[f] < s + extra

\* Packets of a flow leave in arrival order, the peeked packet included: it is
\* older than all that is queued behind it, whatever is dropped meanwhile.
FlowOrder ==
  /\ \A f \in Flows : \A i, j \in DOMAIN fifo[f] :
       i < j => fifo[f][i].id < fifo[f][j].id
  /\ root.m_requeued # NoItem =>
       \A i \in DOMAIN fifo[root.m_requeued.flow] :
         root.m_requeued.id < fifo[root.m_requeued.flow][i].id

\* Every call of DoDequeue returns, for any positive quantum.
DequeueReturns == pc = "loop" ~> pc = "idle"

Disc == INSTANCE WorkConservingDisc
          WITH Items <- Item, Capacity <- MaxQueueSize, FlowLimit <- ChildLimit,
               stored <- fifo, held <- root.m_requeued,
               refused <- root.nTotalDroppedBeforeEnqueue,
               busy <- (pc = "loop")

\* DrrQueueDisc keeps the promises of a work-conserving disc: order within a
\* flow, null only when empty, drops only when full or by a full child, and
\* (with the fairness of FairSpec) calls that return.  What it really counts
\* against its limit is the packets stored and those its children refused.
ImplementsDisc == Disc!FairSpec
=============================================================================
