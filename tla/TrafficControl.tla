--------------------------- MODULE TrafficControl ---------------------------
(***************************************************************************)
(* The path of a packet from TrafficControlLayer::Send through the root    *)
(* queue disc to a device, with the flow control between disc and device:  *)
(* traffic-control-layer.cc, QueueDisc::Run and what it calls,             *)
(* FifoQueueDisc as the root, NetDeviceQueue (net-device-queue-interface)  *)
(* and the transmit side of PointToPointNetDevice with its DropTailQueue.  *)
(*                                                                         *)
(* With one transmission queue the device is a PointToPointNetDevice.      *)
(* With several, each queue has a transmitter of its own: the multi-queue  *)
(* devices differ in how they drain their queues, not in flow control.     *)
(*                                                                         *)
(* Events are atomic, except that QueueDisc::Run is a loop and takes one   *)
(* step per packet; nothing else runs meanwhile (pc = "run").              *)
(***************************************************************************)
EXTENDS QueueDisc, DynamicQueueLimits, Sequences, FiniteSets, SequencesExt

CONSTANTS
  Sizes,          \* packet sizes at the network layer, at most Mtu
  Mtu,            \* NetDevice::GetMtu
  DiscLimit,      \* MaxSize of the root disc, in packets
  Configurations, \* the devices and disc attributes to consider
  Garbage,        \* what m_adjLimit of a new DynamicQueueLimits may hold
  MaxOffered      \* bound on the packets handed to Send

ASSUME SizesFitMtu == Mtu \in Nat /\ Sizes \subseteq 1 .. Mtu
ASSUME ConfigurationsAreReal == \A c \in Configurations :
  /\ IsFiniteSet(c.txQueues) /\ {c.inBytes, c.limits} \subseteq BOOLEAN
  /\ c.devLimit \in Nat
  \* the empty queue takes any packet: a smaller one refuses it, stops and,
  \* with nothing to transmit, is never woken
  /\ c.devLimit >= (IF c.inBytes THEN Mtu + c.linkHeader ELSE 1)
  /\ c.quota \in Nat \ {0}
  /\ c.linkHeader \in Nat /\ Mtu + c.linkHeader <= MaxObject
ASSUME DiscStores == /\ DiscLimit \in Nat \ {0} /\ MaxOffered \in Nat
                     /\ Garbage \subseteq 0 .. Word - 1
ASSUME NoItemIsNull == \A c \in Configurations :
  NoItem \notin [txq : c.txQueues, size : Sizes, id : 1 .. MaxOffered]

VARIABLES
  conf,         \* the configuration, which does not change
  installed,    \* a root disc is installed and its wake callbacks are set
  disc,         \* the internal queue of the root disc
  root,         \* the QueueDisc part of the root disc
  dev,          \* a transmission queue with its device queue and transmitter
  pc,           \* "idle" between events, "run" inside QueueDisc::Run, or
                \* "crashed": the call of a null wake callback
  quota,        \* what is left of the quota of this Run
  cut,          \* history: the last Run ended because its quota was used up
  offered,      \* packets handed to TrafficControlLayer::Send so far
  lost,         \* packets dropped with no disc to count them
  delivered     \* packets put on the wire

vars == <<conf, installed, disc, root, dev, pc, quota, cut, offered, lost,
          delivered>>

TxQueues == conf.txQueues     \* the transmission queues of the device
LinkHeader == conf.linkHeader \* what the device adds (PPP: 2 bytes)
HasLimits == conf.limits      \* each queue has a DynamicQueueLimits

\* Without a DynamicQueueLimits nothing of it changes and nothing is open.
IfLimited(new, old) == IF HasLimits THEN new ELSE old
LimitOutcomes == IfLimited(Outcomes, {[elapsed |-> FALSE, wraps |-> TRUE]})

Packets == [txq : TxQueues, size : Sizes, id : 1 .. MaxOffered]

Init ==
  /\ conf \in Configurations
  /\ installed = TRUE
  /\ disc = <<>>
  /\ root = NewBase
  /\ \E g \in IfLimited(Garbage, {0}) :
       dev = [q \in TxQueues |->
                [queue |-> <<>>, busy |-> FALSE, stoppedByDevice |-> FALSE,
                 stoppedByQueueLimits |-> FALSE, wakes |-> 0, drops |-> 0,
                 limits |-> NewLimits(g)]]
  /\ pc = "idle"
  /\ quota = 0 /\ cut = FALSE
  /\ offered = 0 /\ lost = 0 /\ delivered = 0

-----------------------------------------------------------------------------
(* The device: operators on the record d of one transmission queue *)

\* Bytes in the device queue: each packet with its link header.
Wire(p) == p.size + LinkHeader
BytesUpTo(s) ==
  LET sum[n \in 0 .. Len(s)] == IF n = 0 THEN 0 ELSE sum[n - 1] + Wire(s[n])
  IN  sum
BytesIn(d) == BytesUpTo(d.queue)[Len(d.queue)]

\* The size of the queue with one more packet of n bytes, against its limit.
Fits(d, n) == IF conf.inBytes THEN BytesIn(d) + n <= conf.devLimit
              ELSE Len(d.queue) + 1 <= conf.devLimit

\* NetDeviceQueue's question after each enqueue and dequeue: is there room for
\* another packet?  It asks about a packet of Mtu bytes.
HasRoom(d) == Fits(d, Mtu)

IsStopped(d) == d.stoppedByDevice \/ d.stoppedByQueueLimits

LimitsAllow(d) == ~ HasLimits \/ Available(d.limits) >= 0

\* Queue::Enqueue with NetDeviceQueue::PacketEnqueued or PacketDiscarded.
EnqueueNeverStops(d, p) ==                                          \* mutant
  IF ~ Fits(d, Wire(p))
  THEN [d EXCEPT !.drops = @ + 1, !.stoppedByDevice = TRUE]
  ELSE [d EXCEPT !.queue = Append(@, p),
                 !.limits = IfLimited(Queued(@, Wire(p)), @)]
DevEnqueue(d, p) ==
  IF ~ Fits(d, Wire(p))
  THEN [d EXCEPT !.drops = @ + 1, !.stoppedByDevice = TRUE]
  ELSE LET e == [d EXCEPT !.queue = Append(@, p),
                          !.limits = IfLimited(Queued(@, Wire(p)), @)]
       IN  [e EXCEPT !.stoppedByQueueLimits = @ \/ ~ LimitsAllow(e),
                     !.stoppedByDevice = @ \/ ~ HasRoom(e)]

\* Queue::Dequeue with NetDeviceQueue::PacketDequeued: NotifyTransmittedBytes
\* and Wake each clear their flag and, if it was set, schedule the callback,
\* provided it is not null.  c resolves what DynamicQueueLimits leaves open.
Removed(d, c) ==
  [d EXCEPT !.queue = Tail(@),
            !.limits = IfLimited(Completed(@, Wire(Head(d.queue)), c), @)]
DequeueForgetsWake(d, c) ==                                         \* mutant
  LET e == Removed(d, c)
  IN  [e EXCEPT !.stoppedByQueueLimits = @ /\ ~ LimitsAllow(e),
                !.stoppedByDevice = @ /\ ~ HasRoom(e)]
DevDequeue(d, c) ==
  LET e == Removed(d, c)
      unlimit == LimitsAllow(e) /\ d.stoppedByQueueLimits
      wake == HasRoom(e) /\ d.stoppedByDevice
  IN  [e EXCEPT !.stoppedByQueueLimits = @ /\ ~ LimitsAllow(e),
                !.stoppedByDevice = @ /\ ~ HasRoom(e),
                !.wakes = IF ~ installed THEN @
                          ELSE @ + (IF unlimit THEN 1 ELSE 0)
                                 + (IF wake THEN 1 ELSE 0)]

\* PointToPointNetDevice::Send: enqueue, and if the transmitter is ready
\* dequeue at once and TransmitStart.
DevSend(d, p, c) ==
  LET e == DevEnqueue(d, p)
  IN  IF e.drops # d.drops \/ e.busy THEN e
      ELSE [DevDequeue(e, c) EXCEPT !.busy = TRUE]

\* The packet that DevSend put on the wire: 1 or none.
Started(d, e) == IF ~ d.busy /\ e.busy THEN 1 ELSE 0

\* PointToPointNetDevice::TransmitComplete.
TransmitComplete(q) ==
  /\ pc = "idle"
  /\ dev[q].busy
  /\ dev[q].wakes = 0     \* scheduled now, so executed before a later event
  /\ IF dev[q].queue = <<>>
     THEN /\ dev' = [dev EXCEPT ![q].busy = FALSE]
          /\ UNCHANGED delivered
     ELSE /\ \E c \in LimitOutcomes :
               dev' = [dev EXCEPT ![q] = DevDequeue(@, c)]
          /\ delivered' = delivered + 1
  /\ UNCHANGED <<conf, installed, disc, root, pc, quota, cut, offered, lost>>

-----------------------------------------------------------------------------
(* The queue disc *)

\* FifoQueueDisc::DoEnqueue through QueueDisc::Enqueue.
DiscEnqueue(p) ==
  LET b == PacketReceived(root)
  IN  IF Len(disc) + 1 > DiscLimit
      THEN root' = DropBeforeEnqueue(b) /\ UNCHANGED disc
      ELSE root' = PacketEnqueued(b) /\ disc' = Append(disc, p)

\* QueueDisc::Run up to its loop.  m_running is false whenever pc = "idle".
RunBegin == pc' = "run" /\ quota' = conf.quota /\ cut' = FALSE
RunEnd == pc' = "idle" /\ quota' = 0 /\ UNCHANGED cut

\* The packet DequeuePacket picks, and what it leaves.  A requeued packet goes
\* first; a single-queue device is not asked for more while it is stopped.
MayTakeRequeued == root.m_requeued # NoItem
                   /\ ~ IsStopped(dev[root.m_requeued.txq])
MayDequeueAlways ==                                                 \* mutant
  disc # <<>>
MayDequeue ==
  /\ root.m_requeued = NoItem
  /\ disc # <<>>
  /\ Cardinality(TxQueues) > 1 \/ \A q \in TxQueues : ~ IsStopped(dev[q])

\* QueueDisc::Transmit for a packet whose queue is not stopped, and the test
\* of Restart and Run whether to go on: not when the disc is empty, the queue
\* is now stopped, or the quota is used up.
SendToDevice(p, b, c) ==
  LET d == DevSend(dev[p.txq], p, c)
  IN  /\ dev' = [dev EXCEPT ![p.txq] = d]
      /\ delivered' = delivered + Started(dev[p.txq], d)
      /\ root' = b
      /\ IF b.m_nPackets = 0 \/ IsStopped(d) THEN RunEnd
         ELSE /\ pc' = IF quota = 1 THEN "idle" ELSE "run"
              /\ quota' = quota - 1
              /\ cut' = (quota = 1)

\* QueueDisc::Requeue, from Transmit when the queue is stopped.
Requeue(p, b) ==
  /\ root' = [b EXCEPT !.m_requeued = p]
  /\ RunEnd
  /\ UNCHANGED <<dev, delivered>>

\* Restart with the requeued packet.
RunRequeued ==
  /\ pc = "run"
  /\ MayTakeRequeued
  /\ \E c \in LimitOutcomes :
       SendToDevice(root.m_requeued, ReleaseRequeued(root), c)
  /\ UNCHANGED <<conf, installed, disc, offered, lost>>

\* Restart with a packet from the internal queue.
RunDequeued ==
  /\ pc = "run"
  /\ MayDequeue
  /\ LET p == Head(disc)
         b == PacketDequeued(root)
     IN  IF IsStopped(dev[p.txq]) THEN Requeue(p, b)
         ELSE \E c \in LimitOutcomes : SendToDevice(p, b, c)
  /\ disc' = Tail(disc)
  /\ UNCHANGED <<conf, installed, offered, lost>>

\* Restart with nothing to send.
RunNothing ==
  /\ pc = "run"
  /\ ~ MayTakeRequeued
  /\ ~ MayDequeue
  /\ RunEnd
  /\ UNCHANGED <<conf, installed, disc, root, dev, offered, lost, delivered>>

-----------------------------------------------------------------------------
(* The traffic control layer and the wake event *)

\* TrafficControlLayer::Send with a root disc: enqueue and run.
SendThroughDisc(q, s) ==
  /\ pc = "idle"
  /\ offered < MaxOffered
  /\ installed
  /\ DiscEnqueue([txq |-> q, size |-> s, id |-> offered + 1])
  /\ RunBegin
  /\ offered' = offered + 1
  /\ UNCHANGED <<conf, installed, dev, lost, delivered>>

\* ... and without one: straight to the device, or nowhere if it is stopped.
SendDirectUnchecked(q, s) ==                                        \* mutant
  /\ pc = "idle"
  /\ offered < MaxOffered
  /\ ~ installed
  /\ offered' = offered + 1
  /\ \E c \in LimitOutcomes :
       LET d == DevSend(dev[q], [txq |-> q, size |-> s, id |-> offered + 1], c)
       IN  /\ dev' = [dev EXCEPT ![q] = d]
           /\ delivered' = delivered + Started(dev[q], d)
  /\ UNCHANGED <<conf, installed, disc, root, pc, quota, cut, lost>>
SendDirect(q, s) ==
  /\ pc = "idle"
  /\ offered < MaxOffered
  /\ ~ installed
  /\ offered' = offered + 1
  /\ IF IsStopped(dev[q])
     THEN lost' = lost + 1 /\ UNCHANGED <<dev, delivered>>
     ELSE /\ \E c \in LimitOutcomes :
               LET p == [txq |-> q, size |-> s, id |-> offered + 1]
                   d == DevSend(dev[q], p, c)
               IN  /\ dev' = [dev EXCEPT ![q] = d]
                   /\ delivered' = delivered + Started(dev[q], d)
          /\ UNCHANGED lost
  /\ UNCHANGED <<conf, installed, disc, root, pc, quota, cut>>

\* The event scheduled by Wake or NotifyTransmittedBytes: QueueDisc::Run, or
\* the call of a null Callback if the disc was deleted meanwhile.
WakeEvent(q) ==
  /\ pc = "idle"
  /\ dev[q].wakes > 0
  /\ dev' = [dev EXCEPT ![q].wakes = @ - 1]
  /\ IF installed THEN RunBegin ELSE pc' = "crashed" /\ UNCHANGED <<quota, cut>>
  /\ UNCHANGED <<conf, installed, disc, root, offered, lost, delivered>>

\* TrafficControlLayer::DeleteRootQueueDiscOnDevice; the packets in the disc
\* go with it, and so does its count of drops.
DeleteRoot ==
  /\ conf.mayDelete /\ pc = "idle" /\ installed
  /\ installed' = FALSE
  /\ lost' = lost + root.nTotalDroppedBeforeEnqueue + Len(disc)
               + (IF root.m_requeued = NoItem THEN 0 ELSE 1)
  /\ disc' = <<>>
  /\ root' = NewBase
  /\ cut' = FALSE
  /\ UNCHANGED <<conf, dev, pc, quota, offered, delivered>>

-----------------------------------------------------------------------------
Next ==
  \/ \E q \in TxQueues, s \in Sizes : SendThroughDisc(q, s)
  \/ \E q \in TxQueues, s \in Sizes : SendDirect(q, s)
  \/ \E q \in TxQueues : WakeEvent(q)
  \/ \E q \in TxQueues : TransmitComplete(q)
  \/ RunRequeued
  \/ RunDequeued
  \/ RunNothing
  \/ DeleteRoot

Spec == Init /\ [][Next]_vars

\* The simulator executes every event it has scheduled and every call returns;
\* nothing obliges anyone to send.
FairSpec ==
  /\ Spec
  /\ WF_vars(RunRequeued \/ RunDequeued \/ RunNothing)
  /\ \A q \in UNION {c.txQueues : c \in Configurations} :
       /\ WF_vars(q \in TxQueues /\ WakeEvent(q))
       /\ WF_vars(q \in TxQueues /\ TransmitComplete(q))

-----------------------------------------------------------------------------
(* Properties *)

\* Types; the counters of the disc are never decremented below zero.
TypeOK ==
  /\ installed \in BOOLEAN
  /\ disc \in Seq(Packets)
  /\ root \in Base(Packets)
  /\ \A q \in TxQueues : /\ dev[q].queue \in Seq(Packets)
                         /\ dev[q].wakes \in 0 .. 2 /\ dev[q].drops \in Nat
  /\ pc \in {"idle", "run", "crashed"}
  /\ quota \in 0 .. conf.quota
  /\ {offered, lost, delivered} \subseteq Nat

\* Room for the Mtu but not for its link header: only a queue limited in bytes
\* can be like this, and only with a header.
InHeaderGap(d) == HasRoom(d) /\ ~ Fits(d, Mtu + LinkHeader)

\* A device queue refuses a packet ("BUG! No room in the device queue") only
\* where the question about room leaves out the link header: never a queue
\* limited in packets, however stops and wakes interleave.
DropsOnlyByHeader ==
  \A q \in TxQueues : dev[q].drops > 0 => conf.inBytes /\ LinkHeader > 0

\* The stop flag of a queue says that it lacks room, so it is neither left set
\* after room appeared nor cleared too early.  The one exception is a refused
\* packet: it stops a queue that has room for the Mtu but not for the header,
\* and then a packet is being transmitted, whose completion will look at the
\* flag again.  A queue stopped by its byte limit really is over it and has a
\* packet whose completion will look at that flag.
StopFlagExact ==
  \A q \in TxQueues :
    /\ ~ HasRoom(dev[q]) => dev[q].stoppedByDevice
    /\ dev[q].stoppedByDevice /\ HasRoom(dev[q]) =>
         /\ dev[q].drops > 0 /\ InHeaderGap(dev[q])
         /\ dev[q].busy /\ dev[q].queue # <<>>
    /\ dev[q].stoppedByQueueLimits =>
         Available(dev[q].limits) < 0 /\ dev[q].queue # <<>>

\* DynamicQueueLimits keeps count across the wrap of its counters (the assert
\* of Completed never fails) and does its job: bytes in the device queue never
\* exceed the largest limit by more than the packet that crossed it, although
\* the limit adapts and starts from an uninitialised m_adjLimit.
LimitsHold ==
  HasLimits => \A q \in TxQueues :
    /\ InFlight(dev[q].limits) = BytesIn(dev[q])
    /\ dev[q].limits.m_limit \in 0 .. MaxLimit
    /\ BytesIn(dev[q]) <= MaxLimit + Mtu + LinkHeader

Backlogged == disc # <<>> \/ root.m_requeued # NoItem
WillWake(q) == dev[q].wakes > 0 \/ (IsStopped(dev[q]) /\ dev[q].busy)

\* No lost wakeup: between events, a disc that holds packets will be run again
\* without anyone sending: a wake is scheduled, or a queue is stopped and its
\* transmitter busy; a requeued packet waits for its own queue.  The one
\* exception is a Run that used up its quota, which nobody reschedules.
BacklogWillRun ==
  pc = "idle" /\ Backlogged /\ ~ cut =>
    /\ \E q \in TxQueues : WillWake(q)
    /\ root.m_requeued # NoItem => WillWake(root.m_requeued.txq)

\* Every packet is accounted for: dropped by the disc or the device, lost, on
\* the wire, or still in a queue.
AtDevice == UNION {{q} \X (1 .. Len(dev[q].queue) + dev[q].drops) : q \in TxQueues}
PacketsConserved ==
  offered =
    root.nTotalDroppedBeforeEnqueue + lost + delivered
      + root.m_nPackets + (IF root.m_requeued = NoItem THEN 0 ELSE 1)
      + Cardinality(AtDevice)

\* Packets of one transmission queue keep their order from disc to wire, the
\* requeued packet included, and a queue of the device holds no others.
Aside == IF root.m_requeued = NoItem THEN <<>> ELSE <<root.m_requeued>>
OrderPreserved ==
  \A q \in TxQueues :
    LET line == dev[q].queue \o Aside \o disc
        mine == {i \in DOMAIN line : line[i].txq = q}
    IN  /\ DOMAIN dev[q].queue \subseteq mine
        /\ \A i, j \in mine : i < j => line[i].id < line[j].id

\* Everything offered leaves: once sending stops the device drains, and so does
\* the disc unless its last Run was cut short by the quota.
Drains == <>[] \/ pc = "crashed"
               \/ /\ \A q \in TxQueues : dev[q].queue = <<>> /\ ~ dev[q].busy
                  /\ cut \/ ~ Backlogged

\* A scheduled wake finds its callback.
WakeFindsCallback == pc # "crashed"

\* Flow control between disc and device: the device refuses a packet only in
\* the gap that the link header leaves, its stop flags say what they stand
\* for, and the adaptive byte limit keeps count, while sends, wakes and
\* transmissions interleave.
FlowControlSound == TypeOK /\ DropsOnlyByHeader /\ StopFlagExact /\ LimitsHold

\* No packet is lost, duplicated or overtaken between TrafficControlLayer::Send
\* and the wire, requeued packets and a deleted root disc included.
PacketsSafe == PacketsConserved /\ OrderPreserved
=============================================================================
