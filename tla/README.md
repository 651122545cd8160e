# TLA+ verification of ns-3

ns-3 is a discrete-event network simulator. This repository is ns-3 with two
queue discs of its own, `DrrQueueDisc` (deficit round robin) and `SfqQueueDisc`
(stochastic fair queueing), and the experiment `scratch/drr.cc` that drives
them. The project models three layers of it:

* the path of a packet from the network layer to the wire: queue discs, traffic
  control, the flow control between a disc and its device;
* the machinery under every simulation: the event loop, the event schedulers,
  the real-time simulator, and the two parallel simulators over MPI;
* the driver that runs the tests, `test.py`.

## 1. Inventory

### The parts and their state

| Part | Source | State | Operations |
|---|---|---|---|
| DRR queue disc | `traffic-control/model/drr-queue-disc.cc` | classes, per flow: child queue, deficit, status, "bumped" flag; active list; current size | DoEnqueue, DoDequeue, DrrDropFromLongestQueue |
| SFQ queue disc | `traffic-control/model/sfq-queue-disc.cc` | classes, child queues, status, flow list, current size | DoEnqueue, DoDequeue, DropFromLongestQueue |
| FIFO queue disc | `traffic-control/model/fifo-queue-disc.cc` | one internal queue | DoEnqueue, DoDequeue, DoPeek |
| Queue disc base | `traffic-control/model/queue-disc.cc` | packet counters, `m_requeued`, `m_peeked`, `m_running` | Enqueue, Dequeue, Peek, Run, count and drop callbacks |
| Traffic control layer | `traffic-control/model/traffic-control-layer.cc` | device to root disc | Send, SetRoot..., DeleteRoot... |
| Net device queue | `network/utils/net-device-queue-interface.{h,cc}` | two stop flags, wake callback, queue limits | Stop, Wake, PacketEnqueued, PacketDequeued, Notify... |
| Dynamic queue limits | `network/utils/dynamic-queue-limits.cc` | limit, wrapping byte counters, slack | Queued, Completed, Available |
| Point-to-point device | `point-to-point/model/point-to-point-net-device.cc` | transmitter READY or BUSY, device queue | Send, TransmitStart, TransmitComplete |
| Default simulator | `core/model/default-simulator-impl.cc` | event list, current time and uid, count, stop flag; events posted by other threads, behind a mutex and a flag read without it | Run, Stop, Destroy, Schedule..., Cancel, Remove, IsExpired |
| Event schedulers | `core/model/{list,calendar,heap,map,priority-queue}-scheduler.cc` | a sorted list; buckets with width, year and position; an array heap | Insert, PeekNext, RemoveNext, Remove, the resizing of the calendar |
| Real-time simulator | `core/model/realtime-simulator-impl.cc`, `wall-clock-synchronizer.cc` | the same behind a mutex, origin of the clock, condition, wait | Run, ProcessOneEvent, Schedule..., Stop; sleep, spin, signal |
| Granted time window | `mpi/model/distributed-simulator-impl.cc`, `granted-time-window-mpi-interface.cc` | per rank: events, granted time, lookahead, counts of messages | Run with MPI_Allgather, SendPacket, ReceiveMessages |
| Null messages | `mpi/model/null-message-*.cc`, `remote-channel-bundle*.cc` | per rank: events, safe time, a guarantee per neighbour | Run, SendPacket, SendNullMessage, ReceiveMessages |
| Test driver | `test.py` | jobs, two queues, threads, report, tallies, exit code | dispatch, worker loop, collection, SIGINT |

(Paths are under `src/src/`, the test driver is `src/test.py`.)

How they interact. `TrafficControlLayer::Send` enqueues into the root disc and
runs it. A disc with classes hands packets to child discs; the internal queue
of a child reports each enqueue, dequeue and drop through trace callbacks to
the child, which reports them to its parent. `QueueDisc::Run` takes packets out
and sends them to the device until the disc is empty, its quota is used up, or
the device queue is stopped. The device queue reports enqueues and dequeues to
`NetDeviceQueue`, which stops the queue when another packet would not fit or
the byte limit is reached and, once there is room again, schedules an event
that runs the disc. Every such event goes through a simulator, which keeps it
in a scheduler. With MPI, a packet for a node of another rank leaves through a
remote channel as a message and becomes an event there. The test driver runs
simulations as processes and learns of them by exit codes and files only.

What is hard. In the queueing path an event is atomic, and the difficulties are
sequences of calls and orders of events: a peeked packet kept aside while others
arrive or are dropped; a loop whose end depends on credits; a wakeup that must
not be lost; counters that wrap. In the simulators they are threads (events
posted while the main thread merges, a signal between the reading of the list
and the wait), data structures that reorganise themselves in mid-operation,
messages under way while ranks agree on a time, and ranks that wait for one
another. In the test driver, an interrupt at any moment. PROJECT.json lists
them as hazards, each at its line.

What makes each part correct:

* DRR and SFQ: no flow with packets is off the list, none is on it twice;
  counters agree with the contents; capacity; order within a flow; DoDequeue
  returns, and null only if empty; flows are served evenly.
* flow control: the device refuses no packet that flow control let through, no
  wakeup is lost, packets are neither lost nor reordered, queues drain, the byte
  limit keeps count.
* simulators: events happen in the order of their keys, none is lost, expiry
  says the truth, waits end in time, nothing arrives in the past, and all ranks
  come to an end.
* schedulers: each is an event list that hands out the earliest event.
* test driver: no job is lost, report and exit code tell what happened, it ends.

## 2. Modules

| Module | Models |
|---|---|
| `QueueDisc` | the bookkeeping of `ns3::QueueDisc` as operators on one record; used by every disc |
| `WorkConservingDisc` | abstract: what a multi-flow disc promises its caller |
| `DrrQueueDisc`, `DrrFairness` | DRR with the wrappers Enqueue, Dequeue and Peek; with history variables that compare the service of two flows |
| `SfqQueueDisc`, `SfqFairness` | the same for SFQ |
| `DynamicQueueLimits` | the adaptive byte limit as operators on a record |
| `TrafficControl` | Send, Run, a FIFO root, stop and wake, byte limits, the transmitter |
| `Events` | keys of events and their order |
| `DefaultSimulatorImpl` | the event loop with threads that post events |
| `EventList` | abstract: insert, remove, and hand out the earliest |
| `CalendarScheduler`, `HeapScheduler` | the two data structures as operators |
| `Schedulers` | list, calendar and heap scheduler driven by the same calls |
| `RealtimeSimulatorImpl` | the event loop that waits for the wall clock, with its synchronizer |
| `DistributedSimulatorImpl` | ranks with granted time windows |
| `NullMessageSimulatorImpl` | ranks with null messages, and the devices that feed them |
| `TestPy` | `test.py` |
| `DrrQueueDiscProofs`, `SfqQueueDiscProofs`, `TrafficControlProofs`, `DefaultSimulatorImplProofs`, `RealtimeSimulatorImplProofs`, `DistributedSimulatorImplProofs`, `NullMessageSimulatorImplProofs`, `TestPyProofs` | theorems about the module of that name and their proofs |
| `MCTrafficControl`, `MCDistributed`, `MCNullMessage` | devices, topologies and programs for TLC |

`DrrQueueDisc`, `SfqQueueDisc` and `TrafficControl` extend `QueueDisc`; the two
discs instantiate `WorkConservingDisc` with the refinement mapping
`stored <- fifo`, `held <- root.m_requeued`, `busy <- (pc = "loop")`.
`TrafficControl` extends `DynamicQueueLimits`: the device queue of a device with
limits drives it. `Schedulers` instantiates `EventList` twice, with what the
list and what the buckets of the calendar hold. The simulators take their event
list to be such a list.

State and actions. Variables keep the names of the C++ members where TLA+ allows
it. In the discs `fifo` and `m_nBytes` are the internal queue and the byte count
of the children; `root` is the record of base class counters of the disc itself.
`Enqueue` is one action, including the creation of the class, the child's
answer, the overflow drop and every callback these cause. DoDequeue is a loop of
unknown length: one action enters it, each iteration is an action, and
`pc = "loop"` keeps everything else out. The deficit is an int32_t that receives
an uint32_t, which `ToInt32` models with the width as a constant. In
`TrafficControl`, `Run` is such a loop; wake events of a queue are counted in
`dev[q].wakes`, and `TransmitComplete` waits for pending wakes of its queue
because those are scheduled at the current time and it at a later one.

In the simulators a critical section is one step and what lies between two is
not. `DefaultSimulatorImpl` reads the flag of posted events in one step and
takes the list in another; `RealtimeSimulatorImpl` has a step for each of: look
at the head and reset the condition, begin the wait, sleep, spin, take the head,
call the event. Its `realtime` is what `GetNormalizedRealtime` returns, all the
code sees of the wall clock: the time since the last `SetOrigin`, or since 1970
before the first. `TimedWait` does not carry over nanoseconds that add up to a
full second (`unix-system-condition.cc:187`); a sleep it gets wrong in this way
is in the state `"endless"`, which only a signal ends. An event of a model program may do anything the interface
offers, in any number and order (`Schedule`, `Cancel`, `Remove`, `Stop`,
`SendPacket`), so that the results do not depend on a particular simulation.

In `DistributedSimulatorImpl` a message waits in `net` until a poll of its
receiver happens to find it; the gather is one step of all ranks, since each
computes the same from the same array. In `NullMessageSimulatorImpl` messages
keep their order between two ranks, cancelled events stay in the list as they do
in the code, and a packet is sent by a device that is busy for its transmission
time; that is what makes the guarantees of the code right for one channel
between two ranks. A bundle may have several channels with delays of their own,
of which it takes the least (`AddChannel`). The history variable `overlap`
records that a channel was given a packet while a parallel one was still busy.
Every rank has scheduled a stop for a common time before Run; in some programs
an event may call `Stop` as well, at any time.

`TestPy` has a step for each access of a thread to a queue or a shared variable
and a history (`real`) of what became of each job. What a process does (exit
code, files, output) is chosen freely within what the test runner can do.

Undefined behaviour. `std::list::front` on an empty list
(`sfq-queue-disc.cc:205`): the model takes the outcome of libstdc++ (C++11 ABI)
and libc++, which keep the element count where the value of the sentinel node
would be, so 0 is read as the pointer and DoDequeue returns null. The
uninitialised `m_adjLimit` of `DynamicQueueLimits` is any of `Garbage`; where
the signed subtraction in `Posdiff` overflows, the wrapped and the true result
are both possible.

Definitions whose name is followed by the comment `mutant` are not part of the
model. Each is a plausible mistake in the definition below it and is used to
show that a property would notice: with it in place TLC finds the property
violated.

## 3. Runs

Runs that pass:

| Run | Checks |
|---|---|
| `drr` | types, `ActiveListSound`, `BooksBalance`, `CapacityRespected`, `FlowOrder`; `ServiceFair` (bounded deficit, alternating turns, bytes within a bound); that DRR implements `WorkConservingDisc`, which includes that calls return |
| `sfq` | `SfqInv` (types, list, books, capacity), `PacketsAlternate`, `DropsFromLongest`, that SFQ implements `WorkConservingDisc` |
| `tc` | `FlowControlSound` (types, a refusal by the device only for the link header, exact stop flags, byte limits), `BacklogWillRun`, `PacketsSafe` (conserved and in order), `Drains`, on four devices |
| `simulator` | `EventsSound` (types, exact count and expiry, a cancelled event never runs), `PostsSound` (posts of other threads kept, in order, none left behind), `KeysIncrease` |
| `schedulers` | `SchedulersSound` (calendar and heap consistent), and that list and calendar implement `EventList` |
| `test_py` | `JobsSafe` (types, no job lost or run twice, the directory outlives the processes), `ExitCodeTrue`, `ReportMatches`, `Terminates` |
| `realtime` | `NoMissedSignal`, `NeverEarly`, `ListSound` (types, exact list, assertions), `EventsHappen`, `StopReturns` |
| `distributed` | `NoMessageInThePast`, `WindowSound` (types, safe grants), `EndsTogether`, `Terminates` |
| `null_message` | `GuaranteeKept`, `NothingInThePast`, `BundlesSound` (types, a null message due per bundle), `EndsComplete`, `Terminates` |

Runs that show a disagreement between the code and what is said of it; each is a
finding in PROJECT.json with the line it contradicts:

| Run | Shows |
|---|---|
| `drr_zero_quantum` | with the default quantum of 0 DoDequeue does not return |
| `tc_wake_after_delete` | a wake scheduled before the root disc is removed calls a null callback |
| `heap_remove` | `HeapScheduler::Remove` of an event in the middle can leave the heap out of order: the event that fills the hole is sifted down and never up |

Further places where the code does not do what is said of it. The properties
state what the code does keep, with the exception spelled out as narrowly as it
can be, and the runs named contain the excepted case:

| Said | Done | Property, run |
|---|---|---|
| `drr-queue-disc.h:144` "Current size of the queue", `sfq-queue-disc.h:148` "Current number of packets in the internal queue" | `m_currentQueueSize` is incremented for every packet handed to a child, refused or not (`drr-queue-disc.cc:179-187`). Each refusal costs the disc a slot for good, and it then drops with room left | `BooksBalance`, `SfqInv`: never below what is stored, equal to it as long as nothing was refused; `drr`, `sfq` |
| `net-device-queue-interface.h:391-397`: no room "should not happen if the device correctly stops the queue" | The test for room (`:350-355`) asks for the MTU; `PointToPointNetDevice::Send` adds the PPP header before it enqueues (`:530`). A queue limited in bytes may refuse the packet, and is stopped until the next dequeue | `DropsOnlyByHeader`, `StopFlagExact` in `FlowControlSound`: only such a queue refuses, and it recovers; `tc`, second device |
| `synchronizer.h:85-102`: `SetOrigin` establishes "a correspondence between a simulation time and the synchronizer real time", with the time passed as the origin | `DoSetOrigin` ignores its argument: the clock of a second Run starts at 0 while `m_currentTs` stands where the first ended, and a real-time schedule fails the assertion `ts >= m_currentTs` | `NoAbort` in `ListSound`: only in a later Run, only while the clock is behind; `realtime`, two Runs |
| `null-message-simulator-impl.h:168-170` "No message should arrive from task nodeSysId with a receive time less than the guarantee time." | The guarantee that goes with a packet does not reckon with a packet that the same event sends next, on a parallel channel with a shorter delay or transmission time. That packet undercuts it, and the receiver may have passed its time: the assertions of `SetGuaranteeTime` and `CalculateSafeTime` fail | `GuaranteeKept`, `NothingInThePast`, `EndsComplete`: until parallel channels transmit at the same time (`overlap`); `null_message`, third program, in which each of the three fails without the exception |
| `test.py:1829-1833`: a suite that fails under valgrind has its entry "followed by a VALGR failing test suite of the same name"; `:1825` with code 0, 1 or 2 "we have a valid xml file" | Its file is copied and nothing follows, so it may read PASS. Output that cannot be decoded makes the code 1, whether the suite left a file or not; without one, opening it raises | `EntryTells`, `EntriesInOrder` in `ReportMatches`; `test_py` |
| `TimedWait` waits for at most the time given | with `tv_nsec` at exactly 10^9 the system call fails and is repeated until a signal comes | `EventsHappen`, `StopReturns` except such a sleep (`"endless"`); `realtime` |

Bounds and why they are enough.

* Discs: three flows (list properties relate two and a third that joins or
  leaves), sizes 1 and 3 with a quantum of 2 (a packet that fits a quantum, one
  that takes two rounds, left-over credit), five packets (`MaxReceived`) against
  a capacity of 3 and children of 2, so that disc and children both overflow.
  `Int32Half` is 16, above any deficit reached.
* `tc`: four devices: two transmission queues of two packets whose disc may be
  deleted; a queue of 9 bytes against an MTU of 3 and a link header of 1, which
  refuses packets; adaptive byte limits with counters that wrap at 24; a quota of
  one packet. Seven packets (`MaxOffered`) against a disc of two, so that a disc
  that has dropped packets can still be deleted and sends go on without it, and
  stopping, requeueing, overflow and waking happen several times; the counters
  wrap once, which suffices because the code only ever takes differences of
  them. `BacklogWillRun` and `Drains` except a Run that used up its quota, which
  the code does not reschedule (the todo at `queue-disc.cc:967`).
* `simulator`: three scheduled events and two posts, two delays, two Runs
  and a Destroy: every pair of operations on an event meets, and a post falls
  between any two steps of the main thread.
* `schedulers`: six insertions at times 0, 1, 3 and 8 with up to 4 buckets: the
  calendar grows and shrinks, and events lie a year ahead. The heap is followed
  until the first removal out of turn, after which `heap_remove` shows it may be
  wrong. The width of a
  bucket is recomputed at every resize with the integer arithmetic of the code.
* `test_py`: two workers and three jobs of every kind and outcome.
* `realtime`: three events with delays 0 and 4 in jiffies of 1, so that waits
  sleep and spin; with and without a jitter limit; two Runs, so that the clock
  falls behind `m_currentTs`. `Epoch` stands for the distance between wall-clock
  and simulation time.
* `distributed`: three ranks; a chain with two delays, a chain with a link of
  delay 0 (lookahead 0), a triangle, a link and a lone rank, no link; lookahead
  bounded and not; two events or messages after the initial ones, up to time 4.
* `null_message`: a chain of three ranks with delays 1 and 2 and a packet or an
  event; two ranks at distance 3 with a scheduler tune of 70 percent and two
  events or packets, one of which may stop early; two ranks with two channels of
  delays 3 and 2 and three events or packets, enough for a packet to undercut the
  guarantee of another; two ranks without a link. Packets take 1 or 2 to
  transmit.

No run uses symmetry, since each checks a temporal property or orders its ranks.
Deadlock is checked for the discs only; the other systems come to an end.

Fairness. The discs: a call of DoDequeue that was made keeps running.
`TrafficControl`: Run keeps running and scheduled events are executed, as the
simulator's loop does; nothing obliges anyone to send. `RealtimeSimulatorImpl`:
the thread of Run runs and time passes. `TestPy`: threads run and processes end;
nothing obliges SIGINT to come. `DistributedSimulatorImpl`: ranks run, events
return, and a message that is polled for again and again is found (strong
fairness of receipt: the progress rule of MPI). `NullMessageSimulatorImpl`: ranks
run, and a rank blocked in MPI_Waitany receives a message that is there.

Conditions. `ImplementsDisc` reckons the packets a child refused against the
capacity, since the code counts them: that such packets cost room is outside its
view. It needs a positive quantum. `EventsHappen` and `StopReturns` except an
event that another thread stamps in the moment between `m_running = true` and `SetOrigin`, which is decades ahead, and a sleep
whose end `TimedWait` gets wrong. `Terminates` of the null messages excepts
programs in which a rank was stopped early: its neighbours then wait for
guarantees nobody gives. `NullMessageSimulatorImpl` assumes that every rank has
scheduled the stop before Run, without which `Next` would look at an empty list.

## 4. Proofs

Each theorem holds for every value of the constants that the named assumptions
of its module allow. The assumptions are those the code makes: finitely many
flows, ranks and queues; positive packet sizes; limits that are natural numbers;
a null packet that is no packet; an event or packet bound that is a number.

| Module | Theorems | State |
|---|---|---|
| `DrrQueueDiscProofs` | `TypeCorrect`, `ActiveListCorrect`, `BooksCorrect`, `CapacityCorrect`, `FlowOrderCorrect` | `[]TypeOK`, `[]ActiveListSound`, `[]BooksBalance`, `[]CapacityRespected`, `[]FlowOrder` |
| | `ServiceFairCorrect` | `FairnessSpec => []ServiceFair`, if the amounts fit an `int32_t` (`AmountsFit`) |
| | `ImplementsWorkConserving` | `Spec => Disc!Spec`, the safety part of `ImplementsDisc` |
| `SfqQueueDiscProofs` | `SfqInvCorrect`, `PacketsAlternateCorrect` | `[]SfqInv`, `[]PacketsAlternate` |
| | `DropsFromLongestCorrect` | the action property `DropsFromLongest` |
| | `ImplementsWorkConserving` | `Spec => Disc!Spec` |
| `TrafficControlProofs` | `FlowControlCorrect`, `BacklogCorrect`, `PacketsSafeCorrect` | `[]FlowControlSound`, `[]BacklogWillRun`, `[]PacketsSafe` |
| `DefaultSimulatorImplProofs` | `EventsSoundCorrect`, `PostsSoundCorrect` | `[]EventsSound`, `[]PostsSound` |
| | `KeysIncreaseCorrect` | the action property `KeysIncrease` |
| `RealtimeSimulatorImplProofs` | `NoMissedSignalCorrect`, `NeverEarlyCorrect`, `ListSoundCorrect` | `[]NoMissedSignal`, `[]NeverEarly`, `[]ListSound`, for any number of Runs |
| `DistributedSimulatorImplProofs` | `NoMessageInThePastCorrect`, `WindowCorrect`, `EndsTogetherCorrect`, `TimeForward` | `[]NoMessageInThePast`, `[]WindowSound`, `[]EndsTogether`, no event in the past |
| `NullMessageSimulatorImplProofs` | `GuaranteeKeptCorrect`, `NothingInThePastCorrect`, `BundlesSoundCorrect`, `EndsCompleteCorrect` | `[]GuaranteeKept`, `[]NothingInThePast`, `[]BundlesSound`, `[]EndsComplete`, for any number of channels and delays |
| `TestPyProofs` | `JobsSafeCorrect`, `ExitCodeCorrect`, `ReportMatchesCorrect` | `[]JobsSafe`, `[]ExitCodeTrue`, `[]ReportMatches` |

Every proof has the same shape: an inductive invariant `IInv`, one lemma per
action that it is preserved, `NextIInv` that puts them together, and a lemma per
property that `IInv` implies it. None of the properties is inductive alone; what
follows is what had to be added and why. Each module is self-contained: general
facts about numbers, lists or the order of events stand at its beginning, with
their proofs, in every module that needs them.

**DRR and SFQ.** That counters do not go below zero needs them to agree with the
contents, and that the overflow drop finds a packet to take needs the byte count
it scans to be positive exactly for the queues that hold packets. So the invariant is

    IInv == TypeOK /\ ActiveListSound /\ BooksInv
            /\ (the byte count of each child is the sum of its packets' sizes)
            /\ m_currentQueueSize <= MaxQueueSize

`BooksInv` relates the counters to the packets stored and those refused, from
which `BooksBalance`, which does not know of the refused ones, follows. The sum
is stated by a witness, a function of partial sums (`BytesOK`).
`CapacityRespected` follows because `m_currentQueueSize` is never below the
number of packets stored. `FlowOrder` needs `OrderInv`: every stored or peeked
packet is of the flow whose queue it is in and has a number no greater than the
number of arrivals, which is why an arrival is newer than all that is stored.
For `PacketsAlternate`, `RoundInv` compares two flows by their places: of two
flows in the list, the one nearer the head has sent as many packets as the other
or one less. The refinements map each iteration of the loop to a step of
`WorkConservingDisc` or a stutter and use `IInv` for what the abstract guards
ask: there is a packet to drop, and null is returned only by an empty disc.

`DropsFromLongest` needs that the byte count of a child is the sum of the sizes it
holds, added up by a recursive function (`CountIsSum`), and that only flows with a
class, which are those the scan looks at, hold packets (`ClassInv`).

`ServiceFair` compares two flows by places too, in bytes. The carry of a flow is
its deficit without the quantum of a turn under way. Sending n bytes takes n off
the carry and adds n to the lead over every other active flow; the end of a turn
adds a quantum to the carry and puts the flow behind all others. So the lead in
bytes plus the difference of the carries (`Balanced`) changes only when the two
change places, from h to -(h + Quantum), and the number of turns by which they
differ is 0 or 1 according to their order (`RoundInv`). With carries bounded by
`DeficitBounded` this bounds the lead. The hypothesis `AmountsFit`, twice the
quantum below 2^31 and a packet plus a quantum at most 2^31, is needed because
the deficit is an `int32_t` to which a `uint32_t` quantum is added.

**Traffic control.** `IInv == DataOK /\ DevOK /\ RunOK /\ BacklogWillRun`.
`DevOK` says of each device queue that its stop flags are exact, that something
was refused only for a link header, and then by a queue with a packet under way,
that a ready transmitter has an empty queue, and that the byte limits keep count: the difference of the two wrapping counters is the number of
bytes in the queue, or that number minus `Word`. From this a stopped queue has a
busy transmitter, so its next completion will ask again, which is why a Run that
ends at a stopped queue leaves a wake behind. The bytes in a queue are a
recursive function; how it follows an append and a tail is proved by `Climb`,
induction on an interval by its least counterexample. `CountInv` counts the
packets and `OrderInv` lines them up: device queue before requeued packet before
disc. The proof of `CountInv` did not go through at first, since the model let a
deleted disc take its count of drops with it; a disc of three packets was too
large for seven packets to reach such a state in the run. The model and the bound
have been corrected.

**Default simulator.** An id is in the future only as long as its event is in the
scheduler or it was cancelled (`Future`), which makes `IsExpired` right, and what
ran is neither in the scheduler nor cancelled (`NotAgain`). The list of the other
threads is the end of what they have posted (`PostList`); what was merged before
has run or is in the scheduler, once, and cannot be cancelled (`PostPlaces`), in
the order of the posts (`PostOrder`). `KeysIncrease` follows because the
scheduler holds nothing before the current event and `RemoveNext` takes the
least.

**Real-time simulator.** `TargetInList` says that the event waited for, or an
earlier one, is in the list, and `OnTime` that the simulation is not ahead of
the clock: in the first Run at any time, in a later one, whose clock starts at 0
again, whenever an event is executed. Before that the assertion of a schedule
may fail, which is what `NoAbort` says.

**Granted time window.** `Floor` strengthens `WindowSound` to ranks that are no
neighbours, from which a rank may be reached through others; `Counts` equates the
difference of the counters with the number of messages under way, which is why a
gather that finds them equal has an empty `net` before it.

**Null messages.** The invariant is `~ overlap => IInv`, beside an unconditional
`BInv` (types, and a null message per bundle) that gives `BundlesSound`: a step
from a state with `overlap` cannot reset it (`OverlapStays`), and in the one that
sets it there is nothing left to show. That the delay of a bundle is at most that
of any of its channels is `BundleDelay`. What a rank has
promised a neighbour is held against all it may still send (`PromisesHold`), for
one of three reasons: the promised time has come (`Come`); the promise went with
a packet, and the device is busy until then and no null message is due before
(`Busy`); or it went with a null message, and nothing else is due or can arrive
before (`Quiet`). `Chains` says that the messages under way on a channel keep
the guarantee that has arrived, and each the guarantees of those before it.

**Test driver.** `Placed` says where the jobs are: the two queues, the hands of
the workers and what was collected are disjoint, hold a job once at the most, and
together hold the jobs queued. `BreaksLast` says that break jobs are behind all
others in the input queue and that a worker that has taken one leaves nothing
but break jobs there, which is why a worker may return. `ResultsTrue` relates a
job as its worker left it to what became of it; in particular a job whose results
file is missing although it will be opened is a broken one, so that the driver is
right to exit with 1 after the exception. The counters are the numbers of places
in `collected` with a job of that status (`TallyExact`). When as many jobs are
collected as there are, all are, by the pigeonhole principle, and two disjoint
sets of places have as many members as there are jobs only if they cover all.
The jobs of the report are those of `collected` without the interrupted ones, by
a recursive function (`Without`); how it follows an append is proved by `Climb`,
and a job that ends changes only what is not collected yet.

Only model-checked:

* everything under fairness (`Drains`, `Terminates`, `EventsHappen`,
  `StopReturns`, the fair part of the refinements), which the prover does not
  handle;
* `SchedulersSound` and the refinements of `EventList`: what the folds of the
  heap and the calendar compute for every input is an induction over data.

## 5. Not modelled

Left out of the modelled parts: the byte counters of the base class (they move
with the packet counters), per-reason maps, marks and trace sources (nothing
reads them back), the contents of packets, hash functions (any bucket may be
chosen), the timing of transmissions in `TrafficControl` (any order of events
that the code allows), contexts of events, changing the scheduler in
mid-simulation, how `test.py` chooses tests and renders reports.

Not modelled at all: queue discs that compute drop decisions in floating point;
TCP, ARP, routing protocols and the radio stacks, independent systems of a size
of their own; mobility, energy, statistics; the visualiser, mostly drawing.
Nearly all Python of the repository is generated bindings (`modulegen__*.py`):
declarations without behaviour, of which there is nothing to check. PROJECT.json
gives the reason for each part.

## 6. Plan

Done: the queueing path, the simulators, the schedulers, the test driver; the
theorems of section 4.

Next: `PrioQueueDisc` and `TbfQueueDisc`, a root that peeks its child and runs on
a timer, and the turn-taking of the visualiser's simulation thread.
