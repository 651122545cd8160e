---------------------- MODULE NullMessageSimulatorImpl ----------------------
(***************************************************************************)
(* ns3::NullMessageSimulatorImpl with NullMessageMpiInterface, the remote  *)
(* channel bundles and the sending side of the point-to-point devices.     *)
(* There is no collective step: a rank executes events up to its safe      *)
(* time, the smallest of the guarantees its neighbours gave it with their  *)
(* packets and null messages, and blocks for a message when it can go no   *)
(* further.                                                                *)
(*                                                                         *)
(* MPI keeps the order of the messages from one rank to another, and       *)
(* delivers the messages of different ranks in any order, as late as it    *)
(* likes.  The list of events is kept in the order of execution: an event  *)
(* comes behind those inserted before it for the same time.                *)
(***************************************************************************)
EXTENDS Naturals, Sequences, SequencesExt, FiniteSets, FiniteSetsExt

CONSTANTS
  Ranks,    \* system ids
  Programs, \* what is simulated: the ranks, the channels between two ranks with
            \* their delays, m_schedulerTune in percent, the time for which all
            \* scheduled Simulator::Stop, the ranks whose events may call it as
            \* well, those that may have scheduled an event before Run, and a
            \* bound on the events and packets that follow
  Channels, \* what tells parallel channels apart
  TxTimes,  \* times a device needs to put a packet on the wire
  Steps     \* delays of events scheduled by the simulated program

ASSUME RanksAssumption == IsFiniteSet(Ranks) /\ Ranks \subseteq Nat
ASSUME TimesAssumption == TxTimes \subseteq Nat /\ Steps \subseteq Nat
ASSUME ProgramsAssumption ==
  \A p \in Programs :
    /\ p.ranks \subseteq Ranks
    /\ \A l \in DOMAIN p.delay :
         /\ l \subseteq p.ranks /\ Cardinality(l) = 2
         /\ DOMAIN p.delay[l] \in (SUBSET Channels) \ {{}}
         /\ \A c \in DOMAIN p.delay[l] : p.delay[l][c] \in Nat \ {0}
    /\ p.tune \in 1 .. 100 /\ p.stop \in Nat \ {0} /\ p.max \in Nat
    /\ p.mayStop \subseteq p.ranks /\ p.starts \subseteq p.ranks

VARIABLES
  program,   \* the program
  events,    \* m_events of each rank
  now,       \* m_currentTs
  safe,      \* m_safeTime
  guarantee, \* m_guaranteeTime of the bundles
  stop,      \* m_stop
  busy,      \* devices in state BUSY, as <<rank, neighbour, channel>>
  net,       \* net[s][r]: messages from s to r, in order
  pc,        \* where each rank is
  overlap,   \* history: a packet went on a channel while a parallel one was busy
  used       \* events and packets of the simulated program so far

vars ==
  <<program, events, now, safe, guarantee, stop, busy, net, pc, overlap, used>>

\* AddChannel: m_delay of a bundle is the smallest delay of its channels.
channels(l) == DOMAIN program.delay[l]
delay == [l \in DOMAIN program.delay |-> Min({program.delay[l][c] : c \in channels(l)})]
StopTime == program.stop
MaxEvents == program.max
Neighbours(r) == {s \in Ranks : {r, s} \in DOMAIN delay /\ s # r}

\* Kinds of events: of the simulated program ("app"), the end of the
\* transmission on a channel ("complete"), the null message due for a bundle
\* ("null"), one that was cancelled and is still in the list ("cancelled"), and
\* Simulator::Stop ("stop").
Event(ts, kind, to, ch) == [ts |-> ts, kind |-> kind, to |-> to, ch |-> ch]
App(r, ts) == Event(ts, "app", r, 0)
Insert(list, e) ==
  InsertAt(list, 1 + Cardinality({i \in DOMAIN list : list[i].ts <= e.ts}), e)

\* Delay to the next null message of a bundle, a double rounded to a Time.
PauseTooLong(d) == 2 * d                                            \* mutant
Pause(d) == (program.tune * d + 50) \div 100

\* Next and CalculateGuaranteeTime, with list the events of r.
CalculateGuaranteeTimeUnsafe(r, s, list) == list[1].ts + delay[{r, s}]  \* mutant
CalculateGuaranteeTime(r, s, list) == Min({list[1].ts, safe[r]}) + delay[{r, s}]

\* GetSafeTime of the bundle manager, a rank without neighbours being free
\* until it stops; g holds the guarantees of r.
SafeTimeOfMax(r, g) == Max({g[s] : s \in Neighbours(r)} \cup {0})     \* mutant
SafeTime(r, g) ==
  IF Neighbours(r) = {} THEN StopTime ELSE Min({g[s] : s \in Neighbours(r)})

\* SendNullMessage: the time 0 says that there is no packet.
NullMessage(g) == [ts |-> 0, g |-> g]

-----------------------------------------------------------------------------
\* Run up to its loop: every bundle promises its delay and schedules its first
\* null message.  The program has scheduled the stop and perhaps, in the ranks
\* of R, an event.
Scheduled(r, R) ==
  {App(r, 0) : i \in {r} \cap R} \cup {Event(StopTime, "stop", r, 0)}
    \cup {Event(Pause(delay[{r, s}]), "null", s, 0) : s \in Neighbours(r)}

\* At the same time, the null messages are inserted last, in the order of the
\* map of the bundles.
Sooner(e, f) ==
  \/ e.ts < f.ts
  \/ e.ts = f.ts /\ f.kind = "null" /\ (e.kind = "null" => e.to < f.to)

InitialEvents(r, R) ==
  LET E == Scheduled(r, R)
  IN  [i \in 1 .. Cardinality(E) |->
         CHOOSE e \in E : Cardinality({f \in E : Sooner(f, e)}) = i - 1]

Init ==
  /\ program \in Programs
  /\ \E R \in SUBSET program.starts : events = [r \in Ranks |-> InitialEvents(r, R)]
  /\ now = [r \in Ranks |-> 0]
  /\ safe = [r \in Ranks |-> 0]
  /\ guarantee = [r \in Ranks |-> [s \in Ranks |-> 0]]
  /\ stop = [r \in Ranks |-> FALSE]
  /\ busy = {}
  /\ net = [s \in Ranks |-> [r \in Ranks |->
              IF r \in Neighbours(s) THEN <<NullMessage(delay[{r, s}])>> ELSE <<>>]]
  /\ pc = [r \in Ranks |-> IF r \in program.ranks THEN "loop" ELSE "done"]
  /\ overlap = FALSE
  /\ used = 0

-----------------------------------------------------------------------------
(* Events *)

MayProcessUnsafe(r) == pc[r] = "loop" /\ ~ stop[r]                  \* mutant
MayProcess(r) == pc[r] = "loop" /\ ~ stop[r] /\ events[r][1].ts <= safe[r]

\* The common part of ProcessOneEvent, for an event of one of the kinds.
ProcessOneEvent(r, kinds) ==
  /\ MayProcess(r) /\ events[r][1].kind \in kinds
  /\ now' = [now EXCEPT ![r] = events[r][1].ts]

\* An event of the program, a packet received, or TransmitComplete, which makes
\* the device ready and goes on to send the next packet, if any.
InvokeEvent(r) ==
  /\ ProcessOneEvent(r, {"app", "complete"})
  /\ events' = [events EXCEPT ![r] = Tail(@)]
  /\ busy' = IF events[r][1].kind = "app" THEN busy
             ELSE busy \ {<<r, events[r][1].to, events[r][1].ch>>}
  /\ pc' = [pc EXCEPT ![r] = "event"]
  /\ UNCHANGED <<program, safe, guarantee, stop, net, overlap, used>>

NullMessageEventHandler(r) ==
  /\ ProcessOneEvent(r, {"null"})
  /\ LET s == events[r][1].to
         list == Tail(events[r])
         g == CalculateGuaranteeTime(r, s, list)
     IN  /\ net' = [net EXCEPT ![r][s] = Append(@, NullMessage(g))]
         /\ events' = [events EXCEPT ![r] =
              Insert(list, Event(now'[r] + Pause(delay[{r, s}]), "null", s, 0))]
  /\ pc' = [pc EXCEPT ![r] = "poll"]
  /\ UNCHANGED <<program, safe, guarantee, stop, busy, overlap, used>>

InvokeCancelled(r) ==
  /\ ProcessOneEvent(r, {"cancelled"})
  /\ events' = [events EXCEPT ![r] = Tail(@)]
  /\ pc' = [pc EXCEPT ![r] = "poll"]
  /\ UNCHANGED <<program, safe, guarantee, stop, busy, net, overlap, used>>

Stop(r) ==
  /\ ProcessOneEvent(r, {"stop"})
  /\ events' = [events EXCEPT ![r] = Tail(@)]
  /\ stop' = [stop EXCEPT ![r] = TRUE]
  /\ pc' = [pc EXCEPT ![r] = "poll"]
  /\ UNCHANGED <<program, safe, guarantee, busy, net, overlap, used>>

\* What the program may do in an event, any number of times: call Stop(), ...
StopNow(r) ==
  /\ pc[r] = "event" /\ r \in program.mayStop
  /\ stop' = [stop EXCEPT ![r] = TRUE]
  /\ UNCHANGED <<program, events, now, safe, guarantee, busy, net, pc, overlap, used>>

\* ... Schedule, ...
Schedule(r, d) ==
  /\ pc[r] = "event" /\ used < MaxEvents
  /\ events' = [events EXCEPT ![r] = Insert(@, App(r, now[r] + d))]
  /\ used' = used + 1
  /\ UNCHANGED <<program, now, safe, guarantee, stop, busy, net, pc, overlap>>

\* ... and TransmitStart on a device that is ready.  The end of the transmission
\* is scheduled, then SendPacket computes the guarantee and sends, and then the
\* bundle's null message is put off (RescheduleNullMessageEvent).
Cancelled(list, s) ==
  [i \in DOMAIN list |-> IF list[i].kind = "null" /\ list[i].to = s
                         THEN [list[i] EXCEPT !.kind = "cancelled"] ELSE list[i]]
RescheduleOnlyCancels(r, s, list) == Cancelled(list, s)             \* mutant
Reschedule(r, s, list) ==
  Insert(Cancelled(list, s), Event(now[r] + Pause(delay[{r, s}]), "null", s, 0))

TransmitStart(r, s, c, x) ==
  /\ pc[r] = "event" /\ used < MaxEvents
  /\ s \in Neighbours(r) /\ c \in channels({r, s}) /\ <<r, s, c>> \notin busy
  /\ busy' = busy \cup {<<r, s, c>>}
  /\ overlap' = (overlap \/ \E b \in Channels : <<r, s, b>> \in busy)
  /\ LET list == Insert(events[r], Event(now[r] + x, "complete", s, c))
         m == [ts |-> now[r] + x + program.delay[{r, s}][c],
               g |-> CalculateGuaranteeTime(r, s, list)]
     IN  /\ net' = [net EXCEPT ![r][s] = Append(@, m)]
         /\ events' = [events EXCEPT ![r] = Reschedule(r, s, list)]
  /\ used' = used + 1
  /\ UNCHANGED <<program, now, safe, guarantee, stop, pc>>

EventReturns(r) ==
  /\ pc[r] = "event"
  /\ pc' = [pc EXCEPT ![r] = "poll"]
  /\ UNCHANGED <<program, events, now, safe, guarantee, stop, busy, net, overlap, used>>

-----------------------------------------------------------------------------
(* Messages *)

\* An iteration of ReceiveMessages, for a message from s.
Received(r, s) ==
  LET m == Head(net[s][r])
  IN  /\ net[s][r] # <<>>
      /\ net' = [net EXCEPT ![s][r] = Tail(@)]
      /\ guarantee' = [guarantee EXCEPT ![r][s] = m.g]
      /\ events' = IF m.ts = 0 THEN events
                   ELSE [events EXCEPT ![r] = Insert(@, App(r, m.ts))]

\* HandleArrivingMessagesNonBlocking takes what has arrived, however much, ...
ReceiveNonBlocking(r, s) ==
  /\ pc[r] = "poll"
  /\ Received(r, s)
  /\ UNCHANGED <<program, now, safe, stop, busy, pc, overlap, used>>

\* ... and ends in CalculateSafeTime.
CalculateSafeTime(r) ==
  /\ pc[r] = "poll"
  /\ safe' = [safe EXCEPT ![r] = SafeTime(r, guarantee[r])]
  /\ pc' = [pc EXCEPT ![r] = "loop"]
  /\ UNCHANGED <<program, events, now, guarantee, stop, busy, net, overlap, used>>

\* HandleArrivingMessagesBlocking waits for one message.
ReceiveBlocking(r, s) ==
  /\ pc[r] = "loop" /\ ~ stop[r] /\ ~ MayProcess(r)
  /\ Received(r, s)
  /\ safe' = [safe EXCEPT ![r] = SafeTime(r, guarantee'[r])]
  /\ UNCHANGED <<program, now, stop, busy, pc, overlap, used>>

\* A rank without neighbours has nothing to wait for.
ReceiveFromNobody(r) ==
  /\ pc[r] = "loop" /\ ~ stop[r] /\ ~ MayProcess(r) /\ Neighbours(r) = {}
  /\ safe' = [safe EXCEPT ![r] = SafeTime(r, guarantee[r])]
  /\ UNCHANGED <<program, events, now, guarantee, stop, busy, net, pc, overlap, used>>

RunReturns(r) ==
  /\ pc[r] = "loop" /\ stop[r]
  /\ pc' = [pc EXCEPT ![r] = "done"]
  /\ UNCHANGED <<program, events, now, safe, guarantee, stop, busy, net, overlap, used>>

-----------------------------------------------------------------------------
RankStep(r) ==
  \/ InvokeEvent(r) \/ NullMessageEventHandler(r) \/ InvokeCancelled(r) \/ Stop(r)
  \/ EventReturns(r) \/ CalculateSafeTime(r) \/ ReceiveFromNobody(r) \/ RunReturns(r)
Blocked(r) == \E s \in Ranks : ReceiveBlocking(r, s)

Next ==
  \E r \in Ranks :
    \/ RankStep(r) \/ Blocked(r) \/ StopNow(r)
    \/ \E d \in Steps : Schedule(r, d)
    \/ \E s \in Ranks, c \in Channels, x \in TxTimes : TransmitStart(r, s, c, x)
    \/ \E s \in Ranks : ReceiveNonBlocking(r, s)

Spec == Init /\ [][Next]_vars

\* Every rank runs, its events return, and a rank that waits for a message gets
\* one that is there.
FairSpec ==
  Spec /\ \A r \in Ranks : WF_vars(RankStep(r)) /\ WF_vars(Blocked(r))

-----------------------------------------------------------------------------
(* Properties *)

\* Types; the list of events is sorted, and holds the stop until it happened.
TypeOK ==
  /\ program \in Programs
  /\ \A r \in program.ranks :
       /\ \A i \in DOMAIN events[r] : events[r][i].ts \in Nat
       /\ \A i, j \in DOMAIN events[r] : i < j => events[r][i].ts <= events[r][j].ts
       /\ ~ stop[r] => \E i \in DOMAIN events[r] : events[r][i].kind = "stop"
  /\ now \in [Ranks -> 0 .. StopTime]
  /\ safe \in [Ranks -> Nat]
  /\ busy \subseteq Ranks \X Ranks \X Channels
  /\ pc \in [Ranks -> {"loop", "event", "poll", "done"}]
  /\ overlap \in BOOLEAN

\* No packet arrives in the past of the rank it is sent to (the assertions of
\* ScheduleWithContext and ProcessOneEvent), no guarantee is overtaken by the
\* time of the rank it is given to (SetGuaranteeTime), and no safe time by that
\* of its own rank (CalculateSafeTime).  All this is lost once two channels of a
\* bundle have transmitted at the same time: the guarantee that goes with the
\* first packet does not reckon with a second one in the same event.
NothingInThePast ==
  ~ overlap => \A r \in Ranks :
    /\ safe[r] >= now[r]
    /\ \A s \in Ranks : \A i \in DOMAIN net[s][r] :
         /\ net[s][r][i].g >= now[r]
         /\ net[s][r][i].ts # 0 => net[s][r][i].ts >= now[r]

\* A guarantee is kept: whatever a rank sends after it, packet or guarantee, is
\* no earlier, unless parallel channels have transmitted at the same time.
GuaranteeKept ==
  ~ overlap => \A s, r \in Ranks :
    LET ms == net[s][r]
        g(i) == IF i = 0 THEN guarantee[r][s] ELSE ms[i].g
    IN  \A i \in 0 .. Len(ms) : \A j \in i + 1 .. Len(ms) :
          ms[j].g >= g(i) /\ (ms[j].ts # 0 => ms[j].ts >= g(i))

\* A bundle that has no packet to send still promises: in every rank that runs,
\* every bundle has exactly one null message scheduled, however often packets
\* have put it off.
NullMessageDue ==
  \A r \in Ranks : \A s \in Neighbours(r) :
    Cardinality({i \in DOMAIN events[r] :
                   events[r][i].kind = "null" /\ events[r][i].to = s}) = 1

\* The rank was stopped by one of its events, before the scheduled stop.
StoppedEarly(r) == stop[r] /\ \E i \in DOMAIN events[r] : events[r][i].kind = "stop"

\* A rank that returns from Run at the scheduled stop has executed everything
\* due before it, the packets that were still on their way included, even if
\* other ranks were stopped early.  The exception is as above.
EndsComplete ==
  ~ overlap => \A r \in Ranks : pc[r] = "done" /\ ~ StoppedEarly(r) =>
    /\ \A i \in DOMAIN events[r] : events[r][i].ts >= StopTime
    /\ \A s \in Ranks : \A i \in DOMAIN net[s][r] :
         net[s][r][i].ts # 0 => net[s][r][i].ts >= StopTime

\* The ranks, which wait for each other's guarantees, do not deadlock: each
\* comes to the stop.  A rank that stops early leaves its neighbours waiting.
Terminates == <>(\/ \A r \in Ranks : pc[r] = "done"
                 \/ \E r \in Ranks : StoppedEarly(r))

\* The event list of a rank has what the protocol of RescheduleNullMessageEvent
\* and Next relies on: the stop, and one null message for every bundle.
BundlesSound == TypeOK /\ NullMessageDue
=============================================================================
