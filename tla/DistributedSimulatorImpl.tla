---------------------- MODULE DistributedSimulatorImpl ----------------------
(***************************************************************************)
(* ns3::DistributedSimulatorImpl with GrantedTimeWindowMpiInterface: every *)
(* rank executes the events of its own nodes up to its granted time, sends *)
(* packets for nodes of other ranks as MPI messages, and when it can go no *)
(* further receives what has arrived and joins an MPI_Allgather that fixes *)
(* the next granted time.                                                  *)
(*                                                                         *)
(* A message stays in the net until some poll of its receiver finds it, in *)
(* any order.  The ranks are blocked in MPI_Allgather until all have       *)
(* joined, and then compute from the same array: one step for all.         *)
(***************************************************************************)
EXTENDS Events, FiniteSets, FiniteSetsExt

CONSTANTS
  Ranks,
  Topologies, \* delays of the channels between nodes of two ranks, by the
              \* pair of ranks; Infinity where there is none
  Bounds,     \* lookaheads the program may give to BoundLookAhead
  Extra,      \* what may come on top of the delay of a channel
  Steps,      \* delays of events scheduled locally
  MaxTime,    \* bound on simulation time
  MaxEvents,  \* bound on the events and messages
  Infinity    \* GetMaximumSimulationTime

ASSUME RanksAssumption == IsFiniteSet(Ranks) /\ Ranks # {} /\ MaxEvents \in Nat
ASSUME TimesAssumption ==
  /\ Extra \subseteq Nat /\ Steps \subseteq Nat
  /\ MaxTime \in Nat /\ Infinity \in Nat /\ MaxTime < Infinity
  /\ Bounds \subseteq (1 .. MaxTime) \cup {Infinity}

VARIABLES
  delay,     \* the topology
  lookAhead, \* m_lookAhead
  events,    \* m_events
  now,       \* m_currentTs
  granted,   \* m_grantedTime
  stop,      \* m_stop
  tx, rx,    \* g_txCount, g_rxCount
  net,       \* messages sent and not received
  pc,        \* where each rank is
  used       \* events and messages so far, the source of identities

vars == <<delay, lookAhead, events, now, granted, stop, tx, rx, net, pc, used>>

Links == {p \in SUBSET Ranks : Cardinality(p) = 2}
ASSUME TopologiesAssumption ==
  Topologies \subseteq [Links -> (0 .. MaxTime) \cup {Infinity}]
Linked(r) == {s \in Ranks \ {r} : delay[{r, s}] # Infinity}

\* CalculateLookAhead: the smallest delay of a channel to another rank; a rank
\* that has none takes the largest lookahead there is.  d holds the delays and
\* bound what BoundLookAhead left.
LookAheadOfMax(d, bound) ==                                         \* mutant
  [r \in Ranks |->
     Min({bound, Max({d[p] : p \in {q \in Links : r \in q}} \cup {0})})]
LookAhead(d, bound) ==
  LET own(r) == Min({bound} \cup {d[p] : p \in {q \in Links : r \in q}})
      max == Max({0} \cup ({own(r) : r \in Ranks} \ {Infinity}))
  IN  [r \in Ranks |->
         IF Cardinality(Ranks) <= 1 THEN 0
         ELSE IF own(r) = Infinity /\ max # 0 THEN max ELSE own(r)]

\* Each rank starts with an event or none.
Init ==
  /\ delay \in Topologies
  /\ \E b \in Bounds : lookAhead = LookAhead(delay, b)
  /\ \E R \in SUBSET Ranks :
       /\ events = [r \in Ranks |-> IF r \in R THEN {[ts |-> 0, uid |-> 0]} ELSE {}]
       /\ used = 0
  /\ now = [r \in Ranks |-> 0]
  /\ granted = lookAhead
  /\ stop = [r \in Ranks |-> FALSE]
  /\ tx = [r \in Ranks |-> 0] /\ rx = [r \in Ranks |-> 0]
  /\ net = {}
  /\ pc = [r \in Ranks |-> "loop"]

IsLocalFinished(r) == events[r] = {} \/ stop[r]
NextTs(r) == IF IsLocalFinished(r) THEN Infinity ELSE Earliest(events[r]).ts

MayProcess(r) == NextTs(r) <= granted[r] /\ ~ IsLocalFinished(r)

-----------------------------------------------------------------------------
(* An event *)

\* The loop of Run goes on to ProcessOneEvent, at once or after the gather.
ProcessOneEvent(r) ==
  /\ pc[r] = "loop" /\ MayProcess(r)
  /\ LET next == Earliest(events[r])
     IN  /\ events' = [events EXCEPT ![r] = @ \ {next}]
         /\ now' = [now EXCEPT ![r] = next.ts]
  /\ pc' = [pc EXCEPT ![r] = "event"]
  /\ UNCHANGED <<delay, lookAhead, granted, stop, tx, rx, net, used>>

\* What an event may do, any number of times: Schedule, ...
Schedule(r, d) ==
  /\ pc[r] = "event" /\ used < MaxEvents /\ now[r] + d <= MaxTime
  /\ events' = [events EXCEPT ![r] = @ \cup {[ts |-> now[r] + d, uid |-> used + 1]}]
  /\ used' = used + 1
  /\ UNCHANGED <<delay, lookAhead, now, granted, stop, tx, rx, net, pc>>

\* ... SendPacket, through a remote channel, ...
SendPacket(r, s, x) ==
  /\ pc[r] = "event" /\ used < MaxEvents
  /\ now[r] + delay[{r, s}] + x <= MaxTime
  /\ net' = net \cup {[to |-> s, ts |-> now[r] + delay[{r, s}] + x,
                       uid |-> used + 1]}
  /\ tx' = [tx EXCEPT ![r] = @ + 1]
  /\ used' = used + 1
  /\ UNCHANGED <<delay, lookAhead, events, now, granted, stop, rx, pc>>

\* ... and Stop.
Stop(r) ==
  /\ pc[r] = "event" /\ ~ stop[r]
  /\ stop' = [stop EXCEPT ![r] = TRUE]
  /\ UNCHANGED <<delay, lookAhead, events, now, granted, tx, rx, net, pc, used>>

EventReturns(r) ==
  /\ pc[r] = "event"
  /\ pc' = [pc EXCEPT ![r] = "loop"]
  /\ UNCHANGED <<delay, lookAhead, events, now, granted, stop, tx, rx, net, used>>

-----------------------------------------------------------------------------
(* Synchronisation *)

\* Next event beyond the granted time, or none: receive messages.
NeedWindow(r) ==
  /\ pc[r] = "loop" /\ ~ MayProcess(r)
  /\ pc' = [pc EXCEPT ![r] = "receive"]
  /\ UNCHANGED <<delay, lookAhead, events, now, granted, stop, tx, rx, net, used>>

\* An iteration of ReceiveMessages.
ReceiveMessageUncounted(r, m) ==                                    \* mutant
  /\ pc[r] = "receive" /\ m.to = r
  /\ net' = net \ {m}
  /\ events' = [events EXCEPT ![r] = @ \cup {[ts |-> m.ts, uid |-> m.uid]}]
  /\ UNCHANGED <<delay, lookAhead, now, granted, stop, tx, rx, pc, used>>
ReceiveMessage(r, m) ==
  /\ pc[r] = "receive" /\ m.to = r
  /\ net' = net \ {m}
  /\ rx' = [rx EXCEPT ![r] = @ + 1]
  /\ events' = [events EXCEPT ![r] = @ \cup {[ts |-> m.ts, uid |-> m.uid]}]
  /\ UNCHANGED <<delay, lookAhead, now, granted, stop, tx, pc, used>>

\* The poll finds nothing more; the rank enters MPI_Allgather with its LBTS.
JoinGather(r) ==
  /\ pc[r] = "receive"
  /\ pc' = [pc EXCEPT ![r] = "gather"]
  /\ UNCHANGED <<delay, lookAhead, events, now, granted, stop, tx, rx, net, used>>

\* What every rank computes from the gathered messages, first of all the sums
\* of the counters, each increment of a rank being counted as one element.
Tallies(c) == UNION {{r} \X (1 .. c[r]) : r \in Ranks}
Total(c) == Cardinality(Tallies(c))
NoTransients == Total(tx) = Total(rx)
SmallestTime == Min({NextTs(r) : r \in Ranks})
GlobalFinishedEarly ==                                              \* mutant
  \A r \in Ranks : IsLocalFinished(r)
GlobalFinished == NoTransients /\ \A r \in Ranks : IsLocalFinished(r)

\* After it the loop executes the next event if the window allows, or ends.
AllgatherIgnoresTransients ==                                       \* mutant
  /\ \A r \in Ranks : pc[r] = "gather"
  /\ granted' = [r \in Ranks |-> SmallestTime + lookAhead[r]]
  /\ pc' = [r \in Ranks |-> IF GlobalFinished THEN "done" ELSE "loop"]
  /\ UNCHANGED <<delay, lookAhead, events, now, stop, tx, rx, net, used>>
Allgather ==
  /\ \A r \in Ranks : pc[r] = "gather"
  /\ granted' = [r \in Ranks |->
                   IF ~ NoTransients THEN granted[r]
                   ELSE IF lookAhead[r] = Infinity THEN Infinity
                   ELSE SmallestTime + lookAhead[r]]
  /\ pc' = [r \in Ranks |-> IF GlobalFinished THEN "done" ELSE "loop"]
  /\ UNCHANGED <<delay, lookAhead, events, now, stop, tx, rx, net, used>>

-----------------------------------------------------------------------------
Receive(r) == \E m \in net : ReceiveMessage(r, m)
RankStep(r) == ProcessOneEvent(r) \/ EventReturns(r) \/ NeedWindow(r) \/ JoinGather(r)

Next ==
  \/ Allgather
  \/ \E r \in Ranks :
       \/ RankStep(r) \/ Receive(r) \/ Stop(r)
       \/ \E d \in Steps : Schedule(r, d)
       \/ \E s \in Linked(r), x \in Extra : SendPacket(r, s, x)

Spec == Init /\ [][Next]_vars

\* Every rank runs and its events return; a message that is polled for again
\* and again is found (the progress rule of MPI).
FairSpec ==
  /\ Spec
  /\ WF_vars(Allgather)
  /\ \A r \in Ranks : WF_vars(RankStep(r)) /\ SF_vars(Receive(r))

-----------------------------------------------------------------------------
(* Properties *)

\* Types.
TypeOK ==
  /\ \A r \in Ranks : \A e \in events[r] :
       e.ts \in 0 .. MaxTime /\ e.uid \in 0 .. MaxEvents
  /\ \A m \in net : m.to \in Ranks /\ m.ts \in 0 .. MaxTime
  /\ now \in [Ranks -> 0 .. MaxTime] /\ granted \in [Ranks -> Nat]
  /\ stop \in [Ranks -> BOOLEAN]
  /\ tx \in [Ranks -> 0 .. MaxEvents] /\ rx \in [Ranks -> 0 .. MaxEvents]
  /\ pc \in [Ranks -> {"loop", "event", "receive", "gather", "done"}]

\* Conservative synchronisation: a message never arrives in the past of its
\* receiver, however long MPI takes, so that the delay rxTime - Now with which
\* ReceiveMessages schedules it is not negative.
NoMessageInThePast == \A m \in net : m.ts >= now[m.to]

\* The granted time is safe: nothing that is still to happen anywhere, or is
\* under way, can reach a rank before its granted time, although every rank
\* reckons with its own lookahead only.
GrantSafe ==
  \A r \in Ranks :
    /\ \A m \in net : m.to = r => m.ts >= granted[r]
    /\ \A s \in Linked(r) :
         LET d == delay[{r, s}]
         IN  /\ ~ stop[s] => \A e \in events[s] : e.ts + d >= granted[r]
             /\ ~ stop[s] => \A m \in net : m.to = s => m.ts + d >= granted[r]
             /\ pc[s] = "event" => now[s] + d >= granted[r]

\* The ranks agree on the end: they leave Run together, no message is under way
\* then, and every event that was not cut off by Stop has been executed.
EndsTogether ==
  (\E r \in Ranks : pc[r] = "done") =>
    /\ \A r \in Ranks : pc[r] = "done" /\ IsLocalFinished(r)
    /\ net = {}

\* The simulation ends, the transient messages notwithstanding.
Terminates == <>(\A r \in Ranks : pc[r] = "done")

\* The windows that Run computes from the gathered times are safe in every
\* state, not only when they are granted.
WindowSound == TypeOK /\ GrantSafe
=============================================================================
