------------------------ MODULE RealtimeSimulatorImpl ------------------------
(***************************************************************************)
(* ns3::RealtimeSimulatorImpl with its WallClockSynchronizer: the thread   *)
(* in Run waits, asleep and then spinning, until the wall clock reaches    *)
(* the next event, while other threads schedule events and must be able to *)
(* cut the wait short.                                                     *)
(*                                                                         *)
(* A critical section on m_mutex is one step; what happens outside it is a *)
(* step of its own.  SystemCondition::Signal takes the lock that TimedWait *)
(* gives up only inside pthread_cond_timedwait, so a thread asleep goes on *)
(* whenever the condition is true.  All the code sees of the wall clock is *)
(* what GetNormalizedRealtime returns, its distance from the last origin.  *)
(***************************************************************************)
EXTENDS Events, FiniteSets, FiniteSetsExt

CONSTANTS
  Delays,     \* delays of scheduled events
  HardLimits, \* jitter limits to consider; NoLimit is SYNC_BEST_EFFORT
  NoLimit,
  Jiffy,      \* m_jiffy
  IdleDelay,  \* tsDelay of Run, one second
  Epoch,      \* wall-clock time at the start of the program
  MaxStart,   \* bound on the time, counted from there, until the first Run
  Horizon,    \* bound on the time stamps of events, and on the wall clock
              \* counted from the start of a Run
  MaxEvents,  \* bound on the events scheduled
  MaxRuns     \* bound on the calls of Run

ASSUME DelaysAssumption == Delays \subseteq Nat /\ MaxEvents \in Nat /\ MaxRuns \in Nat
ASSUME ClockAssumption == /\ MaxStart \in Nat /\ Horizon \in Nat
                          /\ Epoch \in Nat /\ Epoch > Horizon
                          /\ Jiffy \in Nat \ {0} /\ IdleDelay \in Nat

VARIABLES
  realtime,   \* GetNormalizedRealtime: the wall clock less m_realtimeOriginNano,
              \* which is 0 until the first SetOrigin
  events,     \* m_events
  m_uid, m_currentTs, m_currentUid, m_unscheduledEvents,
  m_stop, m_running,
  condition,  \* the condition of the synchronizer
  pc,         \* where the thread of Run is
  wait,       \* its call of Synchronize: for what, until when, asleep until
  hardLimit,  \* m_hardLimit
  runs        \* calls of Run so far

vars == <<realtime, events, m_uid, m_currentTs, m_currentUid,
          m_unscheduledEvents, m_stop, m_running, condition, pc, wait,
          hardLimit, runs>>
current == <<m_currentTs, m_currentUid>>
list == <<events, m_uid, m_unscheduledEvents>>

NoWait == [for |-> "event", target |-> 0, asleep |-> 0]

Init ==
  /\ realtime = Epoch
  /\ events = {} /\ m_uid = 4 /\ m_unscheduledEvents = 0
  /\ m_currentTs = 0 /\ m_currentUid = 0
  /\ m_stop = FALSE /\ m_running = FALSE /\ condition = FALSE
  /\ pc = "outside" /\ wait = NoWait
  /\ hardLimit \in HardLimits /\ runs = 0

\* Has the clock come to normalized time t?  A wait that is not for an event
\* may end at the horizon, which stands for every later time.
Reached(t) == realtime >= t \/ (wait.for = "any" /\ realtime = Horizon)

\* The program has died neither of an assertion nor of a fatal error.
Alive == pc \notin {"fatal", "aborted"}

Tick == /\ Alive
        /\ \/ realtime < Horizon
           \/ realtime >= Epoch /\ realtime < Epoch + MaxStart
        /\ realtime' = realtime + 1
        /\ UNCHANGED <<list, current, m_stop, m_running, condition, pc,
                       wait, hardLimit, runs>>

-----------------------------------------------------------------------------
(* Scheduling *)

\* Insert and Signal, under m_mutex.
InsertQuietly(ts) ==                                                \* mutant
  /\ events' = events \cup {[ts |-> ts, uid |-> m_uid]}
  /\ m_uid' = m_uid + 1
  /\ m_unscheduledEvents' = m_unscheduledEvents + 1
  /\ UNCHANGED condition
Insert(ts) ==
  /\ events' = events \cup {[ts |-> ts, uid |-> m_uid]}
  /\ m_uid' = m_uid + 1
  /\ m_unscheduledEvents' = m_unscheduledEvents + 1
  /\ condition' = TRUE

\* Schedule and ScheduleNow, and ScheduleWithContext by the thread of Run:
\* before Run or inside an event.
Schedule(d) ==
  /\ pc \in {"outside", "event"}
  /\ m_uid < 4 + MaxEvents
  /\ m_currentTs + d <= Horizon
  /\ Insert(m_currentTs + d)
  /\ UNCHANGED <<realtime, current, m_stop, m_running, pc, wait, hardLimit,
                 runs>>

\* A call by another thread, at any time.  The assertion is on.
InsertChecked(ts) ==
  /\ Alive /\ m_uid < 4 + MaxEvents
  /\ ts <= Horizon \/ ts >= Epoch
  /\ IF ts >= m_currentTs
     THEN Insert(ts) /\ UNCHANGED pc
     ELSE pc' = "aborted" /\ UNCHANGED <<list, condition>>

\* ScheduleWithContext and ScheduleRealtimeNowWithContext.
Post(d) ==
  /\ InsertChecked((IF m_running THEN realtime ELSE m_currentTs) + d)
  /\ UNCHANGED <<realtime, current, m_stop, m_running, wait, hardLimit, runs>>

\* ScheduleRealtimeWithContext, which takes the clock as it is.
PostRealtime(d) ==
  /\ InsertChecked(realtime + d)
  /\ UNCHANGED <<realtime, current, m_stop, m_running, wait, hardLimit, runs>>

\* Remove, called by an event.
IsExpired(e) == \/ e.ts < m_currentTs
                \/ e.ts = m_currentTs /\ e.uid <= m_currentUid

Remove(e) ==
  /\ pc = "event" /\ ~ IsExpired(e)
  /\ events' = events \ {e}
  /\ m_unscheduledEvents' = m_unscheduledEvents - 1
  /\ UNCHANGED <<realtime, m_uid, current, m_stop, m_running, condition,
                 pc, wait, hardLimit, runs>>

\* Stop, called by an event or by another thread; it signals nobody.
Stop ==
  /\ Alive /\ ~ m_stop
  /\ m_stop' = TRUE
  /\ UNCHANGED <<realtime, list, current, m_running, condition, pc, wait,
                 hardLimit, runs>>

-----------------------------------------------------------------------------
(* Run *)

At(from, to) == pc = from /\ pc' = to

Run ==
  /\ At("outside", "starting") /\ runs < MaxRuns
  /\ m_stop' = FALSE /\ m_running' = TRUE /\ runs' = runs + 1
  /\ UNCHANGED <<realtime, list, current, condition, wait, hardLimit>>

\* WallClockSynchronizer::DoSetOrigin does not use its argument.
SetOrigin ==
  /\ At("starting", "loop")
  /\ realtime' = 0
  /\ UNCHANGED <<list, current, m_stop, m_running, condition, wait,
                 hardLimit, runs>>

LoopTest ==
  /\ pc = "loop" /\ pc' = IF m_stop THEN "stopping" ELSE "peek"
  /\ UNCHANGED <<realtime, list, current, m_stop, m_running, condition,
                 wait, hardLimit, runs>>

\* Is there an event?  If not, wait for one second or a signal.
Peek ==
  /\ pc = "peek"
  /\ IF events # {} THEN pc' = "evaluate" /\ UNCHANGED wait
     ELSE /\ pc' = "synchronize"
          /\ wait' = [NoWait EXCEPT !.for = "any", !.target = realtime + IdleDelay]
  /\ UNCHANGED <<realtime, list, current, m_stop, m_running, condition,
                 hardLimit, runs>>

\* The first critical section of ProcessOneEvent: how long to wait for the
\* next event; from here on a signal interrupts the wait.
Evaluate ==
  /\ At("evaluate", "synchronize")
  /\ wait' = [NoWait EXCEPT !.target = Max({realtime, Earliest(events).ts})]
  /\ condition' = FALSE
  /\ UNCHANGED <<realtime, list, current, m_stop, m_running, hardLimit, runs>>

\* DoSynchronize: sleep if more than three jiffies are left, then spin.  When
\* the nanoseconds of the end of the sleep add up to a full second, TimedWait
\* does not carry them over (it tests >, not >=), pthread_cond_timedwait refuses
\* the time and only a signal ends the sleep: "endless".
SynchronizeResets ==                                                \* mutant
  /\ At("synchronize", "spin")
  /\ condition' = FALSE
  /\ UNCHANGED <<realtime, list, current, m_stop, m_running, wait,
                 hardLimit, runs>>
Synchronize ==
  /\ pc = "synchronize"
  /\ LET jiffies == Max({0, wait.target - realtime}) \div Jiffy
     IN  IF jiffies > 3
         THEN /\ pc' \in {"sleep", "endless"}
              /\ wait' = [wait EXCEPT !.asleep = realtime + (jiffies - 3) * Jiffy]
         ELSE pc' = "spin" /\ UNCHANGED wait
  /\ UNCHANGED <<realtime, list, current, m_stop, m_running, condition,
                 hardLimit, runs>>

\* Synchronize returns to ProcessOneEvent or to Run.
Return(completed) ==
  /\ pc' = IF wait.for = "any" THEN "loop"
           ELSE IF completed THEN "take" ELSE "evaluate"
  /\ wait' = NoWait

SleepEndsBySignal ==                                                \* mutant
  /\ pc = "sleep" /\ condition
  /\ Return(FALSE)
  /\ UNCHANGED <<realtime, list, current, m_stop, m_running, condition,
                 hardLimit, runs>>
SleepEnds ==
  /\ pc \in {"sleep", "endless"}
  /\ \/ condition /\ Return(FALSE)
     \/ pc = "sleep" /\ Reached(wait.asleep) /\ pc' = "spin" /\ UNCHANGED wait
  /\ UNCHANGED <<realtime, list, current, m_stop, m_running, condition,
                 hardLimit, runs>>

SpinEndsEarly ==                                                    \* mutant
  /\ pc = "spin"
  /\ Return(~ condition)
  /\ UNCHANGED <<realtime, list, current, m_stop, m_running, condition,
                 hardLimit, runs>>
SpinEnds ==
  /\ pc = "spin"
  /\ \/ Reached(wait.target) /\ Return(TRUE)
     \/ ~ Reached(wait.target) /\ condition /\ Return(FALSE)
  /\ UNCHANGED <<realtime, list, current, m_stop, m_running, condition,
                 hardLimit, runs>>

\* The second critical section of ProcessOneEvent: whatever is at the head of
\* the list now.
TakeUncounted ==                                                    \* mutant
  /\ At("take", "event")
  /\ LET next == Earliest(events)
     IN  /\ events' = events \ {next}
         /\ m_currentTs' = next.ts /\ m_currentUid' = next.uid
  /\ UNCHANGED <<realtime, m_uid, m_unscheduledEvents, m_stop, m_running,
                 condition, wait, hardLimit, runs>>
Take ==
  /\ pc = "take"
  /\ LET next == Earliest(events)
         jitter == Max({realtime - next.ts, next.ts - realtime})
     IN  /\ events' = events \ {next}
         /\ m_unscheduledEvents' = m_unscheduledEvents - 1
         /\ m_currentTs' = next.ts /\ m_currentUid' = next.uid
         /\ pc' = IF next.ts < m_currentTs THEN "aborted"
                  ELSE IF hardLimit # NoLimit /\ jitter > hardLimit THEN "fatal"
                  ELSE "event"
  /\ UNCHANGED <<realtime, m_uid, m_stop, m_running, condition, wait,
                 hardLimit, runs>>

EventReturns ==
  /\ At("event", "loop")
  /\ UNCHANGED <<realtime, list, current, m_stop, m_running, condition,
                 wait, hardLimit, runs>>

RunReturns ==
  /\ At("stopping", "outside")
  /\ m_running' = FALSE
  /\ UNCHANGED <<realtime, list, current, m_stop, condition, wait,
                 hardLimit, runs>>

-----------------------------------------------------------------------------
MainStep == \/ SetOrigin \/ LoopTest \/ Peek \/ Evaluate \/ Synchronize
            \/ SleepEnds \/ SpinEnds \/ Take \/ EventReturns \/ RunReturns

Next == \/ MainStep \/ Run \/ Tick \/ Stop
        \/ \E d \in Delays : Schedule(d) \/ Post(d) \/ PostRealtime(d)
        \/ \E e \in events : Remove(e)

Spec == Init /\ [][Next]_vars

\* The thread of Run makes progress, events return, and time passes.
FairSpec == Spec /\ WF_vars(MainStep) /\ WF_vars(Tick)

-----------------------------------------------------------------------------
(* Properties *)

Waiting == pc \in {"synchronize", "sleep", "endless", "spin"}

\* Types.
TypeOK ==
  /\ realtime \in (0 .. Horizon) \cup {n \in Nat : n >= Epoch}
  /\ events \subseteq [ts : Nat, uid : 4 .. 3 + MaxEvents]
  /\ m_uid \in 4 .. 4 + MaxEvents /\ m_unscheduledEvents \in 0 .. MaxEvents
  /\ m_currentTs \in 0 .. Horizon
  /\ m_stop \in BOOLEAN /\ m_running \in BOOLEAN /\ condition \in BOOLEAN
  /\ pc \in {"outside", "starting", "loop", "peek", "evaluate", "synchronize",
             "sleep", "endless", "spin", "take", "event", "stopping", "fatal",
             "aborted"}

\* No signal is missed: while the thread of Run waits longer than the event
\* list calls for (for an event when there is one, or beyond the time of the
\* earliest one), the condition is set, so the wait ends.  The comment in
\* ProcessOneEvent argues this for a schedule that has "snuck in".
NoMissedSignal ==
  Waiting /\ events # {} =>
    \/ condition
    \/ wait.for = "event" /\ (Reached(wait.target)
                              \/ Earliest(events).ts >= wait.target)

\* An event is never executed before its time has come on the wall clock,
\* however waits were interrupted and whichever event was then at the head.
NeverEarly == pc \in {"event", "fatal"} => realtime >= m_currentTs

\* The assertions of the simulator hold: an event is scheduled for, and found
\* at, a time no earlier than m_currentTs.  One case is left: after a later
\* SetOrigin the clock starts at 0 again, behind m_currentTs, and a real-time
\* schedule fails until it has caught up.
NoAbort == pc = "aborted" => runs > 1 /\ realtime < m_currentTs

\* m_unscheduledEvents counts the events of the list, which are not expired,
\* and the list is not empty when ProcessOneEvent takes its head.
ListExact ==
  /\ m_unscheduledEvents = Cardinality(events)
  /\ \A e \in events : ~ IsExpired(e)
  /\ pc \in {"evaluate", "take"} \/ (Waiting /\ wait.for = "event") => events # {}

\* An event of the list is executed or removed unless the simulation stops,
\* dies or enters a sleep whose end TimedWait gets wrong; not so one stamped
\* before the clock had an origin.
EventsHappen ==
  \A u \in 4 .. 3 + MaxEvents :
    (\E e \in events : e.uid = u /\ e.ts <= Horizon /\ m_running)
      ~> (m_stop \/ ~ Alive \/ pc = "endless" \/ \A e \in events : e.uid # u)

\* After Stop, Run returns although nobody wakes it, unless what is left to wait
\* for is an event stamped before the clock had an origin, or the end of a sleep
\* that TimedWait gets wrong.
StopReturns ==
  (m_stop /\ m_running)
    ~> (~ m_running \/ ~ Alive \/ pc = "endless" \/ \E e \in events : e.ts >= Epoch)

\* The event list of RealtimeSimulatorImpl agrees with its count and with
\* IsExpired, and the assertions on it hold, whoever schedules meanwhile.
ListSound == TypeOK /\ ListExact /\ NoAbort
=============================================================================
