-------------------- MODULE RealtimeSimulatorImplProofs --------------------
(***************************************************************************)
(* Proofs about RealtimeSimulatorImpl for any delays, jitter limits, size  *)
(* of a jiffy and number of events and of calls of Run.  A second call     *)
(* sets the clock back to zero, behind m_currentTs: from then on the clock *)
(* is known to be ahead of it only when an event is executed.              *)
(***************************************************************************)
EXTENDS RealtimeSimulatorImpl, FiniteSetTheorems, WellFoundedInduction, TLAPS

(***************************************************************************)
(* The order of events                                                     *)
(***************************************************************************)

\* A set of natural numbers has a smallest element: its elements are compared
\* by the sets of the numbers below them, which are finite.
LEMMA SmallestExists ==
  ASSUME NEW T \in SUBSET Nat, T # {}
  PROVE  \E n \in T : \A m \in T : n <= m
<1> DEFINE R == OpToRel(<, Nat)
<1>1. \E n \in T : \A m \in T : ~ (<<m, n>> \in R)
  BY NatLessThanWellFounded, WFMin, Zenon
<1>2. PICK n \in T : \A m \in T : ~ (<<m, n>> \in R)
  BY <1>1, Zenon
<1>3. R = {p \in Nat \X Nat : p[1] < p[2]}
  BY Zenon DEF OpToRel
<1> HIDE DEF R
<1>4. \A m \in T : <<m, n>> \in Nat \X Nat /\ ~ (m < n)
  BY <1>2, <1>3
<1>5. \A m \in T : n \in Nat /\ m \in Nat /\ ~ (m < n)
  BY <1>4
<1>6. \A m \in T : n <= m
  BY <1>5
<1> QED
  BY <1>6, Zenon

\* The keys of the events in S are of natural numbers and tell them apart.
Keyed(S) ==
  /\ \A e \in S : e.ts \in Nat /\ e.uid \in Nat
  /\ \A e, f \in S : e.ts = f.ts /\ e.uid = f.uid => e = f

\* A scheduler that holds events has one to hand out next, and no event of the
\* scheduler is earlier.
LEMMA EarliestExists ==
  ASSUME NEW S, S # {}, Keyed(S)
  PROVE  /\ Earliest(S) \in S
         /\ \A f \in S \ {Earliest(S)} : Before(Earliest(S), f)
         /\ \A f \in S : Earliest(S).ts <= f.ts
<1> DEFINE times == {e.ts : e \in S}
<1>1. times \in SUBSET Nat /\ times # {}
  BY DEF Keyed
<1>2. PICK t \in times : \A u \in times : t <= u
  BY <1>1, SmallestExists, Zenon
<1> DEFINE uids == {e.uid : e \in {f \in S : f.ts = t}}
<1>3. uids \in SUBSET Nat /\ uids # {}
  BY DEF Keyed
<1>4. PICK u \in uids : \A v \in uids : u <= v
  BY <1>3, SmallestExists, Zenon
<1>5. PICK e \in S : e.ts = t /\ e.uid = u
  OBVIOUS
<1>6. \A f \in S \ {e} : Before(e, f)
  <2> SUFFICES ASSUME NEW f \in S, f # e PROVE Before(e, f)
    OBVIOUS
  <2>1. t <= f.ts /\ f.ts \in Nat /\ f.uid \in Nat /\ t \in Nat /\ u \in Nat
    BY <1>2, <1>5 DEF Keyed
  <2>2. CASE f.ts = t
    <3>1. u <= f.uid
      BY <1>4, <2>2
    <3>2. f.uid # u
      BY <1>5, <2>2 DEF Keyed
    <3> QED
      BY <1>5, <2>1, <2>2, <3>1, <3>2 DEF Before
  <2>3. CASE f.ts # t
    BY <1>5, <2>1, <2>3 DEF Before
  <2> QED
    BY <2>2, <2>3
<1>7. /\ Earliest(S) \in S
      /\ \A f \in S \ {Earliest(S)} : Before(Earliest(S), f)
  BY <1>6 DEF Earliest
<1>8. \A f \in S : Earliest(S).ts <= f.ts
  BY <1>7 DEF Before, Keyed
<1> QED
  BY <1>7, <1>8

(***************************************************************************)
(* The inductive invariant                                                 *)
(***************************************************************************)

\* Types that TypeOK leaves open.
Shape ==
  /\ wait \in [for : {"event", "any"}, target : Nat, asleep : Int]
  /\ m_currentUid \in Nat /\ runs \in Nat /\ runs <= MaxRuns

\* The clock has an origin from the first SetOrigin on, and until then nothing
\* has been executed.
Started ==
  /\ runs = 0 => pc = "outside"
  /\ pc \in {"outside", "starting"} \/ realtime <= Horizon
  /\ realtime >= Epoch <=> runs = 0 \/ (runs = 1 /\ pc = "starting")
  /\ realtime >= Epoch => m_currentTs = 0

\* The time of the simulation is not ahead of the clock in the first Run, nor
\* while an event is executed.
OnTime == runs <= 1 \/ pc \in {"event", "fatal"} => m_currentTs <= realtime

\* The events of the list have been given different ids, the next id is new,
\* and there are no more of them than ids.
Identified ==
  /\ IsFiniteSet(events)
  /\ \A e, f \in events : e.uid = f.uid => e = f
  /\ \A e \in events : e.uid < m_uid
  /\ m_currentUid < m_uid
  /\ m_unscheduledEvents <= m_uid - 4

\* What ProcessOneEvent waits for is in the list, or something earlier is.
TargetInList ==
  /\ Waiting /\ wait.for = "event" => \E e \in events : e.ts <= wait.target
  /\ pc = "take" => \E e \in events : e.ts <= realtime

IInv == /\ ListSound /\ NoMissedSignal
        /\ Shape /\ Started /\ OnTime /\ Identified /\ TargetInList

(***************************************************************************)
(* Consequences                                                            *)
(***************************************************************************)

\* The larger of two numbers.
LEMMA MaxOfTwo ==
  ASSUME NEW a \in Int, NEW b \in Int
  PROVE  Max({a, b}) = IF a >= b THEN a ELSE b
<1>1. \E x \in {a, b} : \A y \in {a, b} : x >= y
  OBVIOUS
<1>2. Max({a, b}) \in {a, b} /\ \A y \in {a, b} : Max({a, b}) >= y
  BY <1>1 DEF Max
<1> QED
  BY <1>2

\* The clock, normalized, is a time.
LEMMA RealtimeType ==
  ASSUME IInv
  PROVE  /\ realtime \in Nat
         /\ m_currentTs \in Nat /\ runs \in Nat /\ Epoch \in Nat /\ Horizon \in Nat
         /\ Epoch > Horizon
BY ClockAssumption DEF IInv, ListSound, TypeOK, Shape

\* The head of a list that is not empty.
LEMMA NextEvent ==
  ASSUME IInv, events # {}
  PROVE  /\ Earliest(events) \in events
         /\ \A f \in events \ {Earliest(events)} : Before(Earliest(events), f)
         /\ \A f \in events : Earliest(events).ts <= f.ts
         /\ Earliest(events).ts \in Nat
<1>1. \A e \in events : e.ts \in Nat /\ e.uid \in Nat
  BY DelaysAssumption DEF IInv, ListSound, TypeOK
<1>2. Keyed(events)
  BY <1>1 DEF Keyed, IInv, Identified
<1> QED
  BY <1>1, <1>2, EarliestExists

\* The invariant holds when the program starts.
LEMMA InitIInv == Init => IInv
<1> SUFFICES ASSUME Init PROVE IInv
  OBVIOUS
<1>1. TypeOK
  <2>1. m_stop \in BOOLEAN /\ m_running \in BOOLEAN /\ condition \in BOOLEAN
    BY Zenon DEF Init
  <2> QED
    BY <2>1, ClockAssumption, DelaysAssumption DEF Init, TypeOK
<1>2. ListExact /\ NoAbort
  BY FS_EmptySet DEF Init, ListExact, NoAbort, Waiting
<1>3. NoMissedSignal /\ TargetInList
  BY DEF Init, NoMissedSignal, TargetInList, Waiting
<1>4. Shape
  BY DelaysAssumption DEF Init, Shape, NoWait
<1>5. Started /\ OnTime
  BY ClockAssumption DEF Init, Started, OnTime
<1>6. Identified
  BY FS_EmptySet DEF Init, Identified
<1> QED
  BY <1>1, <1>2, <1>3, <1>4, <1>5, <1>6 DEF IInv, ListSound

Places == {"outside", "starting", "loop", "peek", "evaluate", "synchronize",
           "sleep", "endless", "spin", "take", "event", "stopping", "fatal",
           "aborted"}

\* A step of the thread of Run that leaves the list and the clock alone keeps
\* the invariant if it gets the places right.
LEMMA MoveStep ==
  ASSUME IInv, UNCHANGED <<realtime, list, current>>,
         m_stop' \in BOOLEAN, m_running' \in BOOLEAN, condition' \in BOOLEAN,
         pc' \in Places, NoAbort', OnTime',
         Shape', Started', NoMissedSignal', TargetInList',
         pc' = "evaluate" => events # {}
  PROVE  IInv'
<1>1. UNCHANGED <<realtime, events, m_uid, m_unscheduledEvents,
                  m_currentTs, m_currentUid>>
  BY DEF list, current
<1>2. TypeOK'
  BY <1>1 DEF IInv, ListSound, TypeOK, Places
<1>3. ListExact'
  <2>1. pc' \in {"evaluate", "take"} \/ (Waiting' /\ wait'.for = "event") => events' # {}
    BY <1>1 DEF TargetInList
  <2> QED
    BY <1>1, <2>1 DEF IInv, ListSound, ListExact, IsExpired
<1>4. Identified'
  BY <1>1 DEF IInv, Identified
<1> QED
  BY <1>2, <1>3, <1>4 DEF IInv, ListSound

(***************************************************************************)
(* Scheduling                                                              *)
(***************************************************************************)

\* An event inserted for a time that is not past, whoever inserts it.
LEMMA InsertStep ==
  ASSUME IInv, NEW ts \in Nat, m_currentTs <= ts, m_uid < 4 + MaxEvents,
         Insert(ts),
         UNCHANGED <<realtime, current, m_stop, m_running, pc, wait,
                     hardLimit, runs>>
  PROVE  IInv'
<1> DEFINE new == [ts |-> ts, uid |-> m_uid]
<1>1. /\ events' = events \cup {new}
      /\ m_uid' = m_uid + 1
      /\ m_unscheduledEvents' = m_unscheduledEvents + 1
      /\ condition' = TRUE
      /\ UNCHANGED <<realtime, m_currentTs, m_currentUid, m_stop,
                     m_running, pc, wait, runs>>
  BY DEF Insert, current
<1>2. m_uid \in 4 .. 4 + MaxEvents /\ MaxEvents \in Nat /\ m_unscheduledEvents \in Nat
  BY DelaysAssumption DEF IInv, ListSound, TypeOK
<1>3. new \in [ts : Nat, uid : 4 .. 3 + MaxEvents] /\ new.ts = ts /\ new.uid = m_uid
  BY <1>2
<1> HIDE DEF new
<1>4. new \notin events /\ \A e \in events : e.uid < m_uid /\ e.uid \in Nat
  BY <1>2, <1>3 DEF IInv, Identified, ListSound, TypeOK
<1>5. IsFiniteSet(events') /\ Cardinality(events') = Cardinality(events) + 1
  BY <1>1, <1>4, FS_AddElement DEF IInv, Identified
<1>6. Identified'
  <2>1. \A e, f \in events' : e.uid = f.uid => e = f
    BY <1>1, <1>3, <1>4 DEF IInv, Identified
  <2>2. \A e \in events' : e.uid < m_uid'
    BY <1>1, <1>2, <1>3, <1>4
  <2> QED
    BY <1>1, <1>2, <1>5, <2>1, <2>2 DEF IInv, Identified, Shape
<1>7. TypeOK'
  <2>1. m_unscheduledEvents' \in 0 .. MaxEvents
    BY <1>1, <1>2 DEF IInv, Identified
  <2> QED
    BY <1>1, <1>2, <1>3, <2>1 DEF IInv, ListSound, TypeOK
<1>8. ListExact'
  <2>1. \A e \in events' : ~ IsExpired(e)'
    <3>1. ~ (\/ new.ts < m_currentTs'
             \/ new.ts = m_currentTs' /\ new.uid <= m_currentUid')
      BY <1>1, <1>2, <1>3 DEF IInv, Identified, Shape, ListSound, TypeOK
    <3>2. \A e \in events : ~ IsExpired(e)'
      BY <1>1 DEF IsExpired, IInv, ListSound, ListExact
    <3> QED
      BY <1>1, <3>1, <3>2 DEF IsExpired
  <2>2. m_unscheduledEvents' = Cardinality(events')
    BY <1>1, <1>5 DEF IInv, ListSound, ListExact
  <2> QED
    BY <1>1, <2>1, <2>2 DEF ListExact
<1>9. NoAbort' /\ Shape' /\ Started' /\ OnTime'
  BY <1>1 DEF IInv, ListSound, NoAbort, Shape, Started, OnTime
<1>10. NoMissedSignal'
  BY <1>1 DEF NoMissedSignal
<1>11. TargetInList'
  BY <1>1 DEF IInv, TargetInList, Waiting
<1> QED
  BY <1>6, <1>7, <1>8, <1>9, <1>10, <1>11 DEF IInv, ListSound

\* The calls of the thread of Run.
LEMMA ScheduleStep ==
  ASSUME IInv, NEW d \in Delays, Schedule(d)
  PROVE  IInv'
<1>1. d \in Nat /\ m_currentTs \in Nat
  BY RealtimeType, DelaysAssumption
<1> QED
  BY <1>1, InsertStep DEF Schedule

\* The assertion of a schedule fails: the clock is behind, in a later Run.
LEMMA AbortStep ==
  ASSUME IInv, pc' = "aborted", runs > 1, realtime < m_currentTs,
         UNCHANGED <<realtime, list, current, m_stop, m_running, condition, wait,
                     runs>>
  PROVE  IInv'
<1>1. UNCHANGED <<realtime, events, m_uid, m_unscheduledEvents, m_currentTs,
                  m_currentUid>>
  BY DEF list, current
<1>2. m_stop' \in BOOLEAN /\ m_running' \in BOOLEAN /\ condition' \in BOOLEAN
  BY Zenon DEF IInv, ListSound, TypeOK
<1>3. NoAbort' /\ OnTime' /\ Shape'
  BY <1>1, RealtimeType DEF IInv, NoAbort, OnTime, Shape
<1>4. Started'
  BY <1>1, RealtimeType DEF IInv, Started, ListSound, TypeOK
<1>5. NoMissedSignal' /\ TargetInList'
  BY DEF NoMissedSignal, TargetInList, Waiting
<1> QED
  BY <1>2, <1>3, <1>4, <1>5, MoveStep DEF Places

\* The calls of other threads: the assertion of ScheduleWithContext holds, or
\* the clock is behind.
LEMMA PostStep ==
  ASSUME IInv, NEW d \in Delays, Post(d) \/ PostRealtime(d)
  PROVE  IInv'
<1>1. d \in Nat /\ m_currentTs \in Nat /\ realtime \in Nat /\ runs \in Nat
  BY RealtimeType, DelaysAssumption
<1>2. ASSUME NEW ts \in Nat, m_currentTs <= ts \/ realtime <= ts, InsertChecked(ts),
             UNCHANGED <<realtime, current, m_stop, m_running, wait,
                         hardLimit, runs>>
      PROVE  IInv'
  <2>1. CASE ts >= m_currentTs
    <3>1. m_currentTs <= ts
      BY <1>1, <2>1
    <3>2. m_uid < 4 + MaxEvents /\ Insert(ts) /\ UNCHANGED pc
      BY <1>2, <2>1 DEF InsertChecked
    <3> QED
      BY <1>2, <3>1, <3>2, InsertStep
  <2>2. CASE ~ (ts >= m_currentTs)
    <3>1. pc' = "aborted" /\ UNCHANGED <<list, condition>>
      BY <1>2, <2>2 DEF InsertChecked
    <3>2. realtime < m_currentTs
      BY <1>1, <1>2, <2>2
    <3>3. runs > 1
      BY <1>1, <3>2 DEF IInv, OnTime
    <3> QED
      BY <1>2, <3>1, <3>2, <3>3, AbortStep
  <2> QED
    BY <2>1, <2>2
<1>3. CASE Post(d)
  <2> DEFINE ts == (IF m_running THEN realtime ELSE m_currentTs) + d
  <2>1. ts \in Nat /\ (m_currentTs <= ts \/ realtime <= ts)
    BY <1>1
  <2>2. InsertChecked(ts) /\ UNCHANGED <<realtime, current, m_stop,
                                         m_running, wait, hardLimit, runs>>
    BY <1>3 DEF Post
  <2> HIDE DEF ts
  <2> QED
    BY <1>2, <2>1, <2>2
<1>4. CASE PostRealtime(d)
  BY <1>1, <1>2, <1>4 DEF PostRealtime
<1> QED
  BY <1>3, <1>4

\* An event leaves the list: the count follows.
LEMMA RemoveFromList ==
  ASSUME IInv, NEW e \in events,
         events' = events \ {e}, m_unscheduledEvents' = m_unscheduledEvents - 1,
         UNCHANGED m_uid, m_currentUid' \in Nat, m_currentUid' < m_uid
  PROVE  /\ Identified'
         /\ m_unscheduledEvents' = Cardinality(events')
         /\ m_unscheduledEvents' \in 0 .. MaxEvents
<1>1. IsFiniteSet(events') /\ Cardinality(events') = Cardinality(events) - 1
  BY FS_RemoveElement DEF IInv, Identified
<1>2. Cardinality(events') \in Nat
  BY <1>1, FS_CardinalityType
<1>3. m_unscheduledEvents \in 0 .. MaxEvents /\ MaxEvents \in Nat /\ m_uid \in Nat
  BY DelaysAssumption DEF IInv, ListSound, TypeOK
<1>4. m_unscheduledEvents' = Cardinality(events')
  BY <1>1 DEF IInv, ListSound, ListExact
<1>5. m_unscheduledEvents' \in 0 .. MaxEvents
  BY <1>2, <1>3, <1>4
<1> QED
  BY <1>1, <1>3, <1>4, <1>5 DEF IInv, Identified

\* Remove, called by an event.
LEMMA RemoveStep ==
  ASSUME IInv, NEW e \in events, Remove(e)
  PROVE  IInv'
<1>1. /\ pc = "event" /\ events' = events \ {e}
      /\ m_unscheduledEvents' = m_unscheduledEvents - 1
      /\ UNCHANGED <<realtime, m_uid, m_currentTs, m_currentUid, m_stop,
                     m_running, condition, pc, wait, runs>>
  BY DEF Remove, current
<1>2. /\ Identified'
      /\ m_unscheduledEvents' = Cardinality(events')
      /\ m_unscheduledEvents' \in 0 .. MaxEvents
  BY <1>1, RemoveFromList DEF IInv, Identified, Shape
<1>3. TypeOK'
  BY <1>1, <1>2 DEF IInv, ListSound, TypeOK
<1>4. ListExact'
  BY <1>1, <1>2 DEF IInv, ListSound, ListExact, IsExpired, Waiting
<1>5. NoAbort' /\ Shape' /\ Started' /\ OnTime'
  BY <1>1 DEF IInv, ListSound, NoAbort, Shape, Started, OnTime
<1>6. NoMissedSignal' /\ TargetInList'
  BY <1>1 DEF NoMissedSignal, TargetInList, Waiting
<1> QED
  BY <1>2, <1>3, <1>4, <1>5, <1>6 DEF IInv, ListSound

(***************************************************************************)
(* Run                                                                     *)
(***************************************************************************)

\* Stop, the entries and exits of Run, of its loop and of an event.
LEMMA PassingStep ==
  ASSUME IInv,
         \/ Stop \/ Run \/ LoopTest \/ EventReturns \/ RunReturns
  PROVE  IInv'
<1>1. UNCHANGED <<realtime, list, current, condition, wait>>
  BY DEF Stop, Run, LoopTest, EventReturns, RunReturns
<1>2. m_stop' \in BOOLEAN /\ m_running' \in BOOLEAN /\ condition' \in BOOLEAN
  <2>1. m_stop \in BOOLEAN /\ m_running \in BOOLEAN /\ condition \in BOOLEAN
    BY DEF IInv, ListSound, TypeOK
  <2>2. /\ m_stop' \in {m_stop, TRUE, FALSE} /\ m_running' \in {m_running, TRUE, FALSE}
        /\ condition' = condition
    BY Zenon DEF Stop, Run, LoopTest, EventReturns, RunReturns
  <2> QED
    BY <2>1, <2>2, Zenon
<1>3. \/ pc' = pc /\ runs' = runs
      \/ pc' = "starting" /\ pc = "outside" /\ runs < MaxRuns /\ runs' = runs + 1
      \/ pc' \in {"stopping", "peek", "loop"} /\ pc \in {"loop", "event"} /\ runs' = runs
      \/ pc' = "outside" /\ pc = "stopping" /\ runs' = runs
  BY DEF Stop, Run, LoopTest, EventReturns, RunReturns, At
<1>4. UNCHANGED <<realtime, events, m_currentTs, m_currentUid>>
  BY <1>1 DEF list, current
<1>5. Shape' /\ Started' /\ OnTime' /\ NoAbort'
  <2>1. runs \in Nat /\ MaxRuns \in Nat
    BY RealtimeType, DelaysAssumption
  <2>2. Shape'
    BY <1>1, <1>3, <1>4, <2>1 DEF IInv, Shape
  <2>3. Started'
    BY <1>1, <1>3, <1>4, <2>1, RealtimeType DEF IInv, Started
  <2>4. OnTime'
    BY <1>1, <1>3, <1>4, <2>1 DEF IInv, OnTime
  <2>5. NoAbort'
    BY <1>1, <1>3, <1>4 DEF IInv, ListSound, NoAbort
  <2> QED
    BY <2>2, <2>3, <2>4, <2>5
<1>6. NoMissedSignal' /\ TargetInList'
  BY <1>1, <1>3, <1>4 DEF IInv, NoMissedSignal, TargetInList, Waiting, Reached
<1>7. pc' \in Places /\ (pc' = "evaluate" => events # {})
  BY <1>3 DEF IInv, ListSound, TypeOK, Places, ListExact
<1> QED
  BY <1>1, <1>2, <1>5, <1>6, <1>7, MoveStep

\* Peek finds an event, or none and waits for any.
LEMMA PeekStep ==
  ASSUME IInv, Peek
  PROVE  IInv'
<1>1. /\ pc = "peek"
      /\ IF events # {} THEN pc' = "evaluate" /\ UNCHANGED wait
         ELSE /\ pc' = "synchronize"
              /\ wait' = [NoWait EXCEPT !.for = "any", !.target = realtime + IdleDelay]
      /\ UNCHANGED <<realtime, list, current, m_stop, m_running, condition, runs>>
  BY DEF Peek
<1>2. UNCHANGED <<realtime, events, m_currentTs, m_currentUid>>
  BY <1>1 DEF list, current
<1>3. realtime \in Nat /\ IdleDelay \in Nat
  BY RealtimeType, ClockAssumption
<1>4. Shape'
  <2>1. CASE events # {}
    BY <1>1, <1>2, <2>1 DEF IInv, Shape
  <2>2. CASE events = {}
    <3>1. wait' = [for |-> "any", target |-> realtime + IdleDelay, asleep |-> 0]
      BY <1>1, <2>2 DEF NoWait
    <3>2. wait' \in [for : {"event", "any"}, target : Nat, asleep : Int]
      BY <1>3, <3>1
    <3> QED
      BY <1>1, <1>2, <3>2 DEF IInv, Shape
  <2> QED
    BY <2>1, <2>2
<1>5. Started' /\ OnTime' /\ NoAbort'
  BY <1>1, <1>2 DEF IInv, Started, OnTime, NoAbort
<1>6. NoMissedSignal' /\ TargetInList'
  <2>1. CASE events # {}
    BY <1>1, <2>1 DEF NoMissedSignal, TargetInList, Waiting
  <2>2. CASE events = {}
    <3>1. wait'.for = "any" /\ pc' = "synchronize" /\ events' = {}
      BY <1>1, <1>2, <2>2 DEF NoWait
    <3> QED
      BY <3>1 DEF NoMissedSignal, TargetInList, Waiting
  <2> QED
    BY <2>1, <2>2
<1>7. m_stop' \in BOOLEAN /\ m_running' \in BOOLEAN /\ condition' \in BOOLEAN
  BY <1>1, Zenon DEF IInv, ListSound, TypeOK
<1>8. pc' \in Places /\ (pc' = "evaluate" => events # {})
  BY <1>1 DEF Places
<1> QED
  BY <1>1, <1>4, <1>5, <1>6, <1>7, <1>8, MoveStep

\* Evaluate, with the lock held, takes the time of the head of the list.
LEMMA EvaluateStep ==
  ASSUME IInv, Evaluate
  PROVE  IInv'
<1> DEFINE t == Max({realtime, Earliest(events).ts})
<1>1. /\ pc = "evaluate" /\ pc' = "synchronize"
      /\ wait' = [NoWait EXCEPT !.target = t]
      /\ condition' = FALSE
      /\ UNCHANGED <<realtime, list, current, m_stop, m_running, runs>>
  BY DEF Evaluate, At
<1>2. UNCHANGED <<realtime, events, m_currentTs, m_currentUid>>
  BY <1>1 DEF list, current
<1>3. events # {}
  BY <1>1 DEF IInv, ListSound, ListExact
<1>4. /\ realtime \in Nat
      /\ Earliest(events) \in events /\ Earliest(events).ts \in Nat
  BY <1>3, RealtimeType, NextEvent
<1>5. t = IF realtime >= Earliest(events).ts THEN realtime ELSE Earliest(events).ts
  BY <1>4, MaxOfTwo
<1> HIDE DEF t
<1>6. t \in Nat /\ Earliest(events).ts <= t /\ (realtime >= t \/ Earliest(events).ts >= t)
  BY <1>4, <1>5
<1>7. wait' = [for |-> "event", target |-> t, asleep |-> 0]
  BY <1>1 DEF NoWait
<1>8. Shape'
  <2>1. wait' \in [for : {"event", "any"}, target : Nat, asleep : Int]
    BY <1>6, <1>7
  <2> QED
    BY <1>1, <1>2, <2>1 DEF IInv, Shape
<1>9. Started' /\ OnTime' /\ NoAbort'
  BY <1>1, <1>2 DEF IInv, Started, OnTime, NoAbort
<1>10. realtime' = realtime /\ Earliest(events)' = Earliest(events)
  BY <1>2 DEF Earliest, Before
<1>11. NoMissedSignal'
  BY <1>2, <1>6, <1>7, <1>10 DEF NoMissedSignal, Reached
<1>12. TargetInList'
  BY <1>1, <1>2, <1>4, <1>6, <1>7 DEF TargetInList
<1>13. m_stop' \in BOOLEAN /\ m_running' \in BOOLEAN /\ condition' \in BOOLEAN
  BY <1>1, Zenon DEF IInv, ListSound, TypeOK
<1>14. pc' \in Places /\ pc' # "evaluate"
  BY <1>1 DEF Places
<1> QED
  BY <1>1, <1>8, <1>9, <1>11, <1>12, <1>13, <1>14, MoveStep

\* The wait goes on in another way, for the same target.
LEMMA WaitOnStep ==
  ASSUME IInv, Waiting, pc' \in {"sleep", "endless", "spin"},
         wait' \in [for : {wait.for}, target : {wait.target}, asleep : Int],
         UNCHANGED <<realtime, list, current, m_stop, m_running, condition, runs>>
  PROVE  IInv'
<1>1. UNCHANGED <<realtime, events, m_currentTs, m_currentUid>>
  BY DEF list, current
<1>2. wait'.for = wait.for /\ wait'.target = wait.target
  OBVIOUS
<1>3. Shape'
  BY <1>1, <1>2 DEF IInv, Shape
<1>4. Started' /\ OnTime' /\ NoAbort'
  BY <1>1 DEF IInv, Started, OnTime, NoAbort, Waiting
<1>5. NoMissedSignal'
  <2>1. realtime' = realtime /\ Earliest(events)' = Earliest(events)
    BY <1>1 DEF Earliest, Before
  <2>2. NoMissedSignal /\ Waiting
    BY DEF IInv
  <2> QED
    BY <1>1, <1>2, <2>1, <2>2 DEF NoMissedSignal, Reached
<1>6. TargetInList'
  BY <1>1, <1>2 DEF IInv, TargetInList, Waiting
<1>7. m_stop' \in BOOLEAN /\ m_running' \in BOOLEAN /\ condition' \in BOOLEAN
  BY Zenon DEF IInv, ListSound, TypeOK
<1>8. pc' \in Places /\ pc' # "evaluate"
  BY DEF Places
<1> QED
  BY <1>3, <1>4, <1>5, <1>6, <1>7, <1>8, MoveStep

\* The wait ends: on completion of a wait for an event one is due.
LEMMA ReturnStep ==
  ASSUME IInv, Waiting, NEW completed \in BOOLEAN, Return(completed),
         completed => Reached(wait.target),
         UNCHANGED <<realtime, list, current, m_stop, m_running, condition, runs>>
  PROVE  IInv'
<1>1. UNCHANGED <<realtime, events, m_currentTs, m_currentUid>>
  BY DEF list, current
<1>2. /\ pc' = IF wait.for = "any" THEN "loop" ELSE IF completed THEN "take" ELSE "evaluate"
      /\ wait' = NoWait
  BY DEF Return
<1>3. Shape'
  BY <1>1, <1>2 DEF IInv, Shape, NoWait
<1>4. Started' /\ OnTime' /\ NoAbort'
  BY <1>1, <1>2 DEF IInv, Started, OnTime, NoAbort, Waiting
<1>5. NoMissedSignal'
  BY <1>2 DEF NoMissedSignal, Waiting
<1>6. wait.for # "any" => \E e \in events : e.ts <= wait.target
  BY DEF IInv, TargetInList, Shape
<1>7. TargetInList'
  <2>1. ASSUME pc' = "take" PROVE \E e \in events : e.ts <= realtime
    <3>1. wait.for # "any" /\ completed
      BY <1>2, <2>1
    <3>2. realtime >= wait.target
      BY <3>1 DEF Reached
    <3>3. PICK e \in events : e.ts <= wait.target
      BY <1>6, <3>1
    <3>4. e.ts \in Nat /\ wait.target \in Nat /\ realtime \in Nat
      BY RealtimeType DEF IInv, ListSound, TypeOK, Shape
    <3> QED
      BY <3>2, <3>3, <3>4
  <2> QED
    BY <1>1, <1>2, <2>1 DEF TargetInList, Waiting
<1>8. m_stop' \in BOOLEAN /\ m_running' \in BOOLEAN /\ condition' \in BOOLEAN
  BY Zenon DEF IInv, ListSound, TypeOK
<1>9. pc' \in Places /\ (pc' = "evaluate" => events # {})
  BY <1>2, <1>6 DEF Places
<1> QED
  BY <1>3, <1>4, <1>5, <1>7, <1>8, <1>9, MoveStep

\* DoSynchronize, its sleep and its spinning.
LEMMA SynchronizeStep ==
  ASSUME IInv, Synchronize \/ SleepEnds \/ SpinEnds
  PROVE  IInv'
<1>1. wait \in [for : {wait.for}, target : {wait.target}, asleep : Int]
  BY DEF IInv, Shape
<1>2. CASE Synchronize
  <2> DEFINE jiffies == Max({0, wait.target - realtime}) \div Jiffy
             t == realtime + (jiffies - 3) * Jiffy
  <2>1. wait.target \in Nat /\ realtime \in Nat /\ Jiffy \in Nat \ {0}
    BY RealtimeType, ClockAssumption DEF IInv, Shape
  <2>2. Max({0, wait.target - realtime}) \in Nat
    BY <2>1, MaxOfTwo
  <2>3. jiffies \in Nat
    BY <2>1, <2>2
  <2>4. t \in Int
    BY <2>1, <2>3
  <2>5. Waiting
    BY <1>2 DEF Synchronize, Waiting
  <2>6. UNCHANGED <<realtime, list, current, m_stop, m_running, condition, runs>>
    BY <1>2 DEF Synchronize
  <2>7. \/ pc' \in {"sleep", "endless"} /\ wait' = [wait EXCEPT !.asleep = t]
        \/ pc' = "spin" /\ UNCHANGED wait
    BY <1>2 DEF Synchronize
  <2> HIDE DEF jiffies, t
  <2>8. wait' \in [for : {wait.for}, target : {wait.target}, asleep : Int]
    BY <1>1, <2>4, <2>7
  <2> QED
    BY <2>5, <2>6, <2>7, <2>8, WaitOnStep
<1>3. CASE SleepEnds
  <2>1. /\ Waiting
        /\ UNCHANGED <<realtime, list, current, m_stop, m_running, condition, runs>>
    BY <1>3 DEF SleepEnds, Waiting
  <2>2. CASE condition /\ Return(FALSE)
    BY <2>1, <2>2, ReturnStep
  <2>3. CASE pc' = "spin" /\ UNCHANGED wait
    BY <1>1, <2>1, <2>3, WaitOnStep
  <2> QED
    BY <1>3, <2>2, <2>3 DEF SleepEnds
<1>4. CASE SpinEnds
  <2>1. /\ Waiting
        /\ UNCHANGED <<realtime, list, current, m_stop, m_running, condition, runs>>
    BY <1>4 DEF SpinEnds, Waiting
  <2>2. CASE Reached(wait.target) /\ Return(TRUE)
    BY <2>1, <2>2, ReturnStep
  <2>3. CASE Return(FALSE)
    BY <2>1, <2>3, ReturnStep
  <2> QED
    BY <1>4, <2>2, <2>3 DEF SpinEnds
<1> QED
  BY <1>2, <1>3, <1>4

\* Time passes.
LEMMA TickStep ==
  ASSUME IInv, Tick
  PROVE  IInv'
<1>1. /\ pc # "aborted" /\ (realtime < Horizon \/ realtime >= Epoch)
      /\ realtime' = realtime + 1
      /\ UNCHANGED <<events, m_uid, m_unscheduledEvents, m_currentTs,
                     m_currentUid, m_stop, m_running, condition, pc, wait, runs>>
  BY DEF Tick, Alive, list, current
<1>2. /\ Epoch \in Nat /\ Horizon \in Nat /\ Epoch > Horizon
      /\ m_currentTs \in Nat /\ realtime \in Nat
  BY RealtimeType
<1>3. realtime' = realtime + 1
  BY <1>1
<1>4. TypeOK'
  BY <1>1, <1>2 DEF IInv, ListSound, TypeOK
<1>5. ListExact' /\ NoAbort' /\ Shape' /\ Identified'
  BY <1>1 DEF IInv, ListSound, ListExact, IsExpired, NoAbort, Waiting, Shape, Identified
<1>6. Started'
  BY <1>1, <1>2, <1>3 DEF IInv, Started
<1>7. OnTime'
  BY <1>1, <1>2, <1>3 DEF IInv, OnTime
<1>8. Earliest(events)' = Earliest(events)
  BY <1>1 DEF Earliest, Before
<1>9. NoMissedSignal'
  <2>1. wait.target \in Nat
    BY DEF IInv, Shape
  <2>2. wait.for = "event" /\ Reached(wait.target) => realtime >= wait.target
    BY DEF Reached
  <2>3. wait.for = "event" /\ realtime >= wait.target => Reached(wait.target)'
    BY <1>1, <1>2, <1>3, <2>1 DEF Reached
  <2> QED
    BY <1>1, <1>8, <2>2, <2>3 DEF IInv, NoMissedSignal, Waiting
<1>10. TargetInList'
  <2>1. \A e \in events : e.ts \in Nat
    BY DEF IInv, ListSound, TypeOK
  <2>2. \A e \in events : e.ts <= realtime => e.ts <= realtime'
    BY <1>2, <1>3, <2>1
  <2> QED
    BY <1>1, <2>2 DEF IInv, TargetInList, Waiting
<1> QED
  BY <1>4, <1>5, <1>6, <1>7, <1>9, <1>10 DEF IInv, ListSound

\* The clock gets its origin; in the first Run nothing has been executed.
LEMMA SetOriginStep ==
  ASSUME IInv, SetOrigin
  PROVE  IInv'
<1>1. /\ pc = "starting" /\ pc' = "loop" /\ realtime' = 0
      /\ UNCHANGED <<events, m_uid, m_unscheduledEvents, m_currentTs,
                     m_currentUid, m_stop, m_running, condition, wait, runs>>
  BY DEF SetOrigin, At, list, current
<1>2. Epoch \in Nat /\ Epoch > 0 /\ Horizon \in Nat /\ runs \in Nat /\ runs # 0
  BY <1>1, RealtimeType DEF IInv, Started
<1>3. runs <= 1 => m_currentTs = 0
  BY <1>1, <1>2 DEF IInv, Started
<1>4. TypeOK'
  BY <1>1, <1>2 DEF IInv, ListSound, TypeOK
<1>5. ListExact' /\ NoAbort' /\ Shape' /\ Identified'
  BY <1>1 DEF IInv, ListSound, ListExact, IsExpired, NoAbort, Waiting, Shape, Identified
<1>6. Started' /\ OnTime'
  BY <1>1, <1>2, <1>3 DEF IInv, Started, OnTime
<1>7. NoMissedSignal' /\ TargetInList'
  BY <1>1 DEF NoMissedSignal, TargetInList, Waiting
<1> QED
  BY <1>4, <1>5, <1>6, <1>7 DEF IInv, ListSound

\* ProcessOneEvent takes the head of the list, whichever that is by now: it is
\* due, and not past.
LEMMA TakeStep ==
  ASSUME IInv, Take
  PROVE  IInv'
<1> DEFINE next == Earliest(events)
<1>1. /\ pc = "take" /\ events' = events \ {next}
      /\ m_unscheduledEvents' = m_unscheduledEvents - 1
      /\ m_currentTs' = next.ts /\ m_currentUid' = next.uid
      /\ pc' \in {"aborted", "fatal", "event"}
      /\ pc' = "aborted" => next.ts < m_currentTs
      /\ UNCHANGED <<realtime, m_uid, m_stop, m_running, condition, wait, runs>>
  BY DEF Take
<1>2. events # {} /\ realtime <= Horizon /\ runs # 0
  BY <1>1 DEF IInv, ListSound, ListExact, Started
<1>3. /\ next \in events
      /\ \A f \in events \ {next} : Before(next, f)
      /\ \A f \in events : next.ts <= f.ts
      /\ next.ts \in Nat
  BY <1>2, NextEvent
<1> HIDE DEF next
<1>4. \A f \in events : f.ts \in Nat /\ f.uid \in Nat
  BY DelaysAssumption DEF IInv, ListSound, TypeOK
<1>5. realtime \in Nat /\ m_currentTs \in Nat /\ realtime <= Horizon /\ Horizon \in Nat
  BY <1>2, RealtimeType, ClockAssumption
<1>6. next.ts <= realtime
  <2>1. PICK f \in events : f.ts <= realtime
    BY <1>1 DEF IInv, TargetInList
  <2> QED
    BY <1>3, <1>4, <1>5, <2>1
<1>7. next.ts >= m_currentTs
  BY <1>3, <1>5 DEF IInv, ListSound, ListExact, IsExpired
<1>8. pc' \in {"fatal", "event"}
  BY <1>1, <1>3, <1>5, <1>7
<1>9. next.uid \in Nat /\ next.uid < m_uid
  BY <1>3, <1>4 DEF IInv, Identified
<1>10. /\ Identified'
       /\ m_unscheduledEvents' = Cardinality(events')
       /\ m_unscheduledEvents' \in 0 .. MaxEvents
  BY <1>1, <1>3, <1>9, RemoveFromList
<1>11. TypeOK'
  <2>1. m_currentTs' \in 0 .. Horizon
    BY <1>1, <1>3, <1>5, <1>6
  <2>2. m_stop' \in BOOLEAN /\ m_running' \in BOOLEAN /\ condition' \in BOOLEAN
    BY <1>1, Zenon DEF IInv, ListSound, TypeOK
  <2>3. pc' \in Places
    BY <1>8 DEF Places
  <2> QED
    BY <1>1, <1>10, <2>1, <2>2, <2>3 DEF IInv, ListSound, TypeOK, Places
<1>12. ListExact'
  <2>1. \A f \in events' : ~ IsExpired(f)'
    BY <1>1, <1>3, <1>4, <1>9 DEF IsExpired, Before
  <2> QED
    BY <1>8, <1>10, <2>1 DEF ListExact, Waiting
<1>13. NoAbort' /\ NoMissedSignal' /\ TargetInList'
  BY <1>8 DEF NoAbort, NoMissedSignal, TargetInList, Waiting
<1>14. Shape'
  BY <1>1, <1>9 DEF IInv, Shape
<1>15. realtime' = realtime /\ Epoch > Horizon /\ Epoch \in Nat
  BY <1>1, RealtimeType
<1>16. Started' /\ OnTime'
  BY <1>1, <1>2, <1>5, <1>6, <1>8, <1>15 DEF IInv, Started, OnTime
<1> QED
  BY <1>10, <1>11, <1>12, <1>13, <1>14, <1>16 DEF IInv, ListSound

\* Every step.
LEMMA NextIInv ==
  ASSUME IInv, [Next]_vars
  PROVE  IInv'
<1>1. CASE UNCHANGED vars
  <2>1. UNCHANGED <<realtime, events, m_uid, m_currentTs, m_currentUid,
                    m_unscheduledEvents, m_stop, m_running, condition, pc, wait, runs>>
    BY <1>1 DEF vars
  <2>2. UNCHANGED <<realtime, list, current>>
    BY <2>1 DEF list, current
  <2>3. m_stop' \in BOOLEAN /\ m_running' \in BOOLEAN /\ condition' \in BOOLEAN
    BY <2>1, Zenon DEF IInv, ListSound, TypeOK
  <2>4. pc' \in Places /\ (pc' = "evaluate" => events # {})
    BY <2>1 DEF IInv, ListSound, TypeOK, ListExact, Places
  <2>5. Shape' /\ Started' /\ OnTime' /\ NoAbort' /\ TargetInList'
    BY <2>1 DEF IInv, ListSound, Shape, Started, OnTime, NoAbort, TargetInList, Waiting
  <2>6. NoMissedSignal'
    BY <2>1 DEF IInv, NoMissedSignal, Reached, Waiting, Earliest, Before
  <2> QED
    BY <2>2, <2>3, <2>4, <2>5, <2>6, MoveStep
<1>2. CASE Next
  <2>1. CASE MainStep
    BY <2>1, SetOriginStep, PassingStep, PeekStep, EvaluateStep, SynchronizeStep,
       TakeStep DEF MainStep
  <2>2. CASE Run \/ Stop
    BY <2>2, PassingStep
  <2>3. CASE Tick
    BY <2>3, TickStep
  <2>4. CASE \E d \in Delays : Schedule(d) \/ Post(d) \/ PostRealtime(d)
    BY <2>4, ScheduleStep, PostStep
  <2>5. CASE \E e \in events : Remove(e)
    BY <2>5, RemoveStep
  <2> QED
    BY <1>2, <2>1, <2>2, <2>3, <2>4, <2>5 DEF Next
<1> QED
  BY <1>1, <1>2

\* The invariant holds in every reachable state.
LEMMA Invariance == Spec => []IInv
<1>1. Init => IInv
  BY InitIInv
<1>2. IInv /\ [Next]_vars => IInv'
  BY NextIInv
<1> QED
  BY <1>1, <1>2, PTL DEF Spec

(***************************************************************************)
(* The theorems                                                            *)
(***************************************************************************)

\* Whatever other threads schedule while the thread of Run waits, and whenever
\* they do it between the critical sections of ProcessOneEvent, the wait is not
\* longer than the list calls for, or the condition that ends it is set.
THEOREM NoMissedSignalCorrect == Spec => []NoMissedSignal
<1>1. IInv => NoMissedSignal
  BY DEF IInv
<1> QED
  BY <1>1, Invariance, PTL

\* ProcessOneEvent executes no event before its time on the wall clock, though
\* the event it takes need not be the one it waited for.
THEOREM NeverEarlyCorrect == Spec => []NeverEarly
<1>1. IInv => NeverEarly
  BY RealtimeType DEF IInv, OnTime, NeverEarly
<1> QED
  BY <1>1, Invariance, PTL

\* m_unscheduledEvents and the expiry of events are right in any number of calls
\* of Run, the assertion of ProcessOneEvent never fails, and those of the
\* schedules fail only while the clock, set back by a later SetOrigin, is behind
\* m_currentTs.
THEOREM ListSoundCorrect == Spec => []ListSound
<1>1. IInv => ListSound
  BY DEF IInv
<1> QED
  BY <1>1, Invariance, PTL
=============================================================================
