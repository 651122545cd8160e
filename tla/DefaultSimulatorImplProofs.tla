--------------------- MODULE DefaultSimulatorImplProofs ---------------------
(***************************************************************************)
(* Proofs about DefaultSimulatorImpl for any delays, any number of events, *)
(* of events posted by other threads, and of calls of Run.                 *)
(***************************************************************************)
EXTENDS DefaultSimulatorImpl, SequenceTheorems, FunctionTheorems,
        FiniteSetTheorems, WellFoundedInduction, TLAPS

(***************************************************************************)
(* The order of events                                                     *)
(***************************************************************************)

\* A set of natural numbers has a smallest element: its elements are compared
\* by the sets of the numbers below them, which are finite.
LEMMA SmallestExists ==
  ASSUME NEW T \in SUBSET Nat, T # {}
  PROVE  \E n \in T : \A m \in T : n <= m
<1> DEFINE R == OpToRel(<, Nat)
<1>1. \E n \in T : \A m \in T : ~ (<<m, n>> \in R)
  BY NatLessThanWellFounded, WFMin, Zenon
<1>2. PICK n \in T : \A m \in T : ~ (<<m, n>> \in R)
  BY <1>1, Zenon
<1>3. R = {p \in Nat \X Nat : p[1] < p[2]}
  BY Zenon DEF OpToRel
<1> HIDE DEF R
<1>4. \A m \in T : <<m, n>> \in Nat \X Nat /\ ~ (m < n)
  BY <1>2, <1>3
<1>5. \A m \in T : n \in Nat /\ m \in Nat /\ ~ (m < n)
  BY <1>4
<1>6. \A m \in T : n <= m
  BY <1>5
<1> QED
  BY <1>6, Zenon

\* The keys of the events in S are of natural numbers and tell them apart.
Keyed(S) ==
  /\ \A e \in S : e.ts \in Nat /\ e.uid \in Nat
  /\ \A e, f \in S : e.ts = f.ts /\ e.uid = f.uid => e = f

\* A scheduler that holds events has one to hand out next, and no event of the
\* scheduler is earlier.
LEMMA EarliestExists ==
  ASSUME NEW S, S # {}, Keyed(S)
  PROVE  /\ Earliest(S) \in S
         /\ \A f \in S \ {Earliest(S)} : Before(Earliest(S), f)
         /\ \A f \in S : Earliest(S).ts <= f.ts
<1> DEFINE times == {e.ts : e \in S}
<1>1. times \in SUBSET Nat /\ times # {}
  BY DEF Keyed
<1>2. PICK t \in times : \A u \in times : t <= u
  BY <1>1, SmallestExists, Zenon
<1> DEFINE uids == {e.uid : e \in {f \in S : f.ts = t}}
<1>3. uids \in SUBSET Nat /\ uids # {}
  BY DEF Keyed
<1>4. PICK u \in uids : \A v \in uids : u <= v
  BY <1>3, SmallestExists, Zenon
<1>5. PICK e \in S : e.ts = t /\ e.uid = u
  OBVIOUS
<1>6. \A f \in S \ {e} : Before(e, f)
  <2> SUFFICES ASSUME NEW f \in S, f # e PROVE Before(e, f)
    OBVIOUS
  <2>1. t <= f.ts /\ f.ts \in Nat /\ f.uid \in Nat /\ t \in Nat /\ u \in Nat
    BY <1>2, <1>5 DEF Keyed
  <2>2. CASE f.ts = t
    <3>1. u <= f.uid
      BY <1>4, <2>2
    <3>2. f.uid # u
      BY <1>5, <2>2 DEF Keyed
    <3> QED
      BY <1>5, <2>1, <2>2, <3>1, <3>2 DEF Before
  <2>3. CASE f.ts # t
    BY <1>5, <2>1, <2>3 DEF Before
  <2> QED
    BY <2>2, <2>3
<1>7. /\ Earliest(S) \in S
      /\ \A f \in S \ {Earliest(S)} : Before(Earliest(S), f)
  BY <1>6 DEF Earliest
<1>8. \A f \in S : Earliest(S).ts <= f.ts
  BY <1>7 DEF Before, Keyed
<1> QED
  BY <1>7, <1>8

(***************************************************************************)
(* The inductive invariant                                                 *)
(***************************************************************************)

\* Types that TypeOK leaves open; every id in use has been handed out.
Used == FirstUid .. m_uid - 1
Shape ==
  /\ cancelled \subseteq Used /\ ran \subseteq Used
  /\ m_destroyEvents \in Seq(Used)
  /\ m_currentUid < m_uid
  /\ seen \in Nat
  /\ IsFiniteSet(events)

\* Ids tell the events of the scheduler apart, and the destroy events; no event
\* is both, and none that another thread posted has an id that Schedule returned.
Identified ==
  /\ \A e, f \in events : e.uid = f.uid => e = f
  /\ \A i, j \in DOMAIN m_destroyEvents : m_destroyEvents[i] = m_destroyEvents[j] => i = j
  /\ \A i \in DOMAIN m_destroyEvents :
       /\ \A e \in events : e.uid # m_destroyEvents[i]
       /\ \A id \in ids : id.uid # m_destroyEvents[i]
  /\ \A e \in events : e.post # 0 => \A id \in ids : id.uid # e.uid

\* Is a key past the one of the current event?
Later(k) == \/ m_currentTs < k.ts
            \/ m_currentTs = k.ts /\ m_currentUid < k.uid

\* The events of the scheduler are in the future, and so is an id only as long
\* as its event is there or it has been cancelled.
Future ==
  /\ \A e \in events : Later(e)
  /\ \A id \in ids : Later(id) /\ id.uid \notin cancelled =>
       \E e \in events : e.ts = id.ts /\ e.uid = id.uid

\* What ran is neither in the scheduler nor in the list of destroy events, and
\* nobody has cancelled it.
NotAgain ==
  /\ ran \cap cancelled = {}
  /\ \A e \in events : e.uid \notin ran
  /\ \A i \in DOMAIN m_destroyEvents : m_destroyEvents[i] \notin ran

\* The list of the other threads is the end of what they have posted so far, and
\* there are ids for it.
Merged == Len(posts) - Len(posted)
PostList ==
  /\ Len(posted) <= Len(posts) /\ Len(posts) <= MaxPosts
  /\ \A i \in DOMAIN posted : /\ posted[i].post = Merged + i
                              /\ posted[i].delay = posts[Merged + i]
  /\ posted # <<>> => ~ m_eventsWithContextEmpty
  /\ m_uid + Len(posted) <= LastUid + Len(posts)

\* What was merged has run or is in the scheduler, once, and is not cancelled.
PostPlaces ==
  /\ ranPosts \subseteq 1 .. Merged
  /\ \A e \in events : e.post # 0 => /\ e.post \in 1 .. Merged
                                     /\ e.post \notin ranPosts
                                     /\ e.uid \notin cancelled
  /\ \A n \in 1 .. Merged : n \in ranPosts \/ \E e \in events : e.post = n
  /\ \A e, f \in events : e.post # 0 /\ e.post = f.post => e = f

\* The time at which a posted event was merged.
MergeTime(e) == e.ts - posts[e.post]

\* Posted events are merged at the current time and in the order they were posted.
PostOrder ==
  /\ \A e \in events : e.post # 0 => MergeTime(e) <= m_currentTs
  /\ \A e, f \in events : e.post # 0 /\ e.post < f.post =>
       e.uid < f.uid /\ MergeTime(e) <= MergeTime(f)

\* What the last test of the flag saw is merged before the loop goes on.
SeenMerged ==
  /\ seen <= Len(posts)
  /\ pc = "loop" => seen <= Merged

IInv == /\ TypeOK /\ CountExact /\ Shape /\ Identified /\ Future /\ NotAgain
        /\ PostList /\ PostPlaces /\ PostOrder /\ SeenMerged /\ PostsInOrder

Places == {"outside", "merge", "swap", "loop", "event", "destroy",
           "destroyEvent", "destroyed"}

(***************************************************************************)
(* Consequences                                                            *)
(***************************************************************************)

\* The numbers of the simulator.
LEMMA Numbers ==
  ASSUME IInv
  PROVE  /\ MaxEvents \in Nat /\ MaxPosts \in Nat /\ Delays \subseteq Nat
         /\ FirstUid = 4 /\ LastUid \in Nat /\ LastUid = 4 + MaxEvents
         /\ m_uid \in Nat /\ m_uid >= 4
         /\ m_currentTs \in Nat /\ m_currentUid \in Nat
         /\ Len(posts) \in Nat /\ Len(posted) \in Nat /\ Merged \in Nat
         /\ DOMAIN posts = 1 .. Len(posts) /\ DOMAIN posted = 1 .. Len(posted)
         /\ \A i \in 1 .. Len(posts) : posts[i] \in Nat
<1>1. /\ MaxEvents \in Nat /\ MaxPosts \in Nat /\ Delays \subseteq Nat
      /\ FirstUid = 4 /\ LastUid = 4 + MaxEvents
  BY SimulatorAssumption DEF FirstUid, LastUid
<1>2. m_uid \in FirstUid .. LastUid + MaxPosts
  BY DEF IInv, TypeOK
<1>3. m_uid \in Nat /\ m_uid >= 4
  BY <1>1, <1>2
<1>4. /\ m_currentTs \in Nat /\ m_currentUid \in Nat
      /\ posts \in Seq(Delays)
      /\ posted \in Seq([delay : Delays, post : 1 .. MaxPosts])
  BY DEF IInv, TypeOK
<1>5. /\ Len(posts) \in Nat /\ Len(posted) \in Nat
      /\ DOMAIN posts = 1 .. Len(posts) /\ DOMAIN posted = 1 .. Len(posted)
      /\ \A i \in 1 .. Len(posts) : posts[i] \in Delays
  BY <1>4
<1>6. Merged \in Nat
  BY <1>5 DEF IInv, PostList, Merged
<1>7. \A i \in 1 .. Len(posts) : posts[i] \in Nat
  BY <1>1, <1>5
<1>8. LastUid \in Nat
  BY <1>1
<1> QED
  BY <1>1, <1>3, <1>4, <1>5, <1>6, <1>7, <1>8, Zenon

\* The keys of the events of the scheduler and of the ids.
LEMMA Keys ==
  ASSUME IInv
  PROVE  /\ \A e \in events : /\ e.ts \in Nat /\ e.uid \in Nat /\ e.post \in Nat
                              /\ e.uid < m_uid /\ e.uid \in Used
         /\ \A id \in ids : /\ id.ts \in Nat /\ id.uid \in Nat
                            /\ id.uid < m_uid /\ id.uid \in Used
         /\ m_uid \notin Used
         /\ \A n \in Used : n \in Nat /\ n < m_uid
         /\ \A n \in Used : n \in FirstUid .. m_uid
<1>1. m_uid \in Nat /\ FirstUid = 4 /\ MaxPosts \in Nat
  BY Numbers
<1>2. /\ events \subseteq [ts : Nat, uid : FirstUid .. m_uid - 1, post : 0 .. MaxPosts]
      /\ ids \subseteq [ts : Nat, uid : FirstUid .. m_uid - 1]
  BY DEF IInv, TypeOK
<1>3. /\ \A e \in events : e.ts \in Nat /\ e.uid \in Used /\ e.post \in Nat
      /\ \A id \in ids : id.ts \in Nat /\ id.uid \in Used
  BY <1>1, <1>2 DEF Used
<1>4. \A n \in Used : n \in Nat /\ n < m_uid /\ n \in FirstUid .. m_uid
  BY <1>1 DEF Used
<1> QED
  BY <1>1, <1>3, <1>4 DEF Used

\* The head of the scheduler.
LEMMA NextEvent ==
  ASSUME IInv, events # {}
  PROVE  /\ Earliest(events) \in events
         /\ \A f \in events \ {Earliest(events)} : Before(Earliest(events), f)
<1>1. Keyed(events)
  BY Keys DEF Keyed, IInv, Identified
<1> QED
  BY <1>1, EarliestExists

\* IsExpired answers by the key and the mark alone.
LEMMA ExpiredByKey ==
  ASSUME IInv, NEW id \in ids
  PROVE  IsExpired(id) <=> ~ Later(id) \/ id.uid \in cancelled
BY Numbers, Keys DEF IsExpired, Later

\* The invariant holds when the program starts.
LEMMA InitIInv == Init => IInv
<1> SUFFICES ASSUME Init PROVE IInv
  OBVIOUS
<1>1. MaxEvents \in Nat /\ MaxPosts \in Nat /\ FirstUid = 4 /\ LastUid = 4 + MaxEvents
  BY SimulatorAssumption DEF FirstUid, LastUid
<1>2. TypeOK
  BY <1>1 DEF Init, TypeOK
<1>3. CountExact /\ IsFiniteSet(events)
  BY FS_EmptySet DEF Init, CountExact
<1>4. Shape
  BY <1>1, <1>3 DEF Init, Shape, Used
<1>5. Identified /\ Future /\ NotAgain
  BY DEF Init, Identified, Future, NotAgain
<1>6. Len(posts) = 0 /\ Len(posted) = 0 /\ Merged = 0
  BY DEF Init, Merged
<1>7. PostList /\ PostPlaces /\ PostOrder /\ SeenMerged /\ PostsInOrder
  BY <1>1, <1>6 DEF Init, PostList, PostPlaces, PostOrder, SeenMerged, PostsInOrder
<1> QED
  BY <1>2, <1>3, <1>4, <1>5, <1>7 DEF IInv

(***************************************************************************)
(* Steps that leave the posted events where they are                       *)
(***************************************************************************)

\* Nothing changes for the events of other threads if those in the scheduler
\* stay and are not cancelled.
LEMMA PostsFrame ==
  ASSUME IInv, UNCHANGED <<threadVars, ranPosts, m_currentTs>>,
         \A e : e.post # 0 => (e \in events' <=> e \in events),
         \A e \in events : e.post # 0 /\ e.uid \notin cancelled => e.uid \notin cancelled',
         m_uid' + Len(posted) <= LastUid + Len(posts)
  PROVE  PostList' /\ PostPlaces' /\ PostOrder' /\ PostsInOrder' /\ Merged' = Merged
<1>1. UNCHANGED <<posted, m_eventsWithContextEmpty, posts>>
  BY DEF threadVars
<1>2. Merged' = Merged
  BY <1>1 DEF Merged
<1>3. PostList'
  BY <1>1, <1>2 DEF IInv, PostList
<1>4. PostPlaces'
  <2>1. \A n \in 1 .. Merged : n # 0
    BY Numbers
  <2>2. \A n \in 1 .. Merged : n \in ranPosts \/ \E e \in events' : e.post = n
    BY <2>1 DEF IInv, PostPlaces
  <2>3. \A e \in events' : e.post # 0 => /\ e.post \in 1 .. Merged
                                         /\ e.post \notin ranPosts
                                         /\ e.uid \notin cancelled'
    BY DEF IInv, PostPlaces
  <2>4. \A e, f \in events' : e.post # 0 /\ e.post = f.post => e = f
    BY DEF IInv, PostPlaces
  <2> QED
    BY <1>2, <2>2, <2>3, <2>4 DEF IInv, PostPlaces
<1>5. PostOrder'
  <2>1. \A e : MergeTime(e)' = MergeTime(e)
    BY <1>1 DEF MergeTime
  <2>2. \A e \in events' : e.post # 0 => MergeTime(e) <= m_currentTs'
    BY DEF IInv, PostOrder
  <2>3. \A e, f \in events' : e.post # 0 /\ e.post < f.post =>
          e.uid < f.uid /\ MergeTime(e) <= MergeTime(f)
    <3> SUFFICES ASSUME NEW e \in events', NEW f \in events', e.post # 0, e.post < f.post
                 PROVE  e.uid < f.uid /\ MergeTime(e) <= MergeTime(f)
      OBVIOUS
    <3>1. e \in events /\ e.post \in Nat
      BY Keys
    <3>2. f.post # 0
      BY <3>1, Keys
    <3> QED
      BY <3>1, <3>2 DEF IInv, PostOrder
  <2> QED
    BY <2>1, <2>2, <2>3 DEF PostOrder
<1>6. PostsInOrder'
  BY <1>1 DEF IInv, PostsInOrder
<1> QED
  BY <1>2, <1>3, <1>4, <1>5, <1>6

\* A step that only moves the main thread.
LEMMA QuietStep ==
  ASSUME IInv, UNCHANGED <<simVars, clock, threadVars, m_destroyEvents, cancelled,
                           ids, ran, ranPosts>>,
         pc' \in Places, seen' \in Nat, SeenMerged'
  PROVE  IInv'
<1>1. UNCHANGED <<events, m_uid, m_unscheduledEvents, m_currentTs, m_currentUid,
                  posted, m_eventsWithContextEmpty, posts>>
  BY DEF simVars, clock, threadVars
<1>2. TypeOK' /\ CountExact' /\ Shape'
  BY <1>1 DEF IInv, TypeOK, Places, CountExact, Shape, Used
<1>3. Identified' /\ Future' /\ NotAgain'
  BY <1>1 DEF IInv, Identified, Future, NotAgain, Later
<1>4. m_uid' + Len(posted) <= LastUid + Len(posts)
  BY <1>1 DEF IInv, PostList
<1>5. PostList' /\ PostPlaces' /\ PostOrder' /\ PostsInOrder'
  BY <1>1, <1>4, PostsFrame
<1> QED
  BY <1>2, <1>3, <1>5 DEF IInv

\* Stop, Run and its loop, the returns, and the test of the flag: it is not set
\* when there is a posted event.
LEMMA PassingStep ==
  ASSUME IInv,
         \/ Stop \/ Run \/ MergeTest \/ EventReturns \/ RunReturns
         \/ DestroyEventReturns \/ UNCHANGED vars
  PROVE  IInv'
<1>1. UNCHANGED <<simVars, clock, threadVars, m_destroyEvents, cancelled, ids,
                  ran, ranPosts>>
  BY DEF Stop, Run, MergeTest, EventReturns, RunReturns, DestroyEventReturns, vars
<1>2. pc' \in Places
  BY DEF Stop, Run, MergeTest, EventReturns, RunReturns, DestroyEventReturns, vars,
         Places, IInv, TypeOK
<1>3. \/ seen' = seen /\ (pc' = "loop" => pc = "loop")
      \/ seen' = Len(posts) /\ (pc' = "loop" => m_eventsWithContextEmpty)
  BY DEF Stop, Run, MergeTest, EventReturns, RunReturns, DestroyEventReturns, vars
<1>4. Len(posts)' = Len(posts) /\ Merged' = Merged
  BY <1>1 DEF threadVars, Merged
<1>5. seen' \in Nat /\ SeenMerged'
  <2>1. CASE seen' = seen /\ (pc' = "loop" => pc = "loop")
    BY <1>4, <2>1 DEF IInv, Shape, SeenMerged
  <2>2. CASE seen' = Len(posts) /\ (pc' = "loop" => m_eventsWithContextEmpty)
    <3>1. m_eventsWithContextEmpty => Merged = Len(posts)
      <4>1. m_eventsWithContextEmpty => posted = <<>>
        BY DEF IInv, PostList
      <4> QED
        BY <4>1, Numbers DEF Merged
    <3>2. Len(posts) \in Nat
      BY Numbers
    <3> QED
      BY <1>4, <2>2, <3>1, <3>2 DEF SeenMerged
  <2> QED
    BY <1>3, <2>1, <2>2
<1> QED
  BY <1>1, <1>2, <1>5, QuietStep

\* Schedule.
LEMMA ScheduleStep ==
  ASSUME IInv, NEW d \in Delays, Schedule(d)
  PROVE  IInv'
<1> DEFINE id == [ts |-> m_currentTs + d, uid |-> m_uid]
           new == [ts |-> m_currentTs + d, uid |-> m_uid, post |-> 0]
<1>1. /\ m_uid < LastUid
      /\ events' = events \cup {new} /\ ids' = ids \cup {id}
      /\ m_uid' = m_uid + 1
      /\ m_unscheduledEvents' = m_unscheduledEvents + 1
      /\ UNCHANGED <<m_currentTs, m_currentUid, posted, m_eventsWithContextEmpty,
                     posts, m_destroyEvents, cancelled, pc, ran, ranPosts, seen>>
      /\ UNCHANGED threadVars
  BY DEF Schedule, clock, threadVars
<1>2. /\ MaxEvents \in Nat /\ MaxPosts \in Nat /\ d \in Nat /\ FirstUid = 4
      /\ LastUid \in Nat /\ m_uid \in Nat /\ m_uid >= 4
      /\ m_currentTs \in Nat /\ m_currentUid \in Nat
  BY Numbers
<1>3. /\ new \in [ts : Nat, uid : FirstUid .. m_uid' - 1, post : 0 .. MaxPosts]
      /\ id \in [ts : Nat, uid : FirstUid .. m_uid' - 1]
      /\ new.ts = id.ts /\ id.ts >= m_currentTs
      /\ new.uid = m_uid /\ id.uid = m_uid /\ new.post = 0
  BY <1>1, <1>2
<1> HIDE DEF new, id
<1>4. new \notin events
  BY <1>3, Keys
<1>5. TypeOK'
  <2>1. FirstUid .. m_uid - 1 \subseteq FirstUid .. m_uid' - 1
    BY <1>1, <1>2
  <2>2. /\ events' \subseteq [ts : Nat, uid : FirstUid .. m_uid' - 1, post : 0 .. MaxPosts]
        /\ ids' \subseteq [ts : Nat, uid : FirstUid .. m_uid' - 1]
    BY <1>1, <1>3, <2>1 DEF IInv, TypeOK
  <2>3. m_uid' \in FirstUid .. LastUid + MaxPosts
    BY <1>1, <1>2
  <2> QED
    BY <1>1, <2>2, <2>3 DEF IInv, TypeOK
<1>6. IsFiniteSet(events') /\ CountExact'
  BY <1>1, <1>4, FS_AddElement DEF IInv, Shape, CountExact
<1>7. Shape'
  <2>1. Used \subseteq Used' /\ Used' = FirstUid .. m_uid
    BY <1>1, <1>2 DEF Used
  <2>2. m_destroyEvents' \in Seq(Used')
    BY <1>1, <2>1, SeqMonotonic DEF IInv, Shape
  <2> QED
    BY <1>1, <1>2, <1>6, <2>1, <2>2 DEF IInv, Shape
<1>8. \A i \in DOMAIN m_destroyEvents : m_destroyEvents[i] \in Used
  BY DEF IInv, Shape
<1>9. Identified'
  <2>1. \A e \in events : e.uid # new.uid
    BY <1>3, Keys
  <2>2. \A i \in DOMAIN m_destroyEvents : m_destroyEvents[i] # m_uid
    BY <1>8, Keys
  <2>3. \A e, f \in events' : e.uid = f.uid => e = f
    BY <1>1, <2>1 DEF IInv, Identified
  <2>4. \A e \in events' : e.post # 0 => \A k \in ids' : k.uid # e.uid
    BY <1>1, <1>3, <2>1 DEF IInv, Identified
  <2>5. \A i \in DOMAIN m_destroyEvents :
          /\ \A e \in events' : e.uid # m_destroyEvents[i]
          /\ \A k \in ids' : k.uid # m_destroyEvents[i]
    BY <1>1, <1>3, <2>2 DEF IInv, Identified
  <2> QED
    BY <1>1, <2>3, <2>4, <2>5 DEF IInv, Identified
<1>10. Future'
  <2>1. Later(new)
    BY <1>2, <1>3 DEF IInv, Shape, Later
  <2>2. \A k : Later(k)' <=> Later(k)
    BY <1>1 DEF Later
  <2>3. \A e \in events' : Later(e)
    BY <1>1, <2>1 DEF IInv, Future
  <2>4. \A k \in ids' : Later(k) /\ k.uid \notin cancelled =>
          \E e \in events' : e.ts = k.ts /\ e.uid = k.uid
    BY <1>1, <1>3 DEF IInv, Future
  <2> QED
    BY <1>1, <2>2, <2>3, <2>4 DEF Future
<1>11. NotAgain'
  <2>1. m_uid \notin ran
    BY Keys DEF IInv, Shape
  <2> QED
    BY <1>1, <1>3, <2>1 DEF IInv, NotAgain
<1>12. PostList' /\ PostPlaces' /\ PostOrder' /\ PostsInOrder' /\ Merged' = Merged
  <2>1. m_uid' + Len(posted) <= LastUid + Len(posts)
    BY <1>1, <1>2, Numbers DEF IInv, PostList
  <2>2. \A e : e.post # 0 => (e \in events' <=> e \in events)
    BY <1>1, <1>3
  <2> QED
    BY <1>1, <2>1, <2>2, PostsFrame
<1>13. SeenMerged'
  BY <1>1, <1>12 DEF IInv, SeenMerged
<1> QED
  BY <1>5, <1>6, <1>7, <1>9, <1>10, <1>11, <1>12, <1>13 DEF IInv

\* What has been handed out stays so.
LEMMA IdsGrow ==
  ASSUME NEW m \in Nat, NEW n \in Nat, m <= n
  PROVE  FirstUid .. m - 1 \subseteq FirstUid .. n - 1
BY DEF FirstUid

\* A step on the list of destroy events that keeps the scheduler: the list holds
\* what it held, or what had no id before; what left it may have run.
LEMMA DestroyListStep ==
  ASSUME IInv, UNCHANGED <<events, m_unscheduledEvents, clock, threadVars,
                           cancelled, ids, ranPosts, seen>>,
         m_uid' \in {m_uid, m_uid + 1}, m_uid' = m_uid \/ m_uid' <= LastUid,
         m_destroyEvents' \in Seq(Used'),
         \A i, j \in DOMAIN m_destroyEvents' :
            m_destroyEvents'[i] = m_destroyEvents'[j] => i = j,
         \A i \in DOMAIN m_destroyEvents' :
            m_destroyEvents'[i] = m_uid \/ DestroyPending(m_destroyEvents'[i]),
         \A n \in ran' \ ran : DestroyPending(n) /\ n \notin cancelled,
         \A i \in DOMAIN m_destroyEvents' : m_destroyEvents'[i] \notin ran' \ ran,
         pc' \in Places, pc' = "loop" => pc = "loop"
  PROVE  IInv'
<1>1. UNCHANGED <<m_currentTs, m_currentUid, posted, m_eventsWithContextEmpty, posts>>
  BY DEF clock, threadVars
<1>2. /\ MaxEvents \in Nat /\ MaxPosts \in Nat /\ FirstUid = 4
      /\ LastUid \in Nat /\ m_uid \in Nat /\ m_uid >= 4
      /\ m_currentUid \in Nat
  BY Numbers
<1>3. m_uid \in Nat /\ m_uid' \in Nat /\ m_uid <= m_uid'
  BY <1>2
<1>4. Used \subseteq Used'
  BY <1>3, IdsGrow, Zenon DEF Used
<1>5. TypeOK'
  <2>1. FirstUid .. m_uid - 1 \subseteq FirstUid .. m_uid' - 1
    BY <1>4 DEF Used
  <2>2. /\ events' \subseteq [ts : Nat, uid : FirstUid .. m_uid' - 1, post : 0 .. MaxPosts]
        /\ ids' \subseteq [ts : Nat, uid : FirstUid .. m_uid' - 1]
    BY <2>1 DEF IInv, TypeOK
  <2>3. m_uid \in FirstUid .. LastUid + MaxPosts
    BY DEF IInv, TypeOK
  <2>4. m_uid' \in FirstUid .. LastUid + MaxPosts
    BY <1>2, <2>3
  <2> QED
    BY <1>1, <2>2, <2>4 DEF IInv, TypeOK, Places
<1>6. CountExact'
  BY DEF IInv, CountExact
<1>7. \A n : DestroyPending(n) =>
        /\ n \in Used /\ n \notin ran
        /\ \A e \in events : e.uid # n
        /\ \A id \in ids : id.uid # n
  BY DEF DestroyPending, IInv, Shape, Identified, NotAgain
<1>8. Shape'
  <2>1. ran' \subseteq Used'
    BY <1>4, <1>7 DEF IInv, Shape
  <2> QED
    BY <1>1, <1>2, <1>4, <2>1 DEF IInv, Shape
<1>9. Identified'
  <2>1. \A i \in DOMAIN m_destroyEvents' :
          /\ \A e \in events : e.uid # m_destroyEvents'[i]
          /\ \A id \in ids : id.uid # m_destroyEvents'[i]
    BY <1>7, Keys
  <2> QED
    BY <2>1 DEF IInv, Identified
<1>10. Future'
  BY <1>1 DEF IInv, Future, Later
<1>11. NotAgain'
  <2>1. ran' \cap cancelled = {}
    BY DEF IInv, NotAgain
  <2>2. \A e \in events : e.uid \notin ran'
    BY <1>7 DEF IInv, NotAgain
  <2>3. m_uid \notin ran
    BY Keys DEF IInv, Shape
  <2>4. \A i \in DOMAIN m_destroyEvents' : m_destroyEvents'[i] \notin ran'
    BY <1>7, <2>3
  <2> QED
    BY <2>1, <2>2, <2>4 DEF NotAgain
<1>12. PostList' /\ PostPlaces' /\ PostOrder' /\ PostsInOrder' /\ Merged' = Merged
  <2>1. m_uid' + Len(posted) <= LastUid + Len(posts)
    BY <1>2, Numbers DEF IInv, PostList
  <2> QED
    BY <1>1, <2>1, PostsFrame
<1>13. SeenMerged'
  BY <1>1, <1>12 DEF IInv, SeenMerged
<1> QED
  BY <1>5, <1>6, <1>8, <1>9, <1>10, <1>11, <1>12, <1>13 DEF IInv

\* ScheduleDestroy.
LEMMA ScheduleDestroyStep ==
  ASSUME IInv, ScheduleDestroy
  PROVE  IInv'
<1>1. /\ m_uid < LastUid
      /\ m_destroyEvents' = Append(m_destroyEvents, m_uid)
      /\ m_uid' = m_uid + 1
      /\ UNCHANGED <<events, m_unscheduledEvents, clock, threadVars, cancelled,
                     pc, ids, ran, ranPosts, seen>>
  BY DEF ScheduleDestroy
<1>2. m_uid \in Nat /\ m_uid >= 4 /\ FirstUid = 4 /\ LastUid \in Nat
  BY Numbers
<1>3. Used \subseteq Used' /\ m_uid \in Used'
  BY <1>1, <1>2 DEF Used
<1>4. m_destroyEvents \in Seq(Used) /\ m_destroyEvents \in Seq(Used')
  BY <1>3, SeqMonotonic DEF IInv, Shape
<1>5. /\ m_destroyEvents' \in Seq(Used')
      /\ Len(m_destroyEvents') = Len(m_destroyEvents) + 1
      /\ \A i \in 1 .. Len(m_destroyEvents) : m_destroyEvents'[i] = m_destroyEvents[i]
      /\ m_destroyEvents'[Len(m_destroyEvents) + 1] = m_uid
  BY <1>1, <1>3, <1>4, AppendProperties
<1>6. /\ DOMAIN m_destroyEvents = 1 .. Len(m_destroyEvents) /\ Len(m_destroyEvents) \in Nat
      /\ DOMAIN m_destroyEvents' = 1 .. Len(m_destroyEvents) + 1
      /\ \A i \in 1 .. Len(m_destroyEvents) : m_destroyEvents[i] \in Used
  BY <1>4, <1>5
<1>7. \A i \in DOMAIN m_destroyEvents : m_destroyEvents[i] # m_uid
  BY <1>6, Keys
<1>8. \A i, j \in DOMAIN m_destroyEvents' :
        m_destroyEvents'[i] = m_destroyEvents'[j] => i = j
  BY <1>5, <1>6, <1>7 DEF IInv, Identified
<1>9. \A i \in DOMAIN m_destroyEvents' :
        m_destroyEvents'[i] = m_uid \/ DestroyPending(m_destroyEvents'[i])
  BY <1>5, <1>6 DEF DestroyPending
<1>10. pc' \in Places
  BY <1>1 DEF IInv, TypeOK, Places
<1> QED
  BY <1>1, <1>2, <1>5, <1>8, <1>9, <1>10, DestroyListStep

\* Remove of a destroy event.
LEMMA RemoveDestroyStep ==
  ASSUME IInv, NEW n, RemoveDestroy(n)
  PROVE  IInv'
<1>1. /\ \E i \in DOMAIN m_destroyEvents : m_destroyEvents' = Erase(m_destroyEvents, i)
      /\ UNCHANGED <<simVars, clock, threadVars, cancelled, pc, ids, ran, ranPosts, seen>>
  BY DEF RemoveDestroy
<1>2. PICK k \in DOMAIN m_destroyEvents : m_destroyEvents' = Erase(m_destroyEvents, k)
  BY <1>1
<1> DEFINE len == Len(m_destroyEvents)
<1>3. /\ m_destroyEvents \in Seq(Used) /\ len \in Nat /\ k \in 1 .. len
      /\ DOMAIN m_destroyEvents = 1 .. len
      /\ \A i \in 1 .. len : m_destroyEvents[i] \in Used
  BY DEF IInv, Shape
<1> DEFINE before == SubSeq(m_destroyEvents, 1, k - 1)
           after == SubSeq(m_destroyEvents, k + 1, len)
<1>4. /\ before \in Seq(Used) /\ Len(before) = k - 1
      /\ \A i \in 1 .. k - 1 : before[i] = m_destroyEvents[i]
  BY <1>3
<1>5. /\ after \in Seq(Used) /\ Len(after) = len - k
      /\ \A i \in 1 .. len - k : after[i] = m_destroyEvents[k + i]
  <2>1. k + 1 \in Int /\ len \in Int /\ \A i \in k + 1 .. len : m_destroyEvents[i] \in Used
    BY <1>3
  <2>2. /\ after \in Seq(Used)
        /\ Len(after) = IF k + 1 <= len THEN len - (k + 1) + 1 ELSE 0
        /\ \A i \in 1 .. len - (k + 1) + 1 : after[i] = m_destroyEvents[(k + 1) + i - 1]
    BY <2>1, SubSeqProperties, SMTT(30)
  <2> HIDE DEF after, len
  <2>3. ASSUME NEW i \in 1 .. len - k
        PROVE  i \in 1 .. len - (k + 1) + 1 /\ (k + 1) + i - 1 = k + i
    BY <1>3
  <2>4. \A i \in 1 .. len - k : after[i] = m_destroyEvents[k + i]
    BY <2>2, <2>3
  <2>5. Len(after) = len - k
    BY <1>3, <2>2
  <2> QED
    BY <2>2, <2>4, <2>5
<1>6. m_destroyEvents' = before \o after
  BY <1>2 DEF Erase
<1> HIDE DEF before, after
<1>7. /\ m_destroyEvents' \in Seq(Used) /\ Len(m_destroyEvents') = len - 1
      /\ \A i \in 1 .. len - 1 :
           m_destroyEvents'[i] = IF i <= k - 1 THEN before[i] ELSE after[i - (k - 1)]
  <2>1. /\ before \o after \in Seq(Used)
        /\ Len(before \o after) = Len(before) + Len(after)
        /\ \A i \in 1 .. Len(before) + Len(after) : (before \o after)[i] =
              IF i <= Len(before) THEN before[i] ELSE after[i - Len(before)]
    BY <1>4, <1>5, ConcatProperties
  <2>2. Len(before) + Len(after) = len - 1
    BY <1>3, <1>4, <1>5
  <2> QED
    BY <1>4, <1>6, <2>1, <2>2
<1>8. \A i \in 1 .. len - 1 :
        m_destroyEvents'[i] = m_destroyEvents[IF i < k THEN i ELSE i + 1]
  <2> SUFFICES ASSUME NEW i \in 1 .. len - 1
               PROVE  m_destroyEvents'[i] = m_destroyEvents[IF i < k THEN i ELSE i + 1]
    OBVIOUS
  <2>1. CASE i < k
    <3>1. i \in 1 .. k - 1 /\ i <= k - 1
      BY <1>3, <2>1
    <3> QED
      BY <1>4, <1>7, <2>1, <3>1
  <2>2. CASE ~ (i < k)
    <3>1. ~ (i <= k - 1) /\ i - (k - 1) \in 1 .. len - k /\ k + (i - (k - 1)) = i + 1
      BY <1>3, <2>2
    <3> QED
      BY <1>5, <1>7, <2>2, <3>1
  <2> QED
    BY <2>1, <2>2
<1>9. DOMAIN m_destroyEvents' = 1 .. len - 1
  BY <1>7
<1>10. \A i, j \in DOMAIN m_destroyEvents' :
        m_destroyEvents'[i] = m_destroyEvents'[j] => i = j
  BY <1>3, <1>8, <1>9, SMTT(30) DEF IInv, Identified
<1>11. \A i \in DOMAIN m_destroyEvents' : DestroyPending(m_destroyEvents'[i])
  BY <1>3, <1>8, <1>9 DEF DestroyPending
<1>12. UNCHANGED <<events, m_uid, m_unscheduledEvents>> /\ Used' = Used
  BY <1>1 DEF simVars, Used
<1>13. pc' \in Places
  BY <1>1 DEF IInv, TypeOK, Places
<1> QED
  BY <1>1, <1>7, <1>10, <1>11, <1>12, <1>13, DestroyListStep

\* Destroy takes the first destroy event and runs it unless it is cancelled.
LEMMA DestroyStepStep ==
  ASSUME IInv, DestroyStep
  PROVE  IInv'
<1>1. /\ UNCHANGED <<simVars, clock, threadVars, cancelled, ids, ranPosts, seen>>
      /\ pc' \in {"destroyed", "destroy", "destroyEvent"}
  BY DEF DestroyStep
<1>2. UNCHANGED <<events, m_uid, m_unscheduledEvents>> /\ Used' = Used
  BY <1>1 DEF simVars, Used
<1>3. pc' \in Places /\ pc' # "loop"
  BY <1>1 DEF Places
<1>4. m_destroyEvents \in Seq(Used)
  BY DEF IInv, Shape
<1>5. CASE m_destroyEvents = <<>>
  <2>1. UNCHANGED <<m_destroyEvents, ran>>
    BY <1>5 DEF DestroyStep
  <2> QED
    BY <1>1, <1>2, <1>3, <1>4, <1>5, <2>1, DestroyListStep
<1>6. CASE m_destroyEvents # <<>>
  <2>1. /\ m_destroyEvents' = Tail(m_destroyEvents)
        /\ \/ ran' = ran
           \/ /\ ran' = ran \cup {Head(m_destroyEvents)}
              /\ Head(m_destroyEvents) \notin cancelled
    BY <1>6 DEF DestroyStep
  <2>2. /\ Len(m_destroyEvents) \in Nat \ {0}
        /\ DOMAIN m_destroyEvents = 1 .. Len(m_destroyEvents)
        /\ Head(m_destroyEvents) = m_destroyEvents[1]
        /\ m_destroyEvents' \in Seq(Used)
        /\ DOMAIN m_destroyEvents' = 1 .. Len(m_destroyEvents) - 1
        /\ \A i \in 1 .. Len(m_destroyEvents) - 1 :
             m_destroyEvents'[i] = m_destroyEvents[i + 1]
    BY <1>4, <1>6, <2>1
  <2>3. \A i, j \in DOMAIN m_destroyEvents' :
          m_destroyEvents'[i] = m_destroyEvents'[j] => i = j
    BY <2>2, SMTT(30) DEF IInv, Identified
  <2>4. \A i \in DOMAIN m_destroyEvents' :
          /\ DestroyPending(m_destroyEvents'[i])
          /\ m_destroyEvents'[i] # Head(m_destroyEvents)
    BY <2>2, SMTT(30) DEF DestroyPending, IInv, Identified
  <2>5. DestroyPending(Head(m_destroyEvents))
    BY <2>2 DEF DestroyPending
  <2>6. \A x \in ran' \ ran : DestroyPending(x) /\ x \notin cancelled
    BY <2>1, <2>5
  <2>7. \A i \in DOMAIN m_destroyEvents' : m_destroyEvents'[i] \notin ran' \ ran
    BY <2>1, <2>4
  <2> QED
    BY <1>1, <1>2, <1>3, <2>2, <2>3, <2>4, <2>6, <2>7, DestroyListStep
<1> QED
  BY <1>5, <1>6

\* An id that is not expired is that of an event in the scheduler.
LEMMA FindsEvent ==
  ASSUME IInv, NEW id \in ids, ~ IsExpired(id)
  PROVE  /\ \E e \in events : e.ts = id.ts /\ e.uid = id.uid /\ e.post = 0
         /\ id.uid \in Used /\ id.uid \notin ran
         /\ \A e \in events : e.post # 0 => e.uid # id.uid
<1>1. PICK e \in events : e.ts = id.ts /\ e.uid = id.uid
  BY ExpiredByKey DEF IInv, Future
<1>2. e.post = 0
  BY <1>1 DEF IInv, Identified
<1> QED
  BY <1>1, <1>2, Keys DEF IInv, Identified, NotAgain

\* An event is marked as cancelled that is not yet run and was not posted.
LEMMA MarkStep ==
  ASSUME IInv, NEW n \in Used, n \notin ran,
         \A e \in events : e.post # 0 => e.uid # n,
         cancelled' = cancelled \cup {n},
         UNCHANGED <<simVars, clock, threadVars, m_destroyEvents, pc, ids, ran,
                     ranPosts, seen>>
  PROVE  IInv'
<1>1. UNCHANGED <<events, m_uid, m_unscheduledEvents, m_currentTs, m_currentUid,
                  posted, m_eventsWithContextEmpty, posts>>
  BY DEF simVars, clock, threadVars
<1>2. TypeOK' /\ CountExact' /\ Shape'
  BY <1>1 DEF IInv, TypeOK, CountExact, Shape, Used
<1>3. Identified' /\ Future' /\ NotAgain'
  BY <1>1 DEF IInv, Identified, Future, NotAgain, Later
<1>4. m_uid' + Len(posted) <= LastUid + Len(posts)
  BY <1>1 DEF IInv, PostList
<1>5. PostList' /\ PostPlaces' /\ PostOrder' /\ PostsInOrder' /\ Merged' = Merged
  BY <1>1, <1>4, PostsFrame
<1>6. SeenMerged'
  BY <1>1, <1>5 DEF IInv, SeenMerged
<1> QED
  BY <1>2, <1>3, <1>5, <1>6 DEF IInv

\* Cancel.
LEMMA CancelStep ==
  ASSUME IInv, NEW id \in ids, Cancel(id)
  PROVE  IInv'
BY FindsEvent, MarkStep DEF Cancel

\* Cancel of a destroy event.
LEMMA CancelDestroyStep ==
  ASSUME IInv, NEW n, CancelDestroy(n)
  PROVE  IInv'
<1>1. PICK i \in DOMAIN m_destroyEvents : m_destroyEvents[i] = n
  BY DEF CancelDestroy, DestroyPending
<1>2. n \in Used
  BY <1>1 DEF IInv, Shape
<1>3. n \notin ran /\ \A e \in events : e.uid # n
  BY <1>1 DEF IInv, NotAgain, Identified
<1> QED
  BY <1>2, <1>3, MarkStep DEF CancelDestroy

\* Remove finds exactly one event, so the count stays exact.
LEMMA RemoveStep ==
  ASSUME IInv, NEW id \in ids, Remove(id)
  PROVE  IInv'
<1>1. /\ events' = {e \in events : e.uid # id.uid}
      /\ cancelled' = cancelled \cup {id.uid}
      /\ m_unscheduledEvents' = m_unscheduledEvents - 1
      /\ UNCHANGED <<m_uid, m_currentTs, m_currentUid, posted,
                     m_eventsWithContextEmpty, posts, m_destroyEvents, pc, ids,
                     ran, ranPosts, seen>>
      /\ UNCHANGED threadVars
  BY DEF Remove, clock, threadVars
<1>2. PICK e \in events : e.ts = id.ts /\ e.uid = id.uid /\ e.post = 0
  BY FindsEvent DEF Remove
<1>3. id.uid \in Used /\ id.uid \notin ran
  BY FindsEvent DEF Remove
<1>4. events' = events \ {e}
  BY <1>1, <1>2 DEF IInv, Identified
<1>5. IsFiniteSet(events') /\ Cardinality(events') = Cardinality(events) - 1
  BY <1>2, <1>4, FS_RemoveElement DEF IInv, Shape
<1>6. CountExact' /\ m_unscheduledEvents' \in Nat
  <2>1. Cardinality(events') \in Nat
    BY <1>5, FS_CardinalityType
  <2> QED
    BY <1>1, <1>5, <2>1 DEF IInv, CountExact
<1>7. TypeOK'
  BY <1>1, <1>6 DEF IInv, TypeOK
<1>8. Shape'
  BY <1>1, <1>3, <1>5 DEF IInv, Shape, Used
<1>9. Identified' /\ NotAgain'
  BY <1>1, <1>3 DEF IInv, Identified, NotAgain
<1>10. Future'
  <2>1. \A k : Later(k)' <=> Later(k)
    BY <1>1 DEF Later
  <2> QED
    BY <1>1, <2>1 DEF IInv, Future
<1>11. PostList' /\ PostPlaces' /\ PostOrder' /\ PostsInOrder' /\ Merged' = Merged
  <2>1. m_uid' + Len(posted) <= LastUid + Len(posts)
    BY <1>1 DEF IInv, PostList
  <2>2. \A f : f.post # 0 => (f \in events' <=> f \in events)
    BY <1>2, <1>4
  <2>3. \A f \in events : f.post # 0 => f.uid # id.uid
    BY FindsEvent DEF Remove
  <2> QED
    BY <1>1, <2>1, <2>2, <2>3, PostsFrame
<1>12. SeenMerged'
  BY <1>1, <1>11 DEF IInv, SeenMerged
<1> QED
  BY <1>6, <1>7, <1>8, <1>9, <1>10, <1>11, <1>12 DEF IInv

(***************************************************************************)
(* Steps that move posted events                                           *)
(***************************************************************************)

\* ScheduleWithContext on another thread.
LEMMA PostStep ==
  ASSUME IInv, NEW d \in Delays, Post(d)
  PROVE  IInv'
<1> DEFINE p == [delay |-> d, post |-> Len(posts) + 1]
<1>1. /\ Len(posts) < MaxPosts
      /\ posts' = Append(posts, d) /\ posted' = Append(posted, p)
      /\ m_eventsWithContextEmpty' = FALSE
      /\ UNCHANGED <<events, m_uid, m_unscheduledEvents, m_currentTs, m_currentUid,
                     m_destroyEvents, cancelled, pc, ids, ran, ranPosts, seen>>
  BY DEF Post, simVars, clock
<1>2. /\ MaxPosts \in Nat /\ Len(posts) \in Nat /\ Len(posted) \in Nat
      /\ Merged \in Nat /\ m_uid \in Nat /\ LastUid \in Nat
      /\ DOMAIN posts = 1 .. Len(posts) /\ DOMAIN posted = 1 .. Len(posted)
  BY Numbers
<1>3. posts \in Seq(Delays) /\ posted \in Seq([delay : Delays, post : 1 .. MaxPosts])
  BY DEF IInv, TypeOK
<1>4. p \in [delay : Delays, post : 1 .. MaxPosts] /\ p.delay = d /\ p.post = Len(posts) + 1
  BY <1>1, <1>2
<1> HIDE DEF p
<1>5. /\ posts' \in Seq(Delays) /\ Len(posts') = Len(posts) + 1
      /\ \A i \in 1 .. Len(posts) : posts'[i] = posts[i]
      /\ posts'[Len(posts) + 1] = d
  BY <1>1, <1>3, AppendProperties
<1>6. /\ posted' \in Seq([delay : Delays, post : 1 .. MaxPosts])
      /\ posted' # <<>> /\ Len(posted') = Len(posted) + 1
      /\ \A i \in 1 .. Len(posted) : posted'[i] = posted[i]
      /\ posted'[Len(posted) + 1] = p
  BY <1>1, <1>3, <1>4, AppendProperties, SMTT(30)
<1>7. Merged' = Merged /\ Merged + Len(posted) = Len(posts)
  BY <1>2, <1>5, <1>6 DEF Merged
<1>8. TypeOK'
  BY <1>1, <1>5, <1>6 DEF IInv, TypeOK
<1>9. CountExact' /\ Shape' /\ Identified' /\ Future' /\ NotAgain'
  BY <1>1 DEF IInv, CountExact, Shape, Used, Identified, Future, NotAgain, Later
<1>10. PostList'
  <2>1. DOMAIN posted' = 1 .. Len(posted) + 1
    BY <1>6
  <2>2. ASSUME NEW i \in DOMAIN posted'
        PROVE  posted'[i].post = Merged + i /\ posted'[i].delay = posts'[Merged + i]
    <3>1. CASE i \in 1 .. Len(posted)
      <4>1. Merged + i \in 1 .. Len(posts)
        BY <1>2, <1>7, <3>1
      <4> QED
        BY <1>2, <1>5, <1>6, <3>1, <4>1 DEF IInv, PostList
    <3>2. CASE i = Len(posted) + 1
      <4>1. Merged + i = Len(posts) + 1
        BY <1>2, <1>7, <3>2
      <4> QED
        BY <1>4, <1>5, <1>6, <3>2, <4>1
    <3> QED
      BY <1>2, <2>1, <3>1, <3>2
  <2>3. Len(posted') <= Len(posts') /\ Len(posts') <= MaxPosts
    BY <1>1, <1>2, <1>5, <1>6 DEF IInv, PostList
  <2>4. m_uid' + Len(posted') <= LastUid + Len(posts')
    BY <1>1, <1>2, <1>5, <1>6 DEF IInv, PostList
  <2> QED
    BY <1>1, <1>7, <2>2, <2>3, <2>4 DEF PostList
<1>11. PostPlaces'
  BY <1>1, <1>7 DEF IInv, PostPlaces
<1>12. PostOrder'
  <2>1. \A e \in events : e.post # 0 => MergeTime(e)' = MergeTime(e)
    <3> SUFFICES ASSUME NEW e \in events, e.post # 0 PROVE MergeTime(e)' = MergeTime(e)
      OBVIOUS
    <3>1. e.post \in 1 .. Len(posts)
      BY <1>2, <1>7 DEF IInv, PostPlaces
    <3> QED
      BY <1>5, <3>1 DEF MergeTime
  <2>2. \A e, f \in events : e.post # 0 /\ e.post < f.post => f.post # 0
    BY Keys
  <2> QED
    BY <1>1, <2>1, <2>2 DEF IInv, PostOrder
<1>13. PostsInOrder'
  <2> SUFFICES ASSUME NEW m \in 1 .. Len(posts'), NEW n \in 1 .. Len(posts'),
                      m < n, posts'[m] = posts'[n], n \in ranPosts
               PROVE  m \in ranPosts
    BY <1>1 DEF PostsInOrder
  <2>1. n \in 1 .. Len(posts)
    BY <1>2, <1>7 DEF IInv, PostPlaces
  <2>2. m \in 1 .. Len(posts)
    BY <1>2, <1>5, <2>1
  <2> QED
    BY <1>5, <2>1, <2>2 DEF IInv, PostsInOrder
<1>14. SeenMerged'
  BY <1>1, <1>2, <1>5, <1>7 DEF IInv, SeenMerged, Shape
<1> QED
  BY <1>8, <1>9, <1>10, <1>11, <1>12, <1>13, <1>14 DEF IInv

\* ProcessEventsWithContext gives every posted event a new id, the current time
\* plus its delay, and a place in the scheduler.
LEMMA MergeStep ==
  ASSUME IInv, Merge
  PROVE  IInv'
<1> DEFINE len == Len(posted)
           New == {FromPosted(i) : i \in DOMAIN posted}
<1>1. /\ events' = events \cup New
      /\ m_uid' = m_uid + len
      /\ m_unscheduledEvents' = m_unscheduledEvents + len
      /\ posted' = <<>> /\ m_eventsWithContextEmpty' = TRUE /\ pc' = "loop"
      /\ UNCHANGED <<posts, m_currentTs, m_currentUid, m_destroyEvents, cancelled,
                     ids, ran, ranPosts, seen>>
  BY DEF Merge, clock
<1>2. /\ MaxPosts \in Nat /\ MaxEvents \in Nat /\ Len(posts) \in Nat /\ len \in Nat
      /\ FirstUid = 4 /\ LastUid \in Nat
      /\ Merged \in Nat /\ m_uid \in Nat /\ m_uid >= 4
      /\ m_currentTs \in Nat /\ m_currentUid \in Nat
      /\ DOMAIN posted = 1 .. len
      /\ \A i \in 1 .. Len(posts) : posts[i] \in Nat
  BY Numbers
<1>3. /\ Merged + len = Len(posts) /\ len <= Len(posts) /\ Len(posts) <= MaxPosts
      /\ m_uid + len <= LastUid + Len(posts)
      /\ \A i \in 1 .. len : posted[i].post = Merged + i /\ posted[i].delay = posts[Merged + i]
  BY <1>2 DEF IInv, PostList, Merged
<1> HIDE DEF len
<1>4. \A i \in 1 .. len :
        /\ FromPosted(i).uid = m_uid + i - 1
        /\ FromPosted(i).post = Merged + i
        /\ Merged + i \in 1 .. Len(posts)
        /\ FromPosted(i).ts = m_currentTs + posts[Merged + i]
        /\ posts[Merged + i] \in Nat
  BY <1>2, <1>3 DEF FromPosted
<1>5. \A e \in New : \E i \in 1 .. len :
        /\ e = FromPosted(i)
        /\ e.uid = m_uid + i - 1 /\ e.post = Merged + i
        /\ e.post \in 1 .. Len(posts)
        /\ e.ts = m_currentTs + posts[e.post] /\ e.ts \in Nat
  <2> SUFFICES ASSUME NEW i \in 1 .. len
               PROVE  LET e == FromPosted(i)
                      IN  /\ e.uid = m_uid + i - 1 /\ e.post = Merged + i
                          /\ e.post \in 1 .. Len(posts)
                          /\ e.ts = m_currentTs + posts[e.post] /\ e.ts \in Nat
    BY <1>2
  <2> DEFINE e == FromPosted(i)
  <2>1. /\ e.uid = m_uid + i - 1 /\ e.post = Merged + i
        /\ Merged + i \in 1 .. Len(posts)
        /\ e.ts = m_currentTs + posts[Merged + i]
        /\ posts[Merged + i] \in Nat
    BY <1>4, Zenon
  <2> HIDE DEF e
  <2>2. e.ts \in Nat
    BY <1>2, <2>1
  <2>3. e.post \in 1 .. Len(posts) /\ e.ts = m_currentTs + posts[e.post]
    BY <2>1, Zenon
  <2>4. /\ e.uid = m_uid + i - 1 /\ e.post = Merged + i
        /\ e.post \in 1 .. Len(posts)
        /\ e.ts = m_currentTs + posts[e.post] /\ e.ts \in Nat
    BY <2>1, <2>2, <2>3, Zenon
  <2> QED
    BY <2>4 DEF e
<1>6. \A i \in 1 .. len :
        FromPosted(i) \in [ts : Nat, uid : FirstUid .. m_uid' - 1, post : 0 .. MaxPosts]
  <2> SUFFICES ASSUME NEW i \in 1 .. len
               PROVE  FromPosted(i) \in [ts : Nat, uid : FirstUid .. m_uid' - 1,
                                         post : 0 .. MaxPosts]
    OBVIOUS
  <2>1. /\ m_currentTs + posted[i].delay \in Nat
        /\ m_uid + i - 1 \in FirstUid .. m_uid' - 1
        /\ posted[i].post \in 0 .. MaxPosts
    BY <1>1, <1>2, <1>3, <1>4, SMTT(30)
  <2> QED
    BY <2>1 DEF FromPosted
<1>7. Merged' = Len(posts)
  BY <1>1, <1>2 DEF Merged
<1>8. IsFiniteSet(New) /\ Cardinality(New) = len
  <2> DEFINE f == [i \in 1 .. len |-> FromPosted(i)]
  <2>1. ASSUME NEW i \in 1 .. len, NEW j \in 1 .. len, f[i] = f[j]
        PROVE  i = j
    <3>1. FromPosted(i).uid = FromPosted(j).uid
      BY <2>1, Zenon
    <3>2. m_uid + i - 1 = m_uid + j - 1
      BY <1>4, <3>1
    <3> QED
      BY <1>2, <3>2
  <2>2. f \in Bijection(1 .. len, New)
    <3>1. f \in [1 .. len -> New]
      BY <1>2
    <3>2. \A e \in New : \E i \in 1 .. len : f[i] = e
      BY <1>5
    <3> HIDE DEF f, New
    <3> QED
      BY <2>1, <3>1, <3>2, Fun_IsBij
  <2>3. ExistsBijection(1 .. len, New)
    BY <2>2 DEF ExistsBijection
  <2>4. IsFiniteSet(1 .. len) /\ Cardinality(1 .. len) = len
    BY <1>2, FS_Interval
  <2> QED
    BY <2>3, <2>4, FS_Bijection
<1> HIDE DEF New
<1>9. \A e \in New : e.uid \in Nat /\ e.uid >= m_uid
  BY <1>2, <1>5
<1>10. events \cap New = {}
  BY <1>2, <1>9, Keys
<1>11. /\ IsFiniteSet(events') /\ Cardinality(events') = Cardinality(events) + len
       /\ m_unscheduledEvents' \in Nat
  <2>1. IsFiniteSet(events) /\ Cardinality(events) \in Nat
    BY FS_CardinalityType DEF IInv, Shape
  <2>2. Cardinality(events \cap New) = 0
    BY <1>10, FS_EmptySet
  <2>3. /\ IsFiniteSet(events \cup New)
        /\ Cardinality(events \cup New) =
             Cardinality(events) + Cardinality(New) - Cardinality(events \cap New)
    BY <1>8, <2>1, FS_Union
  <2>4. Cardinality(events') = Cardinality(events) + len
    <3>1. Cardinality(events \cup New) = Cardinality(events) + len
      BY <1>2, <1>8, <2>1, <2>2, <2>3
    <3> QED
      BY <1>1, <3>1
  <2>5. m_unscheduledEvents' \in Nat
    BY <1>1, <1>2 DEF IInv, TypeOK
  <2> QED
    BY <1>1, <2>3, <2>4, <2>5
<1>12. CountExact'
  BY <1>1, <1>11 DEF IInv, CountExact
<1>13. Used \subseteq Used' /\ FirstUid .. m_uid - 1 \subseteq FirstUid .. m_uid' - 1
  <2>1. m_uid' \in Nat /\ m_uid <= m_uid'
    BY <1>1, <1>2
  <2> QED
    BY <1>2, <2>1, IdsGrow, Zenon DEF Used
<1>14. TypeOK'
  <2>1. \A e \in New : e \in [ts : Nat, uid : FirstUid .. m_uid' - 1, post : 0 .. MaxPosts]
    BY <1>5, <1>6
  <2>2. /\ events' \subseteq [ts : Nat, uid : FirstUid .. m_uid' - 1, post : 0 .. MaxPosts]
        /\ ids' \subseteq [ts : Nat, uid : FirstUid .. m_uid' - 1]
    BY <1>1, <1>13, <2>1 DEF IInv, TypeOK
  <2>3. m_uid' \in FirstUid .. LastUid + MaxPosts
    BY <1>1, <1>2, <1>3
  <2> QED
    BY <1>1, <1>11, <2>2, <2>3 DEF IInv, TypeOK
<1>15. Shape'
  <2>1. m_destroyEvents' \in Seq(Used')
    BY <1>1, <1>13, SeqMonotonic DEF IInv, Shape
  <2>2. m_currentUid' < m_uid'
    BY <1>1, <1>2 DEF IInv, Shape
  <2> QED
    BY <1>1, <1>11, <1>13, <2>1, <2>2 DEF IInv, Shape
<1>16. \A e \in New : e.uid \notin Used
  BY <1>2, <1>9, Keys
<1>17. \A e, f \in New : e.uid = f.uid \/ e.post = f.post => e = f
  BY <1>2, <1>5
<1>18. Identified'
  <2>1. \A i \in DOMAIN m_destroyEvents : m_destroyEvents[i] \in Used
    BY DEF IInv, Shape
  <2>2. \A e, f \in events' : e.uid = f.uid => e = f
    BY <1>1, <1>16, <1>17, Keys DEF IInv, Identified
  <2>3. \A e \in events' : e.post # 0 => \A id \in ids : id.uid # e.uid
    BY <1>1, <1>16, Keys DEF IInv, Identified
  <2>4. \A i \in DOMAIN m_destroyEvents :
          /\ \A e \in events' : e.uid # m_destroyEvents[i]
          /\ \A id \in ids : id.uid # m_destroyEvents[i]
    BY <1>1, <1>16, <2>1 DEF IInv, Identified
  <2> QED
    BY <1>1, <2>2, <2>3, <2>4 DEF IInv, Identified
<1>19. Future'
  <2>1. \A k : Later(k)' <=> Later(k)
    BY <1>1 DEF Later
  <2>2. \A e \in New : Later(e)
    <3> SUFFICES ASSUME NEW e \in New PROVE Later(e)
      OBVIOUS
    <3>1. e.ts \in Nat /\ e.ts >= m_currentTs
      BY <1>2, <1>5
    <3>2. e.uid > m_currentUid
      BY <1>2, <1>9 DEF IInv, Shape
    <3> QED
      BY <1>2, <3>1, <3>2 DEF Later
  <2> QED
    BY <1>1, <2>1, <2>2 DEF IInv, Future
<1>20. NotAgain'
  BY <1>1, <1>16 DEF IInv, NotAgain, Shape
<1>21. PostList'
  BY <1>1, <1>2, <1>3, <1>7 DEF PostList
<1>22. PostPlaces'
  <2>1. ranPosts \subseteq 1 .. Len(posts)
    BY <1>2, <1>3 DEF IInv, PostPlaces
  <2>2. \A e \in New : /\ e.post \in 1 .. Len(posts) /\ e.post \notin 1 .. Merged
                       /\ e.post \notin ranPosts
                       /\ e.uid \notin cancelled
    BY <1>2, <1>5, <1>16 DEF IInv, PostPlaces, Shape
  <2>3. \A e \in events : e.post # 0 => /\ e.post \in 1 .. Merged
                                        /\ e.post \in 1 .. Len(posts)
                                        /\ e.post \notin ranPosts
                                        /\ e.uid \notin cancelled
    BY <1>2, <1>3 DEF IInv, PostPlaces
  <2>4. \A n \in 1 .. Len(posts) : n \in ranPosts \/ \E e \in events' : e.post = n
    <3> SUFFICES ASSUME NEW n \in 1 .. Len(posts)
                 PROVE  n \in ranPosts \/ \E e \in events' : e.post = n
      OBVIOUS
    <3>1. CASE n \in 1 .. Merged
      BY <1>1, <3>1 DEF IInv, PostPlaces
    <3>2. CASE n \notin 1 .. Merged
      <4>1. n - Merged \in 1 .. len
        BY <1>2, <1>3, <3>2
      <4>2. FromPosted(n - Merged) \in New
        BY <1>2, <4>1 DEF New
      <4>3. FromPosted(n - Merged).post = Merged + (n - Merged)
        BY <1>4, <4>1
      <4> QED
        BY <1>1, <1>2, <4>2, <4>3
    <3> QED
      BY <3>1, <3>2
  <2>5. \A e, f \in events' : e.post # 0 /\ e.post = f.post => e = f
    BY <1>1, <1>17, <2>2, <2>3 DEF IInv, PostPlaces
  <2> QED
    BY <1>1, <1>7, <2>1, <2>2, <2>3, <2>4, <2>5 DEF PostPlaces
<1>23. PostOrder'
  <2>1. \A e : MergeTime(e)' = MergeTime(e)
    BY <1>1 DEF MergeTime
  <2>2. \A e \in New : MergeTime(e) = m_currentTs /\ e.post > Merged
    BY <1>2, <1>5 DEF MergeTime
  <2>3. \A e \in events : e.post # 0 => MergeTime(e) <= m_currentTs /\ e.post <= Merged
    BY <1>2 DEF IInv, PostOrder, PostPlaces
  <2>4. \A e \in events' : e.post # 0 => MergeTime(e) <= m_currentTs
    BY <1>1, <1>2, <2>2, <2>3
  <2>5. \A e, f \in events' : e.post # 0 /\ e.post < f.post =>
          e.uid < f.uid /\ MergeTime(e) <= MergeTime(f)
    <3> SUFFICES ASSUME NEW e \in events', NEW f \in events', e.post # 0, e.post < f.post
                 PROVE  e.uid < f.uid /\ MergeTime(e) <= MergeTime(f)
      OBVIOUS
    <3>1. CASE e \in events /\ f \in events
      BY <3>1 DEF IInv, PostOrder
    <3>2. CASE e \in events /\ f \in New
      BY <1>2, <1>9, <2>2, <2>3, <3>2, Keys
    <3>3. CASE e \in New /\ f \in New
      <4>1. e.uid < f.uid
        BY <1>2, <1>5, <3>3
      <4> QED
        BY <1>2, <2>2, <3>3, <4>1
    <3>4. CASE e \in New /\ f \in events
      <4>1. f.post # 0 /\ f.post \in Nat
        BY <1>2, <1>5, <3>4, Keys
      <4> QED
        BY <1>2, <1>5, <2>2, <2>3, <3>4, <4>1
    <3> QED
      BY <1>1, <3>1, <3>2, <3>3, <3>4
  <2> QED
    BY <1>1, <2>1, <2>4, <2>5 DEF PostOrder
<1>24. PostsInOrder'
  BY <1>1 DEF IInv, PostsInOrder
<1>25. SeenMerged'
  BY <1>1, <1>7 DEF IInv, SeenMerged
<1> QED
  BY <1>12, <1>14, <1>15, <1>18, <1>19, <1>20, <1>21, <1>22, <1>23, <1>24, <1>25 DEF IInv

\* The key of the event that is taken comes after the current one.
LEMMA NextIsLater ==
  ASSUME IInv, events # {}
  PROVE  Later(Earliest(events)) /\ m_currentTs <= Earliest(events).ts
<1>1. Earliest(events) \in events
  BY NextEvent
<1>2. Later(Earliest(events))
  BY <1>1 DEF IInv, Future
<1>3. Earliest(events).ts \in Nat /\ m_currentTs \in Nat
  BY <1>1, Keys, Numbers
<1> QED
  BY <1>2, <1>3 DEF Later

\* ProcessOneEvent takes the earliest event; of two events posted with the same
\* delay it cannot be the later one.
LEMMA ProcessStep ==
  ASSUME IInv, ProcessOneEvent
  PROVE  IInv'
<1> DEFINE next == Earliest(events)
<1>1. /\ pc = "loop" /\ events # {}
      /\ events' = events \ {next}
      /\ m_currentTs' = next.ts /\ m_currentUid' = next.uid
      /\ pc' \in {"merge", "event"}
      /\ \/ next.uid \in cancelled /\ UNCHANGED <<ran, ranPosts>>
         \/ /\ next.uid \notin cancelled
            /\ ran' = ran \cup {next.uid}
            /\ ranPosts' = ranPosts \cup ({next.post} \ {0})
      /\ m_unscheduledEvents' = m_unscheduledEvents - 1
      /\ UNCHANGED <<m_uid, posted, m_eventsWithContextEmpty, posts,
                     m_destroyEvents, cancelled, ids, seen>>
  BY DEF ProcessOneEvent, threadVars
<1>2. /\ next \in events
      /\ \A f \in events \ {next} : Before(next, f)
      /\ Later(next) /\ m_currentTs <= next.ts
  BY <1>1, NextEvent, NextIsLater
<1> HIDE DEF next
<1>3. /\ next.ts \in Nat /\ next.uid \in Nat /\ next.post \in Nat
      /\ next.uid < m_uid /\ next.uid \in Used
  BY <1>2, Keys
<1>4. m_currentTs \in Nat /\ m_currentUid \in Nat /\ Merged \in Nat /\ Len(posts) \in Nat
  BY Numbers
<1>5. IsFiniteSet(events') /\ Cardinality(events') = Cardinality(events) - 1
  BY <1>1, <1>2, FS_RemoveElement DEF IInv, Shape
<1>6. CountExact' /\ m_unscheduledEvents' \in Nat
  <2>1. Cardinality(events') \in Nat
    BY <1>5, FS_CardinalityType
  <2> QED
    BY <1>1, <1>5, <2>1 DEF IInv, CountExact
<1>7. TypeOK'
  BY <1>1, <1>3, <1>6 DEF IInv, TypeOK
<1>8. Shape'
  BY <1>1, <1>3, <1>5 DEF IInv, Shape, Used
<1>9. Identified'
  BY <1>1 DEF IInv, Identified
<1>10. Future'
  <2>1. \A e \in events' : Later(e)'
    BY <1>1, <1>2 DEF Before, Later
  <2>2. ASSUME NEW id \in ids, Later(id)', id.uid \notin cancelled
        PROVE  \E e \in events' : e.ts = id.ts /\ e.uid = id.uid
    <3>1. Later(id)
      BY <1>1, <1>2, <1>3, <1>4, <2>2, Keys DEF Later
    <3>2. PICK e \in events : e.ts = id.ts /\ e.uid = id.uid
      BY <2>2, <3>1 DEF IInv, Future
    <3>3. e # next
      BY <1>1, <1>3, <2>2, <3>2 DEF Later
    <3> QED
      BY <1>1, <3>2, <3>3
  <2> QED
    BY <1>1, <2>1, <2>2 DEF Future
<1>11. NotAgain'
  <2>1. \A e \in events' : e.uid # next.uid
    BY <1>1, <1>2 DEF IInv, Identified
  <2>2. \A i \in DOMAIN m_destroyEvents : m_destroyEvents[i] # next.uid
    BY <1>2 DEF IInv, Identified
  <2> QED
    BY <1>1, <2>1, <2>2 DEF IInv, NotAgain
<1>12. Merged' = Merged /\ PostList'
  BY <1>1 DEF IInv, PostList, Merged
<1>13. next.post # 0 => /\ next.post \in 1 .. Merged
                        /\ next.post \notin ranPosts
                        /\ ranPosts' = ranPosts \cup {next.post}
  BY <1>1, <1>2 DEF IInv, PostPlaces
<1>14. next.post = 0 => ranPosts' = ranPosts
  BY <1>1
<1>15. PostPlaces'
  <2>1. ranPosts' \subseteq 1 .. Merged
    BY <1>13, <1>14 DEF IInv, PostPlaces
  <2>2. \A e, f \in events' : e.post # 0 /\ e.post = f.post => e = f
    BY <1>1 DEF IInv, PostPlaces
  <2>3. \A e \in events' : e.post # 0 => /\ e.post \in 1 .. Merged
                                         /\ e.post \notin ranPosts'
                                         /\ e.uid \notin cancelled
    BY <1>1, <1>2, <1>13, <1>14 DEF IInv, PostPlaces
  <2>4. \A n \in 1 .. Merged : n \in ranPosts' \/ \E e \in events' : e.post = n
    <3> SUFFICES ASSUME NEW n \in 1 .. Merged, n \notin ranPosts'
                 PROVE  \E e \in events' : e.post = n
      OBVIOUS
    <3>1. PICK e \in events : e.post = n
      BY <1>13, <1>14 DEF IInv, PostPlaces
    <3>2. e # next
      BY <1>4, <1>13, <3>1
    <3> QED
      BY <1>1, <3>1, <3>2
  <2> QED
    BY <1>1, <1>12, <2>1, <2>2, <2>3, <2>4 DEF PostPlaces
<1>16. PostOrder'
  <2>1. \A e : MergeTime(e)' = MergeTime(e)
    BY <1>1 DEF MergeTime
  <2>2. \A e \in events' : e.post # 0 => MergeTime(e) <= next.ts
    <3> SUFFICES ASSUME NEW e \in events', e.post # 0 PROVE MergeTime(e) <= next.ts
      OBVIOUS
    <3>1. e \in events /\ e.ts \in Nat /\ e.post \in 1 .. Merged
      BY <1>1, Keys DEF IInv, PostPlaces
    <3>2. posts[e.post] \in Nat
      BY <1>4, <3>1, Numbers DEF Merged
    <3>3. MergeTime(e) \in Int /\ MergeTime(e) <= m_currentTs
      BY <3>1, <3>2 DEF MergeTime, IInv, PostOrder
    <3> QED
      BY <1>2, <1>3, <1>4, <3>3
  <2> QED
    BY <1>1, <2>1, <2>2 DEF IInv, PostOrder
<1>17. PostsInOrder'
  <2> SUFFICES ASSUME NEW m \in 1 .. Len(posts), NEW n \in 1 .. Len(posts),
                      m < n, posts[m] = posts[n], n \in ranPosts'
               PROVE  m \in ranPosts'
    BY <1>1 DEF PostsInOrder
  <2>1. CASE n \in ranPosts
    BY <1>13, <1>14, <2>1 DEF IInv, PostsInOrder
  <2>2. CASE n \notin ranPosts
    <3>1. next.post # 0 /\ next.post = n /\ n \in 1 .. Merged
      BY <1>13, <1>14, <2>2
    <3>2. CASE m \in ranPosts
      BY <1>13, <3>1, <3>2
    <3>3. CASE m \notin ranPosts
      <4>1. m \in 1 .. Merged
        BY <1>4, <3>1
      <4>2. PICK g \in events : g.post = m
        BY <3>3, <4>1 DEF IInv, PostPlaces
      <4>3. g # next /\ g.post # 0 /\ g.post < next.post
        BY <3>1, <4>2
      <4>4. g.uid < next.uid /\ MergeTime(g) <= MergeTime(next)
        BY <1>2, <4>3 DEF IInv, PostOrder
      <4>5. /\ g.ts \in Nat /\ g.uid \in Nat /\ posts[m] \in Nat
            /\ MergeTime(g) = g.ts - posts[m] /\ MergeTime(next) = next.ts - posts[m]
        BY <3>1, <4>2, Keys, Numbers DEF MergeTime
      <4>6. Before(next, g)
        BY <1>2, <4>3
      <4> QED
        BY <1>3, <4>4, <4>5, <4>6 DEF Before
    <3> QED
      BY <3>2, <3>3
  <2> QED
    BY <2>1, <2>2
<1>18. SeenMerged'
  BY <1>1, <1>12 DEF IInv, SeenMerged
<1> QED
  BY <1>6, <1>7, <1>8, <1>9, <1>10, <1>11, <1>12, <1>15, <1>16, <1>17, <1>18 DEF IInv

\* Every step.
LEMMA NextIInv ==
  ASSUME IInv, [Next]_vars
  PROVE  IInv'
<1>1. CASE \E d \in Delays : Schedule(d) \/ Post(d)
  BY <1>1, ScheduleStep, PostStep
<1>2. CASE \E id \in ids : Cancel(id) \/ Remove(id)
  BY <1>2, CancelStep, RemoveStep
<1>3. CASE \E n \in FirstUid .. LastUid : CancelDestroy(n) \/ RemoveDestroy(n)
  BY <1>3, CancelDestroyStep, RemoveDestroyStep
<1>4. CASE ScheduleDestroy \/ DestroyStep
  BY <1>4, ScheduleDestroyStep, DestroyStepStep
<1>5. CASE \/ Stop \/ Run \/ MergeTest \/ EventReturns \/ RunReturns
           \/ DestroyEventReturns \/ UNCHANGED vars
  BY <1>5, PassingStep
<1>6. CASE Merge \/ ProcessOneEvent
  BY <1>6, MergeStep, ProcessStep
<1> QED
  BY <1>1, <1>2, <1>3, <1>4, <1>5, <1>6 DEF Next

\* The invariant holds in every reachable state.
LEMMA Invariance == Spec => []IInv
<1>1. IInv /\ [Next]_vars => IInv'
  BY NextIInv
<1> QED
  BY <1>1, InitIInv, PTL DEF Spec

(***************************************************************************)
(* The theorems                                                            *)
(***************************************************************************)

\* m_unscheduledEvents counts the scheduler, IsExpired answers for the scheduler
\* without looking into it, and no event both runs and is cancelled, through
\* every sequence of Schedule, Cancel, Remove, Stop, Run and Destroy.
THEOREM EventsSoundCorrect == Spec => []EventsSound
<1>1. ASSUME IInv PROVE EventsSound
  <2>1. ASSUME NEW id \in ids
        PROVE  ~ IsExpired(id) <=> /\ \E e \in events : e.ts = id.ts /\ e.uid = id.uid
                                   /\ id.uid \notin cancelled
    <3>1. IsExpired(id) <=> ~ Later(id) \/ id.uid \in cancelled
      BY <1>1, ExpiredByKey
    <3>2. \A e \in events : e.ts = id.ts /\ e.uid = id.uid => Later(id)
      BY <1>1 DEF IInv, Future, Later
    <3>3. Later(id) /\ id.uid \notin cancelled =>
            \E e \in events : e.ts = id.ts /\ e.uid = id.uid
      BY <1>1 DEF IInv, Future
    <3> QED
      BY <3>1, <3>2, <3>3
  <2>2. ExpiredExact
    BY <2>1 DEF ExpiredExact
  <2> QED
    BY <1>1, <2>2 DEF IInv, EventsSound, NotAgain, RanOrCancelled
<1> QED
  BY <1>1, Invariance, PTL

\* Events that other threads post are each in exactly one place, run in the
\* order they were posted if their delays are the same, and a Run that ends for
\* lack of events has run all it could know of.
THEOREM PostsSoundCorrect == Spec => []PostsSound
<1>1. ASSUME IInv PROVE PostsSound
  <2>1. /\ Len(posts) \in Nat /\ Len(posted) \in Nat /\ Merged \in Nat
        /\ DOMAIN posted = 1 .. Len(posted) /\ Merged + Len(posted) = Len(posts)
    BY <1>1, Numbers DEF Merged
  <2>2. ASSUME NEW n \in 1 .. Len(posts)
        PROVE  Cardinality({i \in DOMAIN posted : posted[i].post = n})
                 + Cardinality({e \in events : e.post = n})
                 + (IF n \in ranPosts THEN 1 ELSE 0) = 1
    <3> DEFINE waiting == {i \in DOMAIN posted : posted[i].post = n}
               scheduled == {e \in events : e.post = n}
    <3>1. waiting = {i \in 1 .. Len(posted) : Merged + i = n}
      BY <1>1, <2>1 DEF IInv, PostList
    <3>2. n # 0
      BY <2>1
    <3>3. CASE n > Merged
      <4>1. n - Merged \in 1 .. Len(posted)
        BY <2>1, <3>3
      <4>2. waiting = {n - Merged}
        BY <2>1, <3>1, <4>1
      <4>3. scheduled = {} /\ n \notin ranPosts
        BY <1>1, <2>1, <3>2, <3>3 DEF IInv, PostPlaces
      <4>4. Cardinality(waiting) = 1 /\ Cardinality(scheduled) = 0
        BY <4>2, <4>3, FS_Singleton, FS_EmptySet
      <4> HIDE DEF waiting, scheduled
      <4>5. Cardinality(waiting) + Cardinality(scheduled)
              + (IF n \in ranPosts THEN 1 ELSE 0) = 1
        BY <4>3, <4>4
      <4> QED
        BY <4>5 DEF waiting, scheduled
    <3>4. CASE n <= Merged
      <4>1. waiting = {} /\ n \in 1 .. Merged
        BY <2>1, <3>1, <3>4
      <4>2. n \in ranPosts => scheduled = {}
        BY <1>1, <3>2 DEF IInv, PostPlaces
      <4>3. n \notin ranPosts => \E e : scheduled = {e}
        <5> SUFFICES ASSUME n \notin ranPosts PROVE \E e : scheduled = {e}
          OBVIOUS
        <5>1. PICK e \in events : e.post = n
          BY <1>1, <4>1 DEF IInv, PostPlaces
        <5>2. scheduled = {e}
          BY <1>1, <3>2, <5>1 DEF IInv, PostPlaces
        <5> QED
          BY <5>2
      <4>4. /\ Cardinality(waiting) = 0
            /\ Cardinality(scheduled) = IF n \in ranPosts THEN 0 ELSE 1
        BY <4>1, <4>2, <4>3, FS_Singleton, FS_EmptySet
      <4> HIDE DEF waiting, scheduled
      <4>5. Cardinality(waiting) + Cardinality(scheduled)
              + (IF n \in ranPosts THEN 1 ELSE 0) = 1
        BY <4>4
      <4> QED
        BY <4>5 DEF waiting, scheduled
    <3> QED
      BY <2>1, <3>3, <3>4
  <2>3. PostsKept
    BY <1>1, <2>2 DEF PostsKept, IInv, PostList
  <2>4. EndsComplete
    <3> SUFFICES ASSUME pc = "loop", events = {}, NEW n \in 1 .. seen
                 PROVE  n \in ranPosts
      BY DEF EndsComplete
    <3>1. n \in 1 .. Merged
      BY <1>1, <2>1 DEF IInv, SeenMerged, Shape
    <3> QED
      BY <1>1, <3>1 DEF IInv, PostPlaces
  <2> QED
    BY <1>1, <2>3, <2>4 DEF PostsSound, IInv
<1> QED
  BY <1>1, Invariance, PTL

\* The assertion of ProcessOneEvent: the key of the event it takes is past the
\* key of the one before, so time never goes back.
THEOREM KeysIncreaseCorrect == Spec => KeysIncrease
<1>1. ASSUME IInv, [Next]_vars, clock' # clock
      PROVE  Before([ts |-> m_currentTs, uid |-> m_currentUid],
                    [ts |-> m_currentTs', uid |-> m_currentUid'])
  <2>1. ProcessOneEvent
    BY <1>1 DEF Next, vars, Schedule, Post, ScheduleDestroy, Cancel, Remove,
       CancelDestroy, RemoveDestroy, Stop, Run, MergeTest, Merge, EventReturns,
       RunReturns, DestroyStep, DestroyEventReturns
  <2>2. /\ events # {} /\ m_currentTs' = Earliest(events).ts
        /\ m_currentUid' = Earliest(events).uid
    BY <2>1 DEF ProcessOneEvent
  <2>3. Later(Earliest(events))
    BY <1>1, <2>2, NextIsLater
  <2> QED
    BY <2>2, <2>3 DEF Later, Before
<1>2. IInv /\ [Next]_vars =>
        [clock' # clock =>
           Before([ts |-> m_currentTs, uid |-> m_currentUid],
                  [ts |-> m_currentTs', uid |-> m_currentUid'])]_vars
  BY <1>1
<1> QED
  BY <1>2, Invariance, PTL DEF Spec, KeysIncrease
=============================================================================
