------------------------ MODULE DefaultSimulatorImpl ------------------------
(***************************************************************************)
(* ns3::DefaultSimulatorImpl (core/model/default-simulator-impl.cc): the   *)
(* event loop, the operations on events a model may call between and       *)
(* inside events, and the list through which other threads post events.    *)
(*                                                                         *)
(* The main thread is sequential (pc); other threads only call             *)
(* ScheduleWithContext, whose critical section is one step (Post).  The    *)
(* main thread reads m_eventsWithContextEmpty without the mutex and takes  *)
(* the list in a later step.  The scheduler is the set of its events:      *)
(* CalendarScheduler is shown to behave like it.  Contexts are left out.   *)
(***************************************************************************)
EXTENDS Events, Sequences, FiniteSets

CONSTANTS
  Delays,    \* the delays events are scheduled with
  MaxEvents, \* bound on the unique ids handed out
  MaxPosts,  \* bound on the events posted by other threads
  MaxRuns    \* bound on the calls of Simulator::Run

ASSUME SimulatorAssumption ==
  Delays \subseteq Nat /\ {MaxEvents, MaxPosts, MaxRuns} \subseteq Nat

VARIABLES
  events,           \* m_events: records [ts, uid, post]
  m_destroyEvents,  \* ids of destroy events
  cancelled,        \* ids whose EventImpl has m_cancel set
  m_uid,
  m_currentTs,
  m_currentUid,
  m_unscheduledEvents,
  m_stop,
  posted,           \* m_eventsWithContext: records [delay, post]
  m_eventsWithContextEmpty,
  pc,               \* where the main thread is
  ids,              \* history: the EventIds returned by Schedule
  ran,              \* history: ids of the events whose Notify was called
  posts,            \* history: the delays of all events posted by threads
  ranPosts,         \* history: which of those have run
  seen,             \* history: how many were posted before the last merge
  runs              \* history: calls of Run

simVars == <<events, m_uid, m_unscheduledEvents>>
clock == <<m_currentTs, m_currentUid>>
threadVars == <<posted, m_eventsWithContextEmpty, posts>>
vars == <<simVars, clock, threadVars, m_destroyEvents, cancelled, m_stop, pc,
          ids, ran, ranPosts, seen, runs>>

FirstUid == 4
LastUid == FirstUid + MaxEvents

Init ==
  /\ events = {} /\ m_destroyEvents = <<>> /\ cancelled = {}
  /\ m_uid = FirstUid /\ m_currentTs = 0 /\ m_currentUid = 0
  /\ m_unscheduledEvents = 0 /\ m_stop = FALSE
  /\ posted = <<>> /\ m_eventsWithContextEmpty = TRUE
  /\ pc = "outside"
  /\ ids = {} /\ ran = {} /\ posts = <<>> /\ ranPosts = {}
  /\ seen = 0 /\ runs = 0

-----------------------------------------------------------------------------
(* What model code may call: outside Run, in an event, in a destroy event *)

InModelCode == pc \in {"outside", "event", "destroyEvent"}

IsExpiredStrict(id) ==                                              \* mutant
  \/ id.ts < m_currentTs
  \/ id.ts = m_currentTs /\ id.uid < m_currentUid
  \/ id.uid \in cancelled
IsExpired(id) ==
  \/ id.ts < m_currentTs
  \/ id.ts = m_currentTs /\ id.uid <= m_currentUid
  \/ id.uid \in cancelled

\* Schedule, ScheduleNow (delay 0), and ScheduleWithContext on the main thread.
Schedule(d) ==
  /\ InModelCode
  /\ m_uid < LastUid
  /\ LET id == [ts |-> m_currentTs + d, uid |-> m_uid]
     IN  /\ events' = events \cup {[ts |-> id.ts, uid |-> id.uid, post |-> 0]}
         /\ ids' = ids \cup {id}
  /\ m_uid' = m_uid + 1
  /\ m_unscheduledEvents' = m_unscheduledEvents + 1
  /\ UNCHANGED <<clock, threadVars, m_destroyEvents, cancelled, m_stop, pc, ran,
                 ranPosts, seen, runs>>

\* All destroy events have uid 2 and are told apart by their EventImpl, for
\* which the value of m_uid stands here.
ScheduleDestroy ==
  /\ InModelCode
  /\ m_uid < LastUid
  /\ m_destroyEvents' = Append(m_destroyEvents, m_uid)
  /\ m_uid' = m_uid + 1
  /\ UNCHANGED <<events, m_unscheduledEvents, clock, threadVars, cancelled,
                 m_stop, pc, ids, ran, ranPosts, seen, runs>>

\* Cancel and Remove do nothing for an event that is expired.
Cancel(id) ==
  /\ InModelCode
  /\ ~ IsExpired(id)
  /\ cancelled' = cancelled \cup {id.uid}
  /\ UNCHANGED <<simVars, clock, threadVars, m_destroyEvents, m_stop, pc, ids,
                 ran, ranPosts, seen, runs>>

Remove(id) ==
  /\ InModelCode
  /\ ~ IsExpired(id)
  /\ events' = {e \in events : e.uid # id.uid}
  /\ cancelled' = cancelled \cup {id.uid}
  /\ m_unscheduledEvents' = m_unscheduledEvents - 1
  /\ UNCHANGED <<m_uid, clock, threadVars, m_destroyEvents, m_stop, pc, ids,
                 ran, ranPosts, seen, runs>>

\* The same for a destroy event that is still in the list.
DestroyPending(n) == \E i \in DOMAIN m_destroyEvents : m_destroyEvents[i] = n
CancelDestroy(n) ==
  /\ InModelCode
  /\ DestroyPending(n)
  /\ n \notin cancelled
  /\ cancelled' = cancelled \cup {n}
  /\ UNCHANGED <<simVars, clock, threadVars, m_destroyEvents, m_stop, pc, ids,
                 ran, ranPosts, seen, runs>>
Erase(list, i) == SubSeq(list, 1, i - 1) \o SubSeq(list, i + 1, Len(list))
RemoveDestroy(n) ==
  /\ InModelCode
  /\ \E i \in DOMAIN m_destroyEvents :
       m_destroyEvents[i] = n /\ m_destroyEvents' = Erase(m_destroyEvents, i)
  /\ UNCHANGED <<simVars, clock, threadVars, cancelled, m_stop, pc, ids, ran,
                 ranPosts, seen, runs>>

\* Stop; Stop (delay) is Schedule of an event that calls it.
Stop ==
  /\ InModelCode
  /\ ~ m_stop
  /\ m_stop' = TRUE
  /\ UNCHANGED <<simVars, clock, threadVars, m_destroyEvents, cancelled, pc, ids,
                 ran, ranPosts, seen, runs>>

-----------------------------------------------------------------------------
(* Other threads *)

\* ScheduleWithContext on another thread, its critical section.
PostQuietly(d) ==                                                   \* mutant
  /\ Len(posts) < MaxPosts
  /\ posts' = Append(posts, d)
  /\ posted' = Append(posted, [delay |-> d, post |-> Len(posts) + 1])
  /\ UNCHANGED <<m_eventsWithContextEmpty, simVars, clock, m_destroyEvents, cancelled, m_stop, pc, ids,
                 ran, ranPosts, seen, runs>>
Post(d) ==
  /\ Len(posts) < MaxPosts
  /\ posts' = Append(posts, d)
  /\ posted' = Append(posted, [delay |-> d, post |-> Len(posts) + 1])
  /\ m_eventsWithContextEmpty' = FALSE
  /\ UNCHANGED <<simVars, clock, m_destroyEvents, cancelled, m_stop, pc, ids,
                 ran, ranPosts, seen, runs>>

-----------------------------------------------------------------------------
(* The main thread: Run, ProcessOneEvent, ProcessEventsWithContext, Destroy *)

Run ==
  /\ pc = "outside"
  /\ runs < MaxRuns
  /\ runs' = runs + 1
  /\ pc' = "merge"
  /\ m_stop' = FALSE      \* set after the merge, before the loop: no one looks
  /\ UNCHANGED <<simVars, clock, threadVars, m_destroyEvents, cancelled, ids, ran,
                 ranPosts, seen>>

\* ProcessEventsWithContext: the unlocked test ...
MergeTest ==
  /\ pc = "merge"
  /\ pc' = IF m_eventsWithContextEmpty THEN "loop" ELSE "swap"
  /\ seen' = Len(posts)
  /\ UNCHANGED <<simVars, clock, threadVars, m_destroyEvents, cancelled, m_stop,
                 ids, ran, ranPosts, runs>>

\* ... and, under the mutex, the swap; then every event gets the next uid and
\* a time stamp relative to the time of the merge.
FromPostedAbsolute(i) ==                                            \* mutant
  [ts |-> posted[i].delay, uid |-> m_uid + i - 1, post |-> posted[i].post]
FromPosted(i) == [ts |-> m_currentTs + posted[i].delay, uid |-> m_uid + i - 1,
                  post |-> posted[i].post]
Merge ==
  /\ pc = "swap"
  /\ events' = events \cup {FromPosted(i) : i \in DOMAIN posted}
  /\ m_uid' = m_uid + Len(posted)
  /\ m_unscheduledEvents' = m_unscheduledEvents + Len(posted)
  /\ posted' = <<>>
  /\ m_eventsWithContextEmpty' = TRUE
  /\ pc' = "loop"
  /\ UNCHANGED <<posts, clock, m_destroyEvents, cancelled, m_stop, ids, ran,
                 ranPosts, seen, runs>>

\* ProcessOneEvent up to the end of Invoke's test: a cancelled event is taken
\* out like any other, but its function is not called.
ProcessOneEvent ==
  /\ pc = "loop"
  /\ events # {} /\ ~ m_stop
  /\ LET next == Earliest(events)
     IN  /\ events' = events \ {next}
         /\ m_currentTs' = next.ts
         /\ m_currentUid' = next.uid
         /\ IF next.uid \in cancelled
            THEN pc' = "merge" /\ UNCHANGED <<ran, ranPosts>>
            ELSE /\ pc' = "event"
                 /\ ran' = ran \cup {next.uid}
                 /\ ranPosts' = ranPosts \cup ({next.post} \ {0})
  /\ m_unscheduledEvents' = m_unscheduledEvents - 1
  /\ UNCHANGED <<m_uid, threadVars, m_destroyEvents, cancelled, m_stop, ids, seen, runs>>

EventReturns ==
  /\ pc = "event"
  /\ pc' = "merge"
  /\ UNCHANGED <<simVars, clock, threadVars, m_destroyEvents, cancelled, m_stop,
                 ids, ran, ranPosts, seen, runs>>

RunReturns ==
  /\ pc = "loop"
  /\ events = {} \/ m_stop
  /\ pc' = "outside"
  /\ UNCHANGED <<simVars, clock, threadVars, m_destroyEvents, cancelled, m_stop,
                 ids, ran, ranPosts, seen, runs>>

\* Destroy: each destroy event still in the list, in order; a destroy event may
\* schedule, cancel and remove others.
DestroyStep ==
  /\ pc \in {"outside", "destroy"}
  /\ IF m_destroyEvents = <<>>
     THEN pc' = "destroyed" /\ UNCHANGED <<m_destroyEvents, ran>>
     ELSE /\ m_destroyEvents' = Tail(m_destroyEvents)
          /\ IF Head(m_destroyEvents) \in cancelled
             THEN pc' = "destroy" /\ UNCHANGED ran
             ELSE pc' = "destroyEvent"
                  /\ ran' = ran \cup {Head(m_destroyEvents)}
  /\ UNCHANGED <<simVars, clock, threadVars, cancelled, m_stop, ids, ranPosts,
                 seen, runs>>

DestroyEventReturns ==
  /\ pc = "destroyEvent"
  /\ pc' = "destroy"
  /\ UNCHANGED <<simVars, clock, threadVars, m_destroyEvents, cancelled, m_stop,
                 ids, ran, ranPosts, seen, runs>>

-----------------------------------------------------------------------------
Next ==
  \/ \E d \in Delays : Schedule(d) \/ Post(d)
  \/ ScheduleDestroy
  \/ \E id \in ids : Cancel(id) \/ Remove(id)
  \/ \E n \in FirstUid .. LastUid : CancelDestroy(n) \/ RemoveDestroy(n)
  \/ Stop \/ Run \/ MergeTest \/ Merge \/ ProcessOneEvent \/ EventReturns
  \/ RunReturns \/ DestroyStep \/ DestroyEventReturns

Spec == Init /\ [][Next]_vars

-----------------------------------------------------------------------------
(* Properties *)

\* Types; m_unscheduledEvents is never decremented below zero.
TypeOK ==
  /\ events \subseteq [ts : Nat, uid : FirstUid .. m_uid - 1, post : 0 .. MaxPosts]
  /\ ids \subseteq [ts : Nat, uid : FirstUid .. m_uid - 1]
  /\ m_uid \in FirstUid .. LastUid + MaxPosts
  /\ m_currentTs \in Nat /\ m_currentUid \in Nat /\ m_unscheduledEvents \in Nat
  /\ posts \in Seq(Delays)
  /\ posted \in Seq([delay : Delays, post : 1 .. MaxPosts])
  /\ pc \in {"outside", "merge", "swap", "loop", "event", "destroy",
             "destroyEvent", "destroyed"}

\* m_unscheduledEvents counts the events of the scheduler, whatever was
\* cancelled, removed, both, or merged from other threads: the assert at the
\* end of Run cannot fail.
CountExact == m_unscheduledEvents = Cardinality(events)

\* IsExpired, which compares an id with the current time and uid and never
\* looks into the scheduler, is right: an id is not expired exactly while its
\* event is scheduled and not cancelled.  So Remove always finds its event.
ExpiredExact ==
  \A id \in ids :
    ~ IsExpired(id) <=> /\ \E e \in events : e.ts = id.ts /\ e.uid = id.uid
                        /\ id.uid \notin cancelled

\* An event that ran is never marked cancelled afterwards and one that was
\* cancelled or removed never runs, even if an event cancels itself or a
\* destroy event cancels another.
RanOrCancelled == ran \cap cancelled = {}

\* No event posted by another thread is lost or run twice, and the flag the main
\* thread tests without the mutex never hides one.
PostsKept ==
  /\ \A n \in 1 .. Len(posts) :
       Cardinality({i \in DOMAIN posted : posted[i].post = n})
         + Cardinality({e \in events : e.post = n})
         + (IF n \in ranPosts THEN 1 ELSE 0) = 1
  /\ posted # <<>> => ~ m_eventsWithContextEmpty

\* Events posted with the same delay run in the order they were posted.
PostsInOrder ==
  \A m, n \in 1 .. Len(posts) :
    m < n /\ posts[m] = posts[n] /\ n \in ranPosts => m \in ranPosts

\* Time never goes back, and events run in the order of their keys: the assert
\* of ProcessOneEvent.
KeysIncrease ==
  [][ clock' # clock =>
        Before([ts |-> m_currentTs, uid |-> m_currentUid],
               [ts |-> m_currentTs', uid |-> m_currentUid']) ]_vars

\* A Run that ends for lack of events has run every event that was posted
\* before its last event returned; only a later one waits for the next Run.
EndsComplete == pc = "loop" /\ events = {} => 1 .. seen \subseteq ranPosts

\* Counts, expiry and cancellation of events agree with the scheduler through
\* every sequence of Schedule, Cancel, Remove, Stop and Destroy.
EventsSound == TypeOK /\ CountExact /\ ExpiredExact /\ RanOrCancelled

\* Events that other threads post through ScheduleWithContext are neither lost,
\* hidden by the flag read without the mutex, reordered nor left behind.
PostsSound == PostsKept /\ PostsInOrder /\ EndsComplete
=============================================================================
