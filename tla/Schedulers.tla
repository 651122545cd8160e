------------------------------ MODULE Schedulers ------------------------------
(***************************************************************************)
(* The schedulers side by side, driven by the calls a simulator makes:     *)
(* ListScheduler (list-scheduler.cc), CalendarScheduler and HeapScheduler. *)
(* MapScheduler is a std::map from keys to events and has no algorithm of  *)
(* its own.  An event is never inserted before the time of the last one    *)
(* removed, and only an event that is held is removed: see KeysIncrease    *)
(* and ExpiredExact of DefaultSimulatorImpl.                               *)
(***************************************************************************)
EXTENDS CalendarScheduler, HeapScheduler, FiniteSets
Seqs == INSTANCE SequencesExt

CONSTANTS Times,     \* time stamps
          MaxInserts \* bound on the events inserted

ASSUME TimesAssumption == Times \subseteq Nat /\ MaxInserts \in Nat

VARIABLES
  events,    \* the events inserted and not taken out
  list,      \* ListScheduler
  calendar,  \* CalendarScheduler
  heap,      \* HeapScheduler, until a call after its first Remove
  heapState, \* "exact"; "removed" after the first Remove; "left" after that
  now,       \* time of the last event removed
  uid,       \* unique ids used
  returned   \* what RemoveNext returned last, by scheduler

vars == <<events, list, calendar, heap, heapState, now, uid, returned>>

None == [ts |-> 0, uid |-> 0]

Init ==
  /\ events = {} /\ list = <<>> /\ calendar = NewCalendar /\ heap = <<>>
  /\ heapState = "exact"
  /\ now = 0 /\ uid = 0
  /\ returned = [list |-> None, calendar |-> None]

\* ListScheduler::Insert: before the first event that it precedes.
ListInsertBeforeEqual(s, e) ==                                      \* mutant
  Seqs!InsertAt(s, 1 + Len(SelectSeq(s, LAMBDA f : f.ts < e.ts)), e)
ListInsert(s, e) ==
  Seqs!InsertAt(s, 1 + Len(SelectSeq(s, LAMBDA f : ~ Before(e, f))), e)

Heap(h) == IF heapState = "exact" THEN heap' = h /\ UNCHANGED heapState
           ELSE heap' = <<>> /\ heapState' = "left"

Insert(t) ==
  /\ uid < MaxInserts
  /\ t >= now
  /\ LET e == [ts |-> t, uid |-> uid + 1]
     IN  /\ events' = events \cup {e}
         /\ list' = ListInsert(list, e)
         /\ calendar' = CalendarInsert(calendar, e)
         /\ Heap(HeapInsert(heap, e))
  /\ uid' = uid + 1
  /\ UNCHANGED <<now, returned>>

RemoveNext ==
  /\ events # {}
  /\ events' = events \ {Earliest(events)}
  /\ returned' = [list |-> Head(list), calendar |-> PeekNext(calendar)]
  /\ now' = Head(list).ts
  /\ list' = Tail(list)
  /\ calendar' = CalendarRemoveNext(calendar)
  /\ Heap(HeapRemoveNext(heap))
  /\ UNCHANGED uid

Remove(e) ==
  /\ events' = events \ {e}
  /\ list' = SelectSeq(list, LAMBDA f : f.uid # e.uid)
  /\ calendar' = CalendarRemove(calendar, e)
  /\ IF heapState = "exact"
     THEN heap' = HeapRemove(heap, e) /\ heapState' = "removed"
     ELSE heap' = <<>> /\ heapState' = "left"
  /\ UNCHANGED <<now, uid, returned>>

Next == \/ \E t \in Times : Insert(t)
        \/ RemoveNext
        \/ \E e \in events : Remove(e)

Spec == Init /\ [][Next]_vars

-----------------------------------------------------------------------------
(* Properties *)

Universe == [ts : Times, uid : 1 .. MaxInserts]

\* Types.
TypeOK ==
  /\ events \subseteq Universe
  /\ list \in Seq(Universe) /\ heap \in Seq(Universe)
  /\ calendar.m_qSize \in Nat /\ calendar.m_width \in Nat \ {0}
  /\ calendar.m_nBuckets \in 1 .. MaxBuckets
  /\ DOMAIN calendar.m_buckets = 0 .. calendar.m_nBuckets - 1
  /\ now \in Times \cup {0} /\ uid \in 0 .. MaxInserts

\* The calendar is consistent after every resize: an event is in the bucket of
\* its time, buckets are sorted, m_qSize counts, and the search never starts
\* after an event that is due: no event is before the start of the current
\* period, and the period is the one of the current bucket.
CalendarSound ==
  /\ \A b \in DOMAIN calendar.m_buckets :
       LET q == calendar.m_buckets[b]
       IN  /\ \A i \in DOMAIN q : Hash(calendar, q[i].ts) = b
           /\ \A i, j \in DOMAIN q : i < j => Before(q[i], q[j])
  /\ calendar.m_qSize = Cardinality(events)
  /\ \A e \in events : e.ts >= calendar.m_bucketTop - calendar.m_width
  /\ calendar.m_lastBucket
       = ((calendar.m_bucketTop \div calendar.m_width) - 1) % calendar.m_nBuckets

\* The heap is right as long as nothing was removed out of turn: ordered, and
\* with exactly the events of the list; even the Remove that may upset the
\* order loses and invents no event.
HeapSound ==
  /\ heapState = "exact" => InHeapOrder(heap)
  /\ heapState # "left" => HeapEvents(heap) = events /\ Len(heap) = Cardinality(events)

AsList == INSTANCE EventList WITH held <- Seqs!ToSet(list), returned <- returned.list
AsCalendar == INSTANCE EventList
                WITH held <- CalendarEvents(calendar),
                     returned <- returned.calendar

\* The list and the calendar, whatever its buckets and their width, hold what
\* was inserted and hand it out earliest first.
ListIsEventList == AsList!Spec
CalendarIsEventList == AsCalendar!Spec

\* heap-scheduler.h: "Heap kept sorted", so that the root is the next event.
HeapKeptSorted == InHeapOrder(heap)

\* The data structures of CalendarScheduler and HeapScheduler are consistent
\* after every insertion, removal and resize.
SchedulersSound == TypeOK /\ CalendarSound /\ HeapSound
=============================================================================
