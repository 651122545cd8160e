------------------------- MODULE CalendarScheduler -------------------------
(***************************************************************************)
(* ns3::CalendarScheduler (core/model/calendar-scheduler.cc) as operators  *)
(* on a record with the fields of the class.  A bucket is the sequence of  *)
(* its events, the next first (with the attribute Reverse the code stores  *)
(* it backwards and takes from the back).                                  *)
(***************************************************************************)
EXTENDS Events, Sequences
LOCAL INSTANCE SequencesExt
LOCAL INSTANCE FiniteSetsExt

CONSTANT MaxBuckets   \* 32768: the calendar does not grow beyond

ASSUME MaxBucketsAssumption == MaxBuckets \in Nat \ {0}

Hash(c, ts) == (ts \div c.m_width) % c.m_nBuckets

\* Init: empty buckets, and the search starts at the bucket of start.
CalendarInit(nBuckets, width, start) ==
  [m_buckets |-> [b \in 0 .. nBuckets - 1 |-> <<>>], m_nBuckets |-> nBuckets,
   m_width |-> width, m_lastPrio |-> start,
   m_lastBucket |-> (start \div width) % nBuckets,
   m_bucketTop |-> (start \div width + 1) * width, m_qSize |-> 0]

NewCalendar == CalendarInit(2, 1, 0)

\* DoInsert: before the first event of the bucket that it precedes.
DoInsert(c, e) ==
  LET q == c.m_buckets[Hash(c, e.ts)]
      n == Len(SelectSeq(q, LAMBDA f : ~ Before(e, f)))
  IN  [c EXCEPT !.m_buckets[Hash(c, e.ts)] = InsertAt(q, n + 1, e)]

\* The search of PeekNext and DoRemoveNext: the buckets in turn from the last
\* one, with the end of its period; the first whose next event falls within
\* it, and when a whole year has none, the earliest of the next events.
BucketAt(c, k) == c.m_buckets[(c.m_lastBucket + k) % c.m_nBuckets]
Due(c) ==
  {k \in 0 .. c.m_nBuckets - 1 :
     /\ BucketAt(c, k) # <<>>
     /\ Head(BucketAt(c, k)).ts < c.m_bucketTop + k * c.m_width}
FirstEvents(c) == {Head(c.m_buckets[b]) :
                     b \in {a \in DOMAIN c.m_buckets : c.m_buckets[a] # <<>>}}
PeekNextAnyYear(c) ==                                               \* mutant
  Head(BucketAt(c, Min({k \in 0 .. c.m_nBuckets - 1 : BucketAt(c, k) # <<>>})))
PeekNext(c) == IF Due(c) # {} THEN Head(BucketAt(c, Min(Due(c))))
               ELSE Earliest(FirstEvents(c))

\* DoRemoveNext: the search goes on from where it found the event.
DoRemoveNextKeepsTop(c) ==                                          \* mutant
  LET e == PeekNext(c)
  IN  [c EXCEPT !.m_buckets[Hash(c, e.ts)] = Tail(@), !.m_lastPrio = e.ts,
                !.m_lastBucket = Hash(c, e.ts)]
DoRemoveNext(c) ==
  LET e == PeekNext(c)
      k == Min(Due(c))
      d == [c EXCEPT !.m_buckets[Hash(c, e.ts)] = Tail(@), !.m_lastPrio = e.ts]
  IN  IF Due(c) # {}
      THEN [d EXCEPT !.m_lastBucket = (@ + k) % c.m_nBuckets,
                     !.m_bucketTop = @ + k * c.m_width]
      ELSE [d EXCEPT !.m_lastBucket = Hash(c, e.ts),
                     !.m_bucketTop = (e.ts \div c.m_width + 1) * c.m_width]

-----------------------------------------------------------------------------
(* Resizing *)

\* CalculateNewWidth: three times the separation of the first events, far ones
\* left out.  The events it takes out as samples it puts back where they were,
\* and it restores the state of the search.
NSamples(q) == Min({IF q <= 5 THEN q ELSE 5 + q \div 10, 25})
Samples(c) ==
  FoldLeft(LAMBDA s, k : [cal |-> DoRemoveNext(s.cal),
                          times |-> Append(s.times, PeekNext(s.cal).ts)],
           [cal |-> c, times |-> <<>>],
           [k \in 1 .. NSamples(c.m_qSize) |-> k]).times
CalculateNewWidth(c) ==
  IF c.m_qSize < 2 THEN 1
  ELSE LET t == Samples(c)
           diffs == [i \in 1 .. Len(t) - 1 |-> t[i + 1] - t[i]]
           twiceAvg == (FoldLeft(+, 0, diffs) \div Len(diffs)) * 2
           near == SelectSeq(diffs, LAMBDA d : d <= twiceAvg)
       IN  Max({3 * FoldLeft(+, 0, near), 1})

\* DoResize: a new calendar that starts at the time of the last event removed,
\* and every event inserted into it.
Resize(c, newSize) ==
  LET fresh == CalendarInit(newSize, CalculateNewWidth(c), c.m_lastPrio)
      all == FoldLeft(\o, <<>>, [i \in 1 .. c.m_nBuckets |-> c.m_buckets[i - 1]])
  IN  [FoldLeft(DoInsert, fresh, all) EXCEPT !.m_qSize = c.m_qSize]

ResizeUp(c) == IF c.m_qSize > c.m_nBuckets * 2 /\ c.m_nBuckets < MaxBuckets
               THEN Resize(c, c.m_nBuckets * 2) ELSE c
ResizeDown(c) == IF c.m_qSize < c.m_nBuckets \div 2
                 THEN Resize(c, c.m_nBuckets \div 2) ELSE c

-----------------------------------------------------------------------------
(* The operations of Scheduler *)

CalendarInsert(c, e) ==
  LET d == DoInsert(c, e) IN ResizeUp([d EXCEPT !.m_qSize = @ + 1])

CalendarRemoveNext(c) ==
  LET d == DoRemoveNext(c) IN ResizeDown([d EXCEPT !.m_qSize = @ - 1])

CalendarRemove(c, e) ==
  ResizeDown([c EXCEPT
    !.m_buckets[Hash(c, e.ts)] = SelectSeq(@, LAMBDA f : f.uid # e.uid),
    !.m_qSize = @ - 1])

CalendarEvents(c) == UNION {ToSet(c.m_buckets[b]) : b \in DOMAIN c.m_buckets}
=============================================================================
