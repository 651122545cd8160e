--------------------------- MODULE HeapScheduler ---------------------------
(***************************************************************************)
(* ns3::HeapScheduler (core/model/heap-scheduler.cc) as operators on the   *)
(* sequence h of its events: index 1 is the root, the children of i are    *)
(* 2i and 2i + 1.  A while loop of the code goes up or down one level per  *)
(* iteration, so it is iterated Len(h) times, the idle iterations included.*)
(***************************************************************************)
EXTENDS Events, Sequences
LOCAL INSTANCE SequencesExt

Exch(h, a, b) == [h EXCEPT ![a] = h[b], ![b] = h[a]]

\* s has the heap s.h and the index s.i; 0 is an index that stopped moving.
Iterate(step(_), s) ==
  FoldLeft(LAMBDA t, k : IF t.i = 0 THEN t ELSE step(t), s,
           [k \in 1 .. Len(s.h) |-> k])

BottomUp(h) ==
  LET step(s) ==
        IF s.i # 1 /\ Before(s.h[s.i], s.h[s.i \div 2])
        THEN [h |-> Exch(s.h, s.i, s.i \div 2), i |-> s.i \div 2]
        ELSE [s EXCEPT !.i = 0]
  IN  Iterate(step, [h |-> h, i |-> Len(h)]).h

TopDown(h, start) ==
  LET left(s) == 2 * s.i
      right(s) == 2 * s.i + 1
      child(s) == IF right(s) > Len(s.h) \/ Before(s.h[left(s)], s.h[right(s)])
                  THEN left(s) ELSE right(s)
      step(s) ==
        IF left(s) > Len(s.h) \/ Before(s.h[s.i], s.h[child(s)])
        THEN [s EXCEPT !.i = 0]
        ELSE [h |-> Exch(s.h, s.i, child(s)), i |-> child(s)]
  IN  Iterate(step, [h |-> h, i |-> start]).h

HeapInsert(h, e) == BottomUp(Append(h, e))

\* The last event takes the place of the one that leaves and sinks from there.
HeapRemoveAt(h, i) == TopDown(Front(Exch(h, i, Len(h))), i)
HeapRemoveNext(h) == HeapRemoveAt(h, 1)
HeapRemove(h, e) == HeapRemoveAt(h, CHOOSE i \in DOMAIN h : h[i].uid = e.uid)

InHeapOrder(h) == \A i \in 2 .. Len(h) : Before(h[i \div 2], h[i])
HeapEvents(h) == ToSet(h)
=============================================================================
