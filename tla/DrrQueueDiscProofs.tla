------------------------- MODULE DrrQueueDiscProofs -------------------------
(***************************************************************************)
(* Proofs about DrrQueueDisc for every set of flows, every quantum, every  *)
(* limit of the disc and of its children, and any number of packets: its   *)
(* list, books and capacity, the order of packets within a flow, that it   *)
(* implements the safety part of WorkConservingDisc, and that it is fair.  *)
(***************************************************************************)
EXTENDS DrrFairness, FiniteSetTheorems, TLAPS

(***************************************************************************)
(* Counting the packets in the queues of the flows of F                    *)
(***************************************************************************)

SlotsIn(F, q) == UNION {{f} \X (1 .. Len(q[f])) : f \in F}

Counted(F, q) == \A f \in F : Len(q[f]) \in Nat

\* The packets in the children of a disc are finitely many.
LEMMA SlotsFinite ==
  ASSUME NEW F, IsFiniteSet(F), NEW q, Counted(F, q)
  PROVE  IsFiniteSet(SlotsIn(F, q)) /\ Cardinality(SlotsIn(F, q)) \in Nat
<1> DEFINE part(f) == {f} \X (1 .. Len(q[f]))
           parts == {part(f) : f \in F}
           fn == [f \in F |-> part(f)]
<1>1. fn \in Surjection(F, parts)
  BY DEF Surjection
<1>2. IsFiniteSet(parts)
  BY <1>1, FS_Surjection
<1>3. ASSUME NEW f \in F PROVE IsFiniteSet(part(f))
  <2>1. IsFiniteSet(1 .. Len(q[f]))
    BY FS_Interval DEF Counted
  <2>2. IsFiniteSet({f})
    BY FS_Singleton
  <2> QED
    BY <2>1, <2>2, FS_Product
<1>4. IsFiniteSet(UNION parts)
  BY <1>2, <1>3, FS_UNION
<1> QED
  BY <1>4, FS_CardinalityType DEF SlotsIn

\* The queues r hold one packet more than q, in flow f.
OneMore(F, f, q, r) ==
  /\ Counted(F, q) /\ f \in F
  /\ Len(r[f]) = Len(q[f]) + 1
  /\ \A g \in F \ {f} : Len(r[g]) = Len(q[g])

\* They are one more in all.
LEMMA CountMore ==
  ASSUME NEW F, IsFiniteSet(F), NEW q, NEW r, NEW f, OneMore(F, f, q, r)
  PROVE  Cardinality(SlotsIn(F, r)) = Cardinality(SlotsIn(F, q)) + 1
<1> DEFINE new == <<f, Len(q[f]) + 1>>
<1>1. \A g \in F : Len(r[g]) = IF g = f THEN Len(q[g]) + 1 ELSE Len(q[g])
  BY DEF OneMore
<1>2. f \in F /\ \A g \in F : Len(q[g]) \in Nat
  BY DEF OneMore, Counted
<1>3. SlotsIn(F, r) = SlotsIn(F, q) \cup {new}
  BY <1>1, <1>2 DEF SlotsIn
<1>4. new \notin SlotsIn(F, q)
  BY <1>2 DEF SlotsIn
<1>5. IsFiniteSet(SlotsIn(F, q))
  BY <1>2, SlotsFinite DEF Counted
<1> QED
  BY <1>3, <1>4, <1>5, FS_AddElement

\* With every queue empty nothing is stored.
LEMMA CountEmpty ==
  ASSUME NEW F, NEW q, \A f \in F : Len(q[f]) = 0
  PROVE  Cardinality(SlotsIn(F, q)) = 0
<1>1. SlotsIn(F, q) = {}
  BY DEF SlotsIn
<1> QED
  BY <1>1, FS_EmptySet

(***************************************************************************)
(* The bytes of a child queue.  n is the total of the sizes in q when some *)
(* function c gives the partial sums; sizes being positive, c increases.   *)
(***************************************************************************)

\* The items of S have a positive size (QueueDiscItem::GetSize).
Sized(S) == \A x \in S : x.size \in Nat \ {0}

BytesOK(q, n) ==
  \E c \in [0 .. Len(q) -> Nat] :
    /\ c[0] = 0
    /\ c[Len(q)] = n
    /\ \A i \in 1 .. Len(q) : c[i] = c[i - 1] + q[i].size
    /\ \A i, j \in 0 .. Len(q) : i < j => c[i] < c[j]

\* The byte count of a child follows an enqueue ...
LEMMA BytesAppend ==
  ASSUME NEW S, Sized(S), NEW q \in Seq(S), NEW n \in Nat, NEW x \in S, BytesOK(q, n)
  PROVE  BytesOK(Append(q, x), n + x.size)
<1>1. PICK c \in [0 .. Len(q) -> Nat] :
        /\ c[0] = 0
        /\ c[Len(q)] = n
        /\ \A i \in 1 .. Len(q) : c[i] = c[i - 1] + q[i].size
        /\ \A i, j \in 0 .. Len(q) : i < j => c[i] < c[j]
  BY DEF BytesOK
<1> DEFINE m == Len(q)
           r == Append(q, x)
           d == [i \in 0 .. m + 1 |-> IF i = m + 1 THEN n + x.size ELSE c[i]]
<1>2. m \in Nat /\ Len(r) = m + 1 /\ x.size \in Nat \ {0}
  BY DEF Sized
<1>3. \A i \in 1 .. m + 1 : r[i] = IF i = m + 1 THEN x ELSE q[i]
  OBVIOUS
<1>4. d \in [0 .. Len(r) -> Nat] /\ d[0] = 0 /\ d[Len(r)] = n + x.size
  BY <1>1, <1>2
<1>5. \A i \in 1 .. Len(r) : d[i] = d[i - 1] + r[i].size
  <2> SUFFICES ASSUME NEW i \in 1 .. m + 1 PROVE d[i] = d[i - 1] + r[i].size
    BY <1>2
  <2>1. CASE i = m + 1
    BY <2>1, <1>1, <1>2, <1>3
  <2>2. CASE i \in 1 .. m
    BY <2>2, <1>1, <1>2, <1>3
  <2> QED
    BY <2>1, <2>2, <1>2
<1>6. \A i, j \in 0 .. Len(r) : i < j => d[i] < d[j]
  <2> SUFFICES ASSUME NEW i \in 0 .. m + 1, NEW j \in 0 .. m + 1, i < j
               PROVE  d[i] < d[j]
    BY <1>2
  <2>1. i \in 0 .. m /\ c[i] \in Nat
    <3>1. i \in 0 .. m
      BY <1>2
    <3> QED
      BY <1>1, <3>1
  <2>2. c[i] <= n
    <3>1. CASE i = m
      BY <3>1, <1>1
    <3>2. CASE i < m
      BY <3>2, <2>1, <1>1, <1>2
    <3> QED
      BY <3>1, <3>2, <2>1, <1>2
  <2>3. CASE j = m + 1
    BY <2>1, <2>2, <2>3, <1>2
  <2>4. CASE j \in 0 .. m
    BY <2>1, <2>4, <1>1, <1>2
  <2> QED
    BY <2>3, <2>4, <1>2
<1> QED
  BY <1>4, <1>5, <1>6 DEF BytesOK

\* ... and a dequeue, which takes no more than is counted.
LEMMA BytesTail ==
  ASSUME NEW S, Sized(S), NEW q \in Seq(S), NEW n \in Nat, q # <<>>, BytesOK(q, n)
  PROVE  n - Head(q).size \in Nat /\ BytesOK(Tail(q), n - Head(q).size)
<1>1. PICK c \in [0 .. Len(q) -> Nat] :
        /\ c[0] = 0
        /\ c[Len(q)] = n
        /\ \A i \in 1 .. Len(q) : c[i] = c[i - 1] + q[i].size
        /\ \A i, j \in 0 .. Len(q) : i < j => c[i] < c[j]
  BY DEF BytesOK
<1> DEFINE m == Len(q)
           r == Tail(q)
           d == [i \in 0 .. m - 1 |-> c[i + 1] - c[1]]
<1>2. m \in Nat \ {0} /\ Len(r) = m - 1
  OBVIOUS
<1>3. Head(q) = q[1] /\ q[1].size \in Nat /\ c[1] = q[1].size
  <2>1. Head(q) = q[1] /\ 1 \in 1 .. Len(q)
    BY <1>2
  <2>2. q[1].size \in Nat
    BY <2>1 DEF Sized
  <2> QED
    BY <2>1, <2>2, <1>1, <1>2
<1>4. \A i \in 1 .. m - 1 : r[i] = q[i + 1]
  OBVIOUS
<1>5. \A i \in 0 .. m - 1 : c[i + 1] \in Nat /\ c[1] <= c[i + 1]
  <2> SUFFICES ASSUME NEW i \in 0 .. m - 1
               PROVE  c[i + 1] \in Nat /\ c[1] <= c[i + 1]
    OBVIOUS
  <2>1. 1 \in 0 .. Len(q) /\ i + 1 \in 0 .. Len(q)
    BY <1>2
  <2>2. c[1] \in Nat /\ c[i + 1] \in Nat
    BY <2>1
  <2>3. CASE i = 0
    BY <2>2, <2>3
  <2>4. CASE i > 0
    <3>1. c[1] < c[i + 1]
      BY <2>1, <2>4, <1>1
    <3> QED
      BY <2>2, <3>1
  <2> QED
    BY <2>3, <2>4
<1>6. n - Head(q).size \in Nat
  BY <1>1, <1>2, <1>3, <1>5
<1>7. d \in [0 .. Len(r) -> Nat] /\ d[0] = 0 /\ d[Len(r)] = n - Head(q).size
  BY <1>1, <1>2, <1>3, <1>5
<1>8. \A i \in 1 .. Len(r) : d[i] = d[i - 1] + r[i].size
  <2> SUFFICES ASSUME NEW i \in 1 .. m - 1 PROVE d[i] = d[i - 1] + r[i].size
    BY <1>2
  <2>1. c[i + 1] = c[i] + q[i + 1].size
    BY <1>1, <1>2
  <2>2. d[i] = c[i + 1] - c[1] /\ d[i - 1] = c[i] - c[1]
    BY <1>2
  <2>3. i + 1 \in 1 .. Len(q) /\ c[i] \in Nat
    BY <1>1, <1>2
  <2>4. q[i + 1].size \in Nat
    BY <2>3 DEF Sized
  <2> QED
    BY <2>1, <2>2, <2>3, <2>4, <1>1, <1>2, <1>4, SMTT(30)
<1>9. \A i, j \in 0 .. Len(r) : i < j => d[i] < d[j]
  <2> SUFFICES ASSUME NEW i \in 0 .. m - 1, NEW j \in 0 .. m - 1, i < j
               PROVE  d[i] < d[j]
    BY <1>2
  <2>1. d[i] = c[i + 1] - c[1] /\ d[j] = c[j + 1] - c[1]
    BY <1>2
  <2>2. c[i + 1] < c[j + 1]
    BY <1>1, <1>2
  <2>3. c[1] \in Nat /\ c[i + 1] \in Nat /\ c[j + 1] \in Nat
    BY <1>1, <1>2
  <2> QED
    BY <2>1, <2>2, <2>3
<1> QED
  BY <1>6, <1>7, <1>8, <1>9 DEF BytesOK

\* A child holds bytes exactly when it holds packets.
LEMMA BytesPositive ==
  ASSUME NEW S, Sized(S), NEW q \in Seq(S), NEW n \in Nat, BytesOK(q, n)
  PROVE  n > 0 <=> q # <<>>
<1>1. PICK c \in [0 .. Len(q) -> Nat] :
        /\ c[0] = 0
        /\ c[Len(q)] = n
        /\ \A i, j \in 0 .. Len(q) : i < j => c[i] < c[j]
  BY DEF BytesOK
<1> QED
  BY <1>1

\* A child starts with no bytes.
LEMMA BytesEmpty == BytesOK(<<>>, 0)
<1> DEFINE c == [i \in 0 .. 0 |-> 0]
<1>1. Len(<<>>) = 0
  OBVIOUS
<1>2. c \in [0 .. 0 -> Nat] /\ c[0] = 0
  OBVIOUS
<1>3. \A i \in 1 .. 0 : c[i] = c[i - 1] + <<>>[i].size
  OBVIOUS
<1>4. \A i, j \in 0 .. 0 : i < j => c[i] < c[j]
  OBVIOUS
<1> HIDE DEF c
<1> QED
  BY <1>1, <1>2, <1>3, <1>4 DEF BytesOK

(***************************************************************************)
(* Lists without duplicates, such as the list of the flows of a disc       *)
(***************************************************************************)

Distinct(l) == \A i, j \in DOMAIN l : l[i] = l[j] => i = j
In(f, l) == \E i \in DOMAIN l : l[i] = f

\* pop_front of a list without duplicates.
LEMMA ListTail ==
  ASSUME NEW S, NEW l \in Seq(S), l # <<>>, Distinct(l)
  PROVE  /\ Head(l) \in S /\ In(Head(l), l)
         /\ Tail(l) \in Seq(S)
         /\ Distinct(Tail(l))
         /\ \A g \in S : In(g, Tail(l)) <=> (g # Head(l) /\ In(g, l))
         /\ \A i \in DOMAIN Tail(l) : Tail(l)[i] = l[i + 1] /\ i + 1 \in DOMAIN l
         /\ <<Head(l)>> \o Tail(l) = l
<1> DEFINE t == Tail(l)
<1>1. /\ Len(l) \in Nat \ {0} /\ DOMAIN l = 1 .. Len(l) /\ Head(l) = l[1]
      /\ Head(l) \in S /\ t \in Seq(S)
      /\ Len(t) = Len(l) - 1 /\ DOMAIN t = 1 .. Len(l) - 1
  OBVIOUS
<1>2. \A i \in 1 .. Len(l) - 1 : t[i] = l[i + 1] /\ i + 1 \in 1 .. Len(l)
  BY <1>1
<1>3. Distinct(t)
  BY <1>1, <1>2 DEF Distinct
<1>4. ASSUME NEW g \in S PROVE In(g, t) <=> (g # Head(l) /\ In(g, l))
  <2>1. ASSUME In(g, t) PROVE g # Head(l) /\ In(g, l)
    BY <2>1, <1>1, <1>2 DEF In, Distinct
  <2>2. ASSUME g # Head(l), In(g, l) PROVE In(g, t)
    <3>1. PICK i \in 1 .. Len(l) : l[i] = g
      BY <2>2, <1>1 DEF In
    <3>2. i - 1 \in 1 .. Len(l) - 1 /\ t[i - 1] = l[i]
      BY <3>1, <2>2, <1>1, <1>2
    <3> QED
      BY <3>1, <3>2, <1>1 DEF In
  <2> QED
    BY <2>1, <2>2
<1>5. <<Head(l)>> \o t = l
  <2> DEFINE r == <<Head(l)>> \o t
  <2>1. r \in Seq(S) /\ Len(r) = Len(l)
    BY <1>1
  <2>2. \A i \in 1 .. Len(l) : r[i] = l[i]
    BY <1>1, <1>2
  <2> QED
    BY <2>1, <2>2, <1>1
<1>6. In(Head(l), l)
  BY <1>1 DEF In
<1> QED
  BY <1>1, <1>2, <1>3, <1>4, <1>5, <1>6

\* push_back on a list that does not hold the flow.
LEMMA ListAppend ==
  ASSUME NEW S, NEW l \in Seq(S), NEW f \in S, Distinct(l), ~ In(f, l)
  PROVE  /\ Append(l, f) \in Seq(S)
         /\ Distinct(Append(l, f))
         /\ \A g \in S : In(g, Append(l, f)) <=> (g = f \/ In(g, l))
         /\ \A i \in DOMAIN Append(l, f) :
              Append(l, f)[i] = f \/ (i \in DOMAIN l /\ Append(l, f)[i] = l[i])
<1> DEFINE r == Append(l, f)
<1>1. /\ Len(l) \in Nat /\ DOMAIN l = 1 .. Len(l)
      /\ r \in Seq(S) /\ DOMAIN r = 1 .. Len(l) + 1
  OBVIOUS
<1>2. \A i \in 1 .. Len(l) + 1 : r[i] = IF i = Len(l) + 1 THEN f ELSE l[i]
  OBVIOUS
<1>3. Distinct(r)
  BY <1>1, <1>2 DEF Distinct, In
<1>4. \A g \in S : In(g, r) <=> (g = f \/ In(g, l))
  BY <1>1, <1>2 DEF In
<1> QED
  BY <1>1, <1>2, <1>3, <1>4

\* Who is ahead of whom.
Ahead(l, x, y) == \E i, j \in DOMAIN l : i < j /\ l[i] = x /\ l[j] = y

\* pop_front keeps who is ahead of whom ...
LEMMA AheadTail ==
  ASSUME NEW S, NEW l \in Seq(S), l # <<>>, NEW x, NEW y, Ahead(Tail(l), x, y)
  PROVE  Ahead(l, x, y) /\ In(x, Tail(l)) /\ In(y, Tail(l))
<1>1. /\ DOMAIN Tail(l) = 1 .. Len(l) - 1 /\ DOMAIN l = 1 .. Len(l) /\ Len(l) \in Nat
      /\ \A i \in 1 .. Len(l) - 1 : Tail(l)[i] = l[i + 1]
  OBVIOUS
<1>2. PICK i \in 1 .. Len(l) - 1, j \in 1 .. Len(l) - 1 :
        i < j /\ Tail(l)[i] = x /\ Tail(l)[j] = y
  BY <1>1 DEF Ahead
<1>3. /\ i + 1 \in DOMAIN l /\ j + 1 \in DOMAIN l /\ i + 1 < j + 1
      /\ l[i + 1] = x /\ l[j + 1] = y
  BY <1>1, <1>2
<1> QED
  BY <1>1, <1>2, <1>3 DEF Ahead, In

\* ... and push_back puts a flow behind all others.
LEMMA AheadAppend ==
  ASSUME NEW S, NEW l \in Seq(S), NEW f \in S, NEW x, NEW y, Ahead(Append(l, f), x, y)
  PROVE  In(x, l) /\ (Ahead(l, x, y) \/ y = f)
<1> DEFINE r == Append(l, f)
<1>1. /\ DOMAIN r = 1 .. Len(l) + 1 /\ DOMAIN l = 1 .. Len(l) /\ Len(l) \in Nat
      /\ r[Len(l) + 1] = f /\ \A i \in 1 .. Len(l) : r[i] = l[i]
  OBVIOUS
<1>2. PICK i \in 1 .. Len(l) + 1, j \in 1 .. Len(l) + 1 : i < j /\ r[i] = x /\ r[j] = y
  BY <1>1 DEF Ahead
<1> HIDE DEF r
<1>3. i \in 1 .. Len(l) /\ l[i] = x
  BY <1>1, <1>2
<1>4. CASE j = Len(l) + 1
  BY <1>1, <1>2, <1>3, <1>4 DEF In
<1>5. CASE j \in 1 .. Len(l)
  BY <1>1, <1>2, <1>3, <1>5 DEF In, Ahead
<1> QED
  BY <1>1, <1>2, <1>4, <1>5

\* The head of the list is ahead of every other flow in it.
LEMMA HeadAhead ==
  ASSUME NEW S, NEW l \in Seq(S), l # <<>>, NEW x, In(x, l), x # Head(l)
  PROVE  Ahead(l, Head(l), x)
<1>1. PICK j \in 1 .. Len(l) : l[j] = x
  BY DEF In
<1>2. /\ 1 \in DOMAIN l /\ j \in DOMAIN l /\ Head(l) = l[1] /\ j # 1
      /\ Len(l) \in Nat /\ DOMAIN l = 1 .. Len(l)
  BY <1>1
<1>3. 1 < j
  BY <1>1, <1>2
<1> QED
  BY <1>1, <1>2, <1>3 DEF Ahead

\* Of two flows in the list one is ahead.
LEMMA OneAhead ==
  ASSUME NEW S, NEW l \in Seq(S), NEW x, NEW y, In(x, l), In(y, l), x # y
  PROVE  Ahead(l, x, y) \/ Ahead(l, y, x)
<1>1. PICK i \in DOMAIN l, j \in DOMAIN l : l[i] = x /\ l[j] = y
  BY DEF In
<1>2. i \in Int /\ j \in Int /\ i # j
  BY <1>1
<1>3. i < j \/ j < i
  BY <1>2
<1> QED
  BY <1>1, <1>3 DEF Ahead

(***************************************************************************)
(* The children of the disc                                                *)
(***************************************************************************)

Queues == [Flows -> Seq(Item)]

\* Every packet has a positive size (QueueDiscItem::GetSize).
LEMMA ItemsSized == Sized(Item)
BY SizesAssumption DEF Sized, Item

\* The packets in the children of the disc, and how their number follows an
\* enqueue and a dequeue.
LEMMA Counting ==
  ASSUME NEW q \in Queues
  PROVE  /\ Cardinality(SlotsOf(q)) \in Nat
         /\ (\A f \in Flows : q[f] = <<>>) => Cardinality(SlotsOf(q)) = 0
         /\ \A f \in Flows, x \in Item :
              Cardinality(SlotsOf([q EXCEPT ![f] = Append(@, x)]))
                = Cardinality(SlotsOf(q)) + 1
         /\ \A f \in Flows : q[f] # <<>> =>
              /\ Cardinality(SlotsOf(q)) \in Nat \ {0}
              /\ Cardinality(SlotsOf([q EXCEPT ![f] = Tail(@)]))
                   = Cardinality(SlotsOf(q)) - 1
<1> DEFINE N(r) == Cardinality(SlotsIn(Flows, r))
<1>1. \A r : Cardinality(SlotsOf(r)) = N(r)
  BY DEF SlotsOf, SlotsIn
<1>2. ASSUME NEW r \in Queues PROVE Counted(Flows, r) /\ N(r) \in Nat
  BY FlowsAssumption, SlotsFinite DEF Counted, Queues
<1>3. (\A f \in Flows : q[f] = <<>>) => N(q) = 0
  BY CountEmpty
<1>4. ASSUME NEW f \in Flows, NEW x \in Item
      PROVE  N([q EXCEPT ![f] = Append(@, x)]) = N(q) + 1
  <2>1. OneMore(Flows, f, q, [q EXCEPT ![f] = Append(@, x)])
    BY <1>2 DEF Queues, OneMore
  <2> QED
    BY <2>1, FlowsAssumption, CountMore
<1>5. ASSUME NEW f \in Flows, q[f] # <<>>
      PROVE  N(q) = N([q EXCEPT ![f] = Tail(@)]) + 1 /\ N([q EXCEPT ![f] = Tail(@)]) \in Nat
  <2>1. [q EXCEPT ![f] = Tail(@)] \in Queues
    BY <1>5 DEF Queues
  <2>2. OneMore(Flows, f, [q EXCEPT ![f] = Tail(@)], q)
    <3>1. Counted(Flows, [q EXCEPT ![f] = Tail(@)])
      BY <1>2, <2>1
    <3>2. Len(q[f]) = Len([q EXCEPT ![f] = Tail(@)][f]) + 1
      BY <1>5 DEF Queues
    <3>3. \A g \in Flows \ {f} : Len(q[g]) = Len([q EXCEPT ![f] = Tail(@)][g])
      BY DEF Queues
    <3> QED
      BY <3>1, <3>2, <3>3 DEF OneMore
  <2> QED
    BY <1>2, <2>1, <2>2, FlowsAssumption, CountMore
<1> HIDE DEF N
<1>6. \A f \in Flows : q[f] # <<>> =>
        N(q) \in Nat \ {0} /\ N([q EXCEPT ![f] = Tail(@)]) = N(q) - 1
  BY <1>5
<1> QED
  BY <1>1, <1>2, <1>3, <1>4, <1>6

(***************************************************************************)
(* The bookkeeping operators of QueueDisc                                  *)
(***************************************************************************)

\* A packet is received and stored by its child ...
LEMMA StoreBooks ==
  ASSUME NEW b \in Base(Item)
  PROVE  LET c == PacketEnqueued(PacketReceived(b))
         IN  /\ c \in Base(Item)
             /\ c.m_nPackets = b.m_nPackets + 1
             /\ c.m_requeued = b.m_requeued
             /\ c.m_peeked = b.m_peeked
             /\ c.nTotalReceived = b.nTotalReceived + 1
             /\ c.nTotalEnqueued = b.nTotalEnqueued + 1
             /\ c.nTotalDequeued = b.nTotalDequeued
             /\ c.nTotalDroppedBeforeEnqueue = b.nTotalDroppedBeforeEnqueue
             /\ c.nTotalDroppedAfterDequeue = b.nTotalDroppedAfterDequeue
<1> DEFINE c == PacketEnqueued(PacketReceived(b))
<1>1. \A k \in Nat : k + 1 \in Nat
  BY DEF Base
<1>2. c \in Base(Item)
  BY <1>1, Zenon DEF PacketEnqueued, PacketReceived, Base
<1>3. /\ c.m_nPackets = b.m_nPackets + 1
      /\ c.m_requeued = b.m_requeued
      /\ c.m_peeked = b.m_peeked
      /\ c.nTotalReceived = b.nTotalReceived + 1
      /\ c.nTotalEnqueued = b.nTotalEnqueued + 1
      /\ c.nTotalDequeued = b.nTotalDequeued
      /\ c.nTotalDroppedBeforeEnqueue = b.nTotalDroppedBeforeEnqueue
      /\ c.nTotalDroppedAfterDequeue = b.nTotalDroppedAfterDequeue
  BY DEF PacketEnqueued, PacketReceived, Base
<1> QED
  BY <1>2, <1>3

\* ... or received and refused by it.
LEMMA RefuseBooks ==
  ASSUME NEW b \in Base(Item)
  PROVE  LET c == DropBeforeEnqueue(PacketReceived(b))
         IN  /\ c \in Base(Item)
             /\ c.m_nPackets = b.m_nPackets
             /\ c.m_requeued = b.m_requeued
             /\ c.m_peeked = b.m_peeked
             /\ c.nTotalReceived = b.nTotalReceived + 1
             /\ c.nTotalEnqueued = b.nTotalEnqueued
             /\ c.nTotalDequeued = b.nTotalDequeued
             /\ c.nTotalDroppedBeforeEnqueue = b.nTotalDroppedBeforeEnqueue + 1
             /\ c.nTotalDroppedAfterDequeue = b.nTotalDroppedAfterDequeue
<1> DEFINE c == DropBeforeEnqueue(PacketReceived(b))
<1>1. \A k \in Nat : k + 1 \in Nat
  BY DEF Base
<1>2. c \in Base(Item)
  BY <1>1, Zenon DEF DropBeforeEnqueue, PacketReceived, Base
<1>3. /\ c.m_nPackets = b.m_nPackets
      /\ c.m_requeued = b.m_requeued
      /\ c.m_peeked = b.m_peeked
      /\ c.nTotalReceived = b.nTotalReceived + 1
      /\ c.nTotalEnqueued = b.nTotalEnqueued
      /\ c.nTotalDequeued = b.nTotalDequeued
      /\ c.nTotalDroppedBeforeEnqueue = b.nTotalDroppedBeforeEnqueue + 1
      /\ c.nTotalDroppedAfterDequeue = b.nTotalDroppedAfterDequeue
  BY DEF DropBeforeEnqueue, PacketReceived, Base
<1> QED
  BY <1>2, <1>3

\* An overflow drop counts the same whether or not a packet is being peeked.
LEMMA DropBooks ==
  ASSUME NEW b \in Base(Item), b.m_nPackets > 0
  PROVE  LET c == DropAfterDequeue(PacketDequeued(b))
         IN  /\ c \in Base(Item)
             /\ c.m_nPackets = b.m_nPackets - 1
             /\ c.m_requeued = b.m_requeued
             /\ c.m_peeked = b.m_peeked
             /\ c.nTotalReceived = b.nTotalReceived
             /\ c.nTotalEnqueued = b.nTotalEnqueued
             /\ c.nTotalDequeued = b.nTotalDequeued + 1
             /\ c.nTotalDroppedBeforeEnqueue = b.nTotalDroppedBeforeEnqueue
             /\ c.nTotalDroppedAfterDequeue = b.nTotalDroppedAfterDequeue + 1
<1> DEFINE c == DropAfterDequeue(PacketDequeued(b))
<1>1. b.m_nPackets - 1 \in Nat /\ \A k \in Nat : k + 1 \in Nat
  BY DEF Base
<1>2. CASE b.m_peeked
  <2>1. c \in Base(Item)
    BY <1>1, <1>2, Zenon DEF DropAfterDequeue, PacketDequeued, CountDequeued, Base
  <2>2. /\ c.m_nPackets = b.m_nPackets - 1
        /\ c.m_requeued = b.m_requeued
        /\ c.m_peeked = b.m_peeked
        /\ c.nTotalReceived = b.nTotalReceived
        /\ c.nTotalEnqueued = b.nTotalEnqueued
        /\ c.nTotalDequeued = b.nTotalDequeued + 1
        /\ c.nTotalDroppedBeforeEnqueue = b.nTotalDroppedBeforeEnqueue
        /\ c.nTotalDroppedAfterDequeue = b.nTotalDroppedAfterDequeue + 1
    BY <1>2 DEF DropAfterDequeue, PacketDequeued, CountDequeued, Base
  <2> QED
    BY <2>1, <2>2
<1>3. CASE ~ b.m_peeked
  <2>1. c \in Base(Item)
    BY <1>1, <1>3, Zenon DEF DropAfterDequeue, PacketDequeued, CountDequeued, Base
  <2>2. /\ c.m_nPackets = b.m_nPackets - 1
        /\ c.m_requeued = b.m_requeued
        /\ c.m_peeked = b.m_peeked
        /\ c.nTotalReceived = b.nTotalReceived
        /\ c.nTotalEnqueued = b.nTotalEnqueued
        /\ c.nTotalDequeued = b.nTotalDequeued + 1
        /\ c.nTotalDroppedBeforeEnqueue = b.nTotalDroppedBeforeEnqueue
        /\ c.nTotalDroppedAfterDequeue = b.nTotalDroppedAfterDequeue + 1
    BY <1>3 DEF DropAfterDequeue, PacketDequeued, CountDequeued, Base
  <2> QED
    BY <2>1, <2>2
<1> QED
  BY <1>2, <1>3

\* A peeked packet is handed out.
LEMMA ReleaseBooks ==
  ASSUME NEW b \in Base(Item), b.m_nPackets > 0, b.m_peeked
  PROVE  LET c == ReleaseRequeued(b)
         IN  /\ c \in Base(Item)
             /\ c.m_nPackets = b.m_nPackets - 1
             /\ c.m_requeued = NoItem
             /\ c.m_peeked = FALSE
             /\ c.nTotalReceived = b.nTotalReceived
             /\ c.nTotalEnqueued = b.nTotalEnqueued
             /\ c.nTotalDequeued = b.nTotalDequeued + 1
             /\ c.nTotalDroppedBeforeEnqueue = b.nTotalDroppedBeforeEnqueue
             /\ c.nTotalDroppedAfterDequeue = b.nTotalDroppedAfterDequeue
<1> DEFINE c == ReleaseRequeued(b)
<1>1. b.m_nPackets - 1 \in Nat /\ \A k \in Nat : k + 1 \in Nat
  BY DEF Base
<1>2. c \in Base(Item)
  BY <1>1, Zenon DEF ReleaseRequeued, CountDequeued, Base
<1>3. /\ c.m_nPackets = b.m_nPackets - 1
      /\ c.m_requeued = NoItem
      /\ c.m_peeked = FALSE
      /\ c.nTotalReceived = b.nTotalReceived
      /\ c.nTotalEnqueued = b.nTotalEnqueued
      /\ c.nTotalDequeued = b.nTotalDequeued + 1
      /\ c.nTotalDroppedBeforeEnqueue = b.nTotalDroppedBeforeEnqueue
      /\ c.nTotalDroppedAfterDequeue = b.nTotalDroppedAfterDequeue
  BY DEF ReleaseRequeued, CountDequeued, Base
<1> QED
  BY <1>2, <1>3

\* A packet is dequeued for the caller ...
LEMMA DequeueBooks ==
  ASSUME NEW b \in Base(Item), b.m_nPackets > 0, ~ b.m_peeked
  PROVE  LET c == PacketDequeued(b)
         IN  /\ c \in Base(Item)
             /\ c.m_nPackets = b.m_nPackets - 1
             /\ c.m_requeued = b.m_requeued
             /\ c.m_peeked = b.m_peeked
             /\ c.nTotalReceived = b.nTotalReceived
             /\ c.nTotalEnqueued = b.nTotalEnqueued
             /\ c.nTotalDequeued = b.nTotalDequeued + 1
             /\ c.nTotalDroppedBeforeEnqueue = b.nTotalDroppedBeforeEnqueue
             /\ c.nTotalDroppedAfterDequeue = b.nTotalDroppedAfterDequeue
<1> DEFINE c == PacketDequeued(b)
<1>1. b.m_nPackets - 1 \in Nat /\ \A k \in Nat : k + 1 \in Nat
  BY DEF Base
<1>2. c \in Base(Item)
  BY <1>1, Zenon DEF PacketDequeued, CountDequeued, Base
<1>3. /\ c.m_nPackets = b.m_nPackets - 1
      /\ c.m_requeued = b.m_requeued
      /\ c.m_peeked = b.m_peeked
      /\ c.nTotalReceived = b.nTotalReceived
      /\ c.nTotalEnqueued = b.nTotalEnqueued
      /\ c.nTotalDequeued = b.nTotalDequeued + 1
      /\ c.nTotalDroppedBeforeEnqueue = b.nTotalDroppedBeforeEnqueue
      /\ c.nTotalDroppedAfterDequeue = b.nTotalDroppedAfterDequeue
  BY DEF PacketDequeued, CountDequeued, Base
<1> QED
  BY <1>2, <1>3

\* ... or set aside by a peek, in which case it is still counted.
LEMMA PeekBooks ==
  ASSUME NEW b \in Base(Item), b.m_peeked, NEW x \in Item
  PROVE  LET c == KeepPeeked(PacketDequeued(b), x)
         IN  /\ c \in Base(Item)
             /\ c.m_nPackets = b.m_nPackets
             /\ c.m_requeued = x
             /\ c.m_peeked = TRUE
             /\ c.nTotalReceived = b.nTotalReceived
             /\ c.nTotalEnqueued = b.nTotalEnqueued
             /\ c.nTotalDequeued = b.nTotalDequeued
             /\ c.nTotalDroppedBeforeEnqueue = b.nTotalDroppedBeforeEnqueue
             /\ c.nTotalDroppedAfterDequeue = b.nTotalDroppedAfterDequeue
<1> DEFINE c == KeepPeeked(PacketDequeued(b), x)
<1>1. x # NoItem
  BY NoItemAssumption
<1>2. c \in Base(Item)
  BY <1>1, Zenon DEF PacketDequeued, KeepPeeked, Base
<1>3. /\ c.m_nPackets = b.m_nPackets
      /\ c.m_requeued = x
      /\ c.m_peeked = TRUE
      /\ c.nTotalReceived = b.nTotalReceived
      /\ c.nTotalEnqueued = b.nTotalEnqueued
      /\ c.nTotalDequeued = b.nTotalDequeued
      /\ c.nTotalDroppedBeforeEnqueue = b.nTotalDroppedBeforeEnqueue
      /\ c.nTotalDroppedAfterDequeue = b.nTotalDroppedAfterDequeue
  BY <1>1 DEF PacketDequeued, KeepPeeked, Base
<1> QED
  BY <1>2, <1>3

(***************************************************************************)
(* The inductive invariant                                                 *)
(***************************************************************************)

\* The books, with the exact value of m_currentQueueSize: one slot more than is
\* stored for every packet a child has refused.  Induction needs the exact value;
\* the property BooksBalance asks for no more than the header promises.
BooksInv ==
  /\ AssertEnqueue(root)
  /\ AssertDequeue(root)
  /\ root.m_nPackets = NStored + Held(root)
  /\ m_currentQueueSize = NStored + root.nTotalDroppedBeforeEnqueue
  /\ pc = "idle" => (root.m_peeked <=> root.m_requeued # NoItem)
  /\ pc = "loop" => root.m_requeued = NoItem

IInv ==
  /\ TypeOK
  /\ ActiveListSound
  /\ BooksInv
  /\ \A f \in Flows : BytesOK(fifo[f], m_nBytes[f])
  /\ m_currentQueueSize <= MaxQueueSize

\* A new disc satisfies the invariant.
LEMMA InitIInv == Init => IInv
<1> SUFFICES ASSUME Init PROVE IInv
  OBVIOUS
<1>1. TypeOK
  BY QuantumAssumption, WidthAssumption DEF Init, TypeOK, NewBase, Base
<1>2. ActiveListSound
  BY DEF Init, ActiveListSound
<1>3. BooksInv
  <2>1. NStored = 0
    BY Counting, <1>1 DEF Init, NStored, Queues, TypeOK
  <2> QED
    BY <2>1 DEF Init, BooksInv, NewBase, AssertEnqueue, AssertDequeue, Held
<1>4. \A f \in Flows : BytesOK(fifo[f], m_nBytes[f])
  BY BytesEmpty DEF Init
<1>5. m_currentQueueSize <= MaxQueueSize
  BY LimitsAssumption DEF Init
<1> QED
  BY <1>1, <1>2, <1>3, <1>4, <1>5 DEF IInv

\* Sums and differences that go through ToInt32 stay an int32_t.
LEMMA Int32Range ==
  ASSUME NEW n \in Int, n < 2 * Int32Half, n >= - 2 * Int32Half
  PROVE  ToInt32(n) \in - Int32Half .. Int32Half - 1
BY WidthAssumption DEF ToInt32

\* Handing out a peeked packet preserves the invariant.
LEMMA DequeueRequeuedIInv ==
  ASSUME IInv, DequeueRequeued
  PROVE  IInv'
<1>1. root.m_peeked /\ root.m_nPackets = NStored + 1 /\ NStored \in Nat
  <2>1. root.m_peeked /\ Held(root) = 1
    BY DEF IInv, BooksInv, DequeueRequeued, Held
  <2> QED
    BY <2>1, Counting
    DEF IInv, BooksInv, NStored, TypeOK, Queues
<1>2. root \in Base(Item) /\ root.m_nPackets > 0 /\ root' = ReleaseRequeued(root)
  BY <1>1 DEF DequeueRequeued, IInv, TypeOK
<1>3. /\ root' \in Base(Item)
      /\ root'.m_nPackets = root.m_nPackets - 1
      /\ root'.m_requeued = NoItem
      /\ root'.m_peeked = FALSE
      /\ root'.nTotalReceived = root.nTotalReceived
      /\ root'.nTotalEnqueued = root.nTotalEnqueued
      /\ root'.nTotalDequeued = root.nTotalDequeued + 1
      /\ root'.nTotalDroppedBeforeEnqueue = root.nTotalDroppedBeforeEnqueue
      /\ root'.nTotalDroppedAfterDequeue = root.nTotalDroppedAfterDequeue
  BY <1>1, <1>2, ReleaseBooks
<1>6. TypeOK'
  BY <1>3 DEF IInv, TypeOK, DequeueRequeued, flowVars
<1>4. ActiveListSound'
  BY DEF IInv, ActiveListSound, DequeueRequeued, flowVars
<1>5. BooksInv'
  <2>1. NStored' = NStored
    BY DEF DequeueRequeued, flowVars, NStored
  <2> QED
    BY <1>1, <1>2, <1>3, <2>1 DEF IInv, BooksInv, DequeueRequeued, Base,
       AssertEnqueue, AssertDequeue, Held
<1> QED
  BY <1>4, <1>5, <1>6 DEF IInv, DequeueRequeued, flowVars

\* So does the entry of DoDequeue from QueueDisc::Dequeue ...
LEMMA DequeueIInv ==
  ASSUME IInv, Dequeue
  PROVE  IInv'
<1>1. TypeOK'
  BY DEF IInv, TypeOK, Dequeue, flowVars
<1>2. ActiveListSound'
  BY DEF IInv, ActiveListSound, Dequeue, flowVars
<1>3. BooksInv'
  <2>1. NStored' = NStored
    BY DEF Dequeue, flowVars, NStored
  <2> QED
    BY <2>1 DEF IInv, BooksInv, Dequeue, AssertEnqueue, AssertDequeue, Held
<1> QED
  BY <1>1, <1>2, <1>3 DEF IInv, Dequeue, flowVars

\* ... and from QueueDisc::Peek, which sets m_peeked first ...
LEMMA PeekIInv ==
  ASSUME IInv, Peek
  PROVE  IInv'
<1>1. TypeOK'
  BY DEF IInv, TypeOK, Base, Peek, flowVars
<1>2. ActiveListSound'
  BY DEF IInv, ActiveListSound, Peek, flowVars
<1>3. BooksInv'
  <2>1. NStored' = NStored
    BY DEF Peek, flowVars, NStored
  <2> QED
    BY <2>1 DEF IInv, TypeOK, Base, BooksInv, Peek, AssertEnqueue,
       AssertDequeue, Held
<1> QED
  BY <1>1, <1>2, <1>3 DEF IInv, Peek, flowVars

\* ... and its return with no packet.
LEMMA ReturnNullIInv ==
  ASSUME IInv, ReturnNull
  PROVE  IInv'
<1>1. TypeOK'
  BY DEF IInv, TypeOK, Base, ReturnNull, KeepPeeked, flowVars
<1>2. ActiveListSound'
  BY DEF IInv, ActiveListSound, ReturnNull, flowVars
<1>3. BooksInv'
  <2>1. NStored' = NStored
    BY DEF ReturnNull, flowVars, NStored
  <2> QED
    BY <2>1 DEF IInv, TypeOK, Base, BooksInv, ReturnNull, KeepPeeked,
       AssertEnqueue, AssertDequeue, Held
<1> QED
  BY <1>1, <1>2, <1>3 DEF IInv, ReturnNull, flowVars

(***************************************************************************)
(* The active list                                                         *)
(***************************************************************************)

\* ActiveListSound in terms of lists without duplicates.
LEMMA ActiveListSoundDef ==
  ActiveListSound <=>
    /\ Distinct(m_activeList)
    /\ \A f \in Flows : m_status[f] = "ACTIVE" <=> In(f, m_activeList)
    /\ \A f \in Flows : fifo[f] # <<>> => m_status[f] = "ACTIVE"
    /\ \A f \in Flows : m_status[f] = "INACTIVE"
                          => m_deficit[f] = 0 /\ ~ m_hasDeficitBumped[f]
    /\ \A i \in DOMAIN m_activeList :
         i > 1 => ~ m_hasDeficitBumped[m_activeList[i]]
BY DEF ActiveListSound, Distinct, In

\* The deficit after the bump of DoDequeue is an int32_t.
LEMMA BumpedDeficitRange ==
  ASSUME TypeOK, NEW f \in Flows
  PROVE  BumpedDeficit(f) \in - Int32Half .. Int32Half - 1
<1>1. m_deficit[f] \in - Int32Half .. Int32Half - 1
  BY DEF TypeOK
<1>2. Quantum \in Int /\ Quantum < 2 * Int32Half /\ Quantum >= - 2 * Int32Half
  BY QuantumAssumption, WidthAssumption
<1>3. ToInt32(Quantum) \in - Int32Half .. Int32Half - 1
  BY <1>2, Int32Range
<1>4. ToInt32(m_deficit[f] + ToInt32(Quantum)) \in - Int32Half .. Int32Half - 1
  BY <1>1, <1>3, Int32Range, WidthAssumption
<1> QED
  BY <1>1, <1>4 DEF BumpedDeficit

\* Taking the head flow off the list when its queue is left empty.
LEMMA DeactivateSound ==
  ASSUME TypeOK, ActiveListSound, m_activeList # <<>>,
         Deactivate(Head(m_activeList)),
         \A g \in Flows : fifo'[g] # <<>>
                            => g # Head(m_activeList) /\ fifo[g] # <<>>
  PROVE  ActiveListSound'
<1> DEFINE f == Head(m_activeList)
           l == m_activeList
<1>1. l \in Seq(Flows) /\ l # <<>> /\ Distinct(l)
  BY ActiveListSoundDef DEF TypeOK
<1>2. f \in Flows
  BY <1>1, ListTail
<1>3. Distinct(m_activeList')
  BY <1>1, ListTail DEF Deactivate
<1>4. \A g \in Flows : m_status'[g] = "ACTIVE" <=> In(g, m_activeList')
  BY <1>1, <1>2, ListTail, ActiveListSoundDef DEF Deactivate, TypeOK
<1>5. \A g \in Flows : fifo'[g] # <<>> => m_status'[g] = "ACTIVE"
  BY <1>2, ActiveListSoundDef DEF Deactivate, TypeOK
<1>6. \A g \in Flows : m_status'[g] = "INACTIVE"
                         => m_deficit'[g] = 0 /\ ~ m_hasDeficitBumped'[g]
  BY <1>2, ActiveListSoundDef DEF Deactivate, TypeOK
<1>7. \A i \in DOMAIN m_activeList' :
        i > 1 => ~ m_hasDeficitBumped'[m_activeList'[i]]
  <2> SUFFICES ASSUME NEW i \in DOMAIN Tail(l), i > 1
               PROVE  ~ m_hasDeficitBumped'[Tail(l)[i]]
    BY DEF Deactivate
  <2>1. Tail(l)[i] = l[i + 1] /\ i + 1 \in DOMAIN l /\ i + 1 > 1
    BY <1>1, ListTail
  <2>2. ~ m_hasDeficitBumped[l[i + 1]]
    BY <2>1, ActiveListSoundDef
  <2> QED
    BY <2>1, <2>2, <1>1, <1>2 DEF Deactivate, TypeOK
<1> QED
  BY <1>3, <1>4, <1>5, <1>6, <1>7 DEF ActiveListSound, Distinct, In

\* An iteration of DoDequeue that passes over the head flow preserves the
\* invariant: the flow leaves the list if its queue is empty, else rotates.
LEMMA SkipFlowIInv ==
  ASSUME IInv, SkipFlow
  PROVE  IInv'
<1> DEFINE f == Head(m_activeList)
           l == m_activeList
<1> USE DEF IInv
<1>1. l \in Seq(Flows) /\ l # <<>> /\ Distinct(l)
  BY ActiveListSoundDef DEF SkipFlow, TypeOK
<1>2. f \in Flows
  BY <1>1, ListTail
<1>3. BumpedDeficit(f) \in - Int32Half .. Int32Half - 1
  BY <1>2, BumpedDeficitRange
<1>4. UNCHANGED <<m_classes, fifo, m_nBytes, m_currentQueueSize, root, pc>>
  BY DEF SkipFlow
<1>5. BooksInv'
  BY <1>4 DEF BooksInv, NStored, AssertEnqueue, AssertDequeue, Held, SlotsOf
<1>6. CASE fifo[f] = <<>>
  <2>1. Deactivate(f)
    BY <1>6 DEF SkipFlow, PassOver
  <2>2. TypeOK'
    BY <2>1, <1>1, <1>2, <1>4, ListTail, WidthAssumption, SMTT(30)
       DEF TypeOK, Deactivate
  <2>3. ActiveListSound'
    BY <2>1, <1>1, <1>4, <1>6, DeactivateSound
  <2> QED
    BY <2>2, <2>3, <1>4, <1>5
<1>7. CASE fifo[f] # <<>>
  <2>1. KeepActive(f, BumpedDeficit(f), FALSE, Append(Tail(l), f))
    BY <1>7 DEF SkipFlow, PassOver
  <2>2. Tail(l) \in Seq(Flows) /\ Distinct(Tail(l)) /\ ~ In(f, Tail(l))
    BY <1>1, <1>2, ListTail
  <2>3. TypeOK'
    BY <2>1, <2>2, <1>2, <1>3, <1>4, ListAppend DEF TypeOK, KeepActive
  <2>4. ActiveListSound'
    <3>1. Distinct(m_activeList')
      BY <2>1, <2>2, <1>2, ListAppend DEF KeepActive
    <3>2. \A g \in Flows : m_status'[g] = "ACTIVE" <=> In(g, m_activeList')
      <4>1. \A g \in Flows : In(g, Append(Tail(l), f)) <=> (g = f \/ In(g, Tail(l)))
        BY <2>2, <1>2, ListAppend
      <4>2. In(f, l) /\ \A g \in Flows : In(g, Tail(l)) <=> (g # f /\ In(g, l))
        BY <1>1, ListTail
      <4>3. \A g \in Flows : m_status[g] = "ACTIVE" <=> In(g, l)
        BY ActiveListSoundDef
      <4>4. m_status' = m_status /\ m_activeList' = Append(Tail(l), f)
        BY <2>1 DEF KeepActive
      <4> QED
        BY <4>1, <4>2, <4>3, <4>4, Zenon
    <3>3. \A g \in Flows : fifo'[g] # <<>> => m_status'[g] = "ACTIVE"
      BY <2>1, <1>4, ActiveListSoundDef DEF KeepActive, TypeOK
    <3>4. \A g \in Flows : m_status'[g] = "INACTIVE"
                             => m_deficit'[g] = 0 /\ ~ m_hasDeficitBumped'[g]
      BY <2>1, <1>2, <1>7, ActiveListSoundDef DEF KeepActive, TypeOK
    <3>5. \A i \in DOMAIN m_activeList' :
            i > 1 => ~ m_hasDeficitBumped'[m_activeList'[i]]
      <4> SUFFICES ASSUME NEW i \in DOMAIN Append(Tail(l), f), i > 1
                   PROVE  ~ m_hasDeficitBumped'[Append(Tail(l), f)[i]]
        BY <2>1 DEF KeepActive
      <4>1. \/ Append(Tail(l), f)[i] = f
            \/ i \in DOMAIN Tail(l) /\ Append(Tail(l), f)[i] = Tail(l)[i]
        BY <2>2, <1>2, ListAppend
      <4>2. CASE Append(Tail(l), f)[i] = f
        BY <4>2, <2>1, <1>2 DEF KeepActive, TypeOK
      <4>3. CASE i \in DOMAIN Tail(l) /\ Append(Tail(l), f)[i] = Tail(l)[i]
        <5>1. Tail(l)[i] = l[i + 1] /\ i + 1 \in DOMAIN l /\ i + 1 > 1
          BY <4>3, <1>1, ListTail
        <5>2. ~ m_hasDeficitBumped[l[i + 1]]
          BY <5>1, ActiveListSoundDef
        <5> QED
          BY <4>3, <5>1, <5>2, <2>1, <1>1, <1>2 DEF KeepActive, TypeOK
      <4> QED
        BY <4>1, <4>2, <4>3
    <3> QED
      BY <3>1, <3>2, <3>3, <3>4, <3>5 DEF ActiveListSound, Distinct, In
  <2> QED
    BY <2>3, <2>4, <1>4, <1>5
<1> QED
  BY <1>6, <1>7

\* An iteration of DoDequeue that sends a packet preserves the invariant,
\* whether the flow runs empty or not and whether it is a peek or not.
LEMMA ServeFlowIInv ==
  ASSUME IInv, ServeFlow
  PROVE  IInv'
<1> DEFINE l == m_activeList
           f == Head(m_activeList)
           item == Head(fifo[f])
           left == BumpedDeficit(f) - item.size
<1> USE DEF IInv
<1>1. /\ l \in Seq(Flows) /\ l # <<>> /\ Distinct(l)
      /\ MaySend(f) /\ SendFrom(f) /\ pc = "loop" /\ UNCHANGED m_classes
  BY ActiveListSoundDef DEF ServeFlow, TypeOK
<1>2. f \in Flows
  BY <1>1, ListTail
<1>3. fifo \in Queues /\ fifo[f] \in Seq(Item) /\ fifo[f] # <<>>
  BY <1>1, <1>2 DEF MaySend, TypeOK, Queues
<1>4. item \in Item /\ item.size \in Nat \ {0} /\ Tail(fifo[f]) \in Seq(Item)
  <2>1. 1 \in 1 .. Len(fifo[f]) /\ item = fifo[f][1]
    BY <1>3
  <2>2. item \in Item /\ Tail(fifo[f]) \in Seq(Item)
    BY <2>1, <1>3
  <2> QED
    BY <2>2, ItemsSized DEF Sized
<1>5. left \in - Int32Half .. Int32Half - 1
  <2>1. BumpedDeficit(f) \in - Int32Half .. Int32Half - 1
    BY <1>2, BumpedDeficitRange
  <2>2. item.size <= BumpedDeficit(f)
    BY <1>1 DEF MaySend
  <2> QED
    BY <2>1, <2>2, <1>4, WidthAssumption
<1>6. /\ fifo' = [fifo EXCEPT ![f] = Tail(@)]
      /\ m_nBytes' = [m_nBytes EXCEPT ![f] = @ - item.size]
      /\ m_currentQueueSize' = m_currentQueueSize - 1
      /\ pc' = "idle"
  BY <1>1 DEF SendFrom, TakeHead
<1>7. NStored \in Nat \ {0} /\ NStored' = NStored - 1
  BY <1>2, <1>3, <1>6, Counting DEF NStored
<1>8. /\ m_nBytes[f] - item.size \in Nat
      /\ BytesOK(Tail(fifo[f]), m_nBytes[f] - item.size)
  BY <1>2, <1>3, BytesTail, ItemsSized DEF TypeOK
<1>9. root \in Base(Item) /\ root.m_requeued = NoItem /\ root.m_nPackets = NStored
  BY <1>1, <1>7 DEF TypeOK, BooksInv, Held
<1>10. /\ root' \in Base(Item)
       /\ root'.m_nPackets = NStored - 1 + Held(root')
       /\ root'.m_nPackets = root'.nTotalEnqueued - root'.nTotalDequeued
       /\ root'.nTotalReceived = root.nTotalReceived
       /\ root'.nTotalEnqueued = root.nTotalEnqueued
       /\ root'.nTotalDroppedBeforeEnqueue = root.nTotalDroppedBeforeEnqueue
       /\ root'.m_peeked <=> root'.m_requeued # NoItem
  <2>1. root.m_nPackets = root.nTotalEnqueued - root.nTotalDequeued
    BY DEF BooksInv, AssertDequeue
  <2>2. CASE root.m_peeked
    <3>1. root' = KeepPeeked(PacketDequeued(root), item)
      BY <2>2, <1>1 DEF SendFrom, TakeHead
    <3>2. /\ root' \in Base(Item)
          /\ root'.m_nPackets = root.m_nPackets
          /\ root'.nTotalDequeued = root.nTotalDequeued
          /\ root'.m_requeued = item /\ root'.m_peeked = TRUE
          /\ root'.nTotalReceived = root.nTotalReceived
          /\ root'.nTotalEnqueued = root.nTotalEnqueued
          /\ root'.nTotalDroppedBeforeEnqueue = root.nTotalDroppedBeforeEnqueue
      BY <3>1, <2>2, <1>4, <1>9, PeekBooks
    <3>3. item # NoItem
      BY <1>4, NoItemAssumption
    <3>4. Held(root') = 1
      BY <3>2, <3>3 DEF Held
    <3> QED
      BY <3>2, <3>3, <3>4, <2>1, <1>7, <1>9
  <2>3. CASE ~ root.m_peeked
    <3>1. root' = PacketDequeued(root) /\ root.m_nPackets > 0
      BY <2>3, <1>1, <1>7, <1>9 DEF SendFrom, TakeHead
    <3>2. /\ root' \in Base(Item)
          /\ root'.m_nPackets = root.m_nPackets - 1
          /\ root'.nTotalDequeued = root.nTotalDequeued + 1
          /\ root'.m_requeued = NoItem /\ root'.m_peeked = root.m_peeked
          /\ root'.nTotalReceived = root.nTotalReceived
          /\ root'.nTotalEnqueued = root.nTotalEnqueued
          /\ root'.nTotalDroppedBeforeEnqueue = root.nTotalDroppedBeforeEnqueue
      BY <3>1, <2>3, <1>9, DequeueBooks
    <3> QED
      BY <3>2, <2>1, <2>3, <1>7, <1>9 DEF Held, Base
  <2> QED
    BY <2>2, <2>3
<1>11. BooksInv' /\ m_currentQueueSize' \in Nat
  <2>1. m_currentQueueSize = NStored + root.nTotalDroppedBeforeEnqueue
    BY DEF BooksInv
  <2>2. root.nTotalDroppedBeforeEnqueue \in Nat
    BY <1>9 DEF Base
  <2>3. m_currentQueueSize' \in Nat
    BY <2>1, <2>2, <1>6, <1>7
  <2>4. m_currentQueueSize' = NStored' + root'.nTotalDroppedBeforeEnqueue
    BY <2>1, <2>2, <1>6, <1>7, <1>10
  <2>5. root'.nTotalReceived
          = root'.nTotalDroppedBeforeEnqueue + root'.nTotalEnqueued
    BY <1>10 DEF BooksInv, AssertEnqueue
  <2> QED
    BY <2>3, <2>4, <2>5, <1>6, <1>7, <1>10
    DEF BooksInv, AssertEnqueue, AssertDequeue
<1>12. \A g \in Flows : BytesOK(fifo'[g], m_nBytes'[g])
  BY <1>2, <1>6, <1>8 DEF TypeOK
<1>13. m_currentQueueSize' <= MaxQueueSize
  BY <1>6, LimitsAssumption DEF TypeOK
<1>14. /\ fifo' \in [Flows -> Seq(Item)]
       /\ m_nBytes' \in [Flows -> Nat]
  BY <1>2, <1>4, <1>6, <1>8 DEF TypeOK
<1>15. CASE Tail(fifo[f]) = <<>>
  <2>1. Deactivate(f)
    BY <1>15, <1>1 DEF SendFrom, TakeHead
  <2>2. TypeOK'
    <3>1. m_activeList' \in Seq(Flows)
      BY <2>1, <1>1, ListTail DEF Deactivate
    <3>2. /\ m_deficit' \in [Flows -> - Int32Half .. Int32Half - 1]
          /\ m_status' \in [Flows -> {"ACTIVE", "INACTIVE"}]
          /\ m_hasDeficitBumped' \in [Flows -> BOOLEAN]
      BY <2>1, <1>2, WidthAssumption DEF TypeOK, Deactivate
    <3> QED
      BY <3>1, <3>2, <1>1, <1>6, <1>10, <1>11, <1>14 DEF TypeOK
  <2>3. ActiveListSound'
    BY <2>1, <1>1, <1>2, <1>3, <1>6, <1>15, DeactivateSound DEF Queues
  <2> QED
    BY <2>2, <2>3, <1>11, <1>12, <1>13
<1>16. CASE Tail(fifo[f]) # <<>>
  <2>1. KeepActive(f, left, TRUE, l)
    <3>1. <<f>> \o Tail(l) = l
      BY <1>1, ListTail
    <3> QED
      BY <1>1, <1>16, <3>1 DEF SendFrom
  <2>2. TypeOK'
    BY <2>1, <1>1, <1>2, <1>5, <1>6, <1>10, <1>11, <1>14 DEF TypeOK, KeepActive
  <2>3. ActiveListSound'
    <3>1. UNCHANGED <<m_activeList, m_status>>
      BY <2>1 DEF KeepActive
    <3>2. m_status[f] = "ACTIVE"
      BY <1>2, <1>3, ActiveListSoundDef
    <3>3. \A g \in Flows : fifo'[g] # <<>> => m_status'[g] = "ACTIVE"
      BY <3>1, <3>2, <1>6, ActiveListSoundDef DEF TypeOK
    <3>4. \A g \in Flows : m_status'[g] = "INACTIVE"
                             => m_deficit'[g] = 0 /\ ~ m_hasDeficitBumped'[g]
      BY <2>1, <3>1, <3>2, <1>2, ActiveListSoundDef DEF KeepActive, TypeOK
    <3>5. ASSUME NEW i \in DOMAIN m_activeList', i > 1
          PROVE  ~ m_hasDeficitBumped'[m_activeList'[i]]
      <4>1. i \in DOMAIN l /\ 1 \in DOMAIN l /\ f = l[1] /\ l[i] \in Flows
        BY <3>1, <3>5, <1>1
      <4>2. l[i] # f
        BY <4>1, <3>5, <1>1 DEF Distinct
      <4>3. ~ m_hasDeficitBumped[l[i]]
        BY <4>1, <3>5, ActiveListSoundDef
      <4> QED
        BY <4>1, <4>2, <4>3, <3>1, <2>1 DEF KeepActive, TypeOK
    <3>6. /\ Distinct(m_activeList')
          /\ \A g \in Flows : m_status'[g] = "ACTIVE" <=> In(g, m_activeList')
      BY <3>1, ActiveListSoundDef
    <3> QED
      BY <3>3, <3>4, <3>5, <3>6 DEF ActiveListSound, Distinct, In
  <2> QED
    BY <2>2, <2>3, <1>11, <1>12, <1>13
<1> QED
  BY <1>15, <1>16

\* A flow that receives a packet is active afterwards, and no other changes.
LEMMA ActivateSound ==
  ASSUME TypeOK, ActiveListSound, NEW f \in Flows, Activate(f),
         UNCHANGED m_hasDeficitBumped,
         \A g \in Flows : fifo'[g] # <<>> => g = f \/ fifo[g] # <<>>
  PROVE  /\ ActiveListSound'
         /\ m_deficit' \in [Flows -> - Int32Half .. Int32Half - 1]
         /\ m_status' \in [Flows -> {"ACTIVE", "INACTIVE"}]
         /\ m_activeList' \in Seq(Flows)
<1> DEFINE l == m_activeList
<1>1. l \in Seq(Flows) /\ Distinct(l)
  BY ActiveListSoundDef DEF TypeOK
<1>2. CASE m_status[f] = "INACTIVE"
  <2>1. /\ m_status' = [m_status EXCEPT ![f] = "ACTIVE"]
        /\ m_deficit' = [m_deficit EXCEPT ![f] = ToInt32(Quantum)]
        /\ m_activeList' = Append(l, f)
    BY <1>2 DEF Activate
  <2>2. ~ In(f, l)
    BY <1>2, ActiveListSoundDef
  <2>3. ToInt32(Quantum) \in - Int32Half .. Int32Half - 1
    BY Int32Range, QuantumAssumption, WidthAssumption
  <2>4. Distinct(m_activeList') /\ m_activeList' \in Seq(Flows)
    BY <2>1, <2>2, <1>1, ListAppend
  <2>5. \A g \in Flows : m_status'[g] = "ACTIVE" <=> In(g, m_activeList')
    BY <2>1, <2>2, <1>1, ListAppend, ActiveListSoundDef DEF TypeOK
  <2>6. \A g \in Flows : fifo'[g] # <<>> => m_status'[g] = "ACTIVE"
    BY <2>1, ActiveListSoundDef DEF TypeOK
  <2>7. \A g \in Flows : m_status'[g] = "INACTIVE"
                           => m_deficit'[g] = 0 /\ ~ m_hasDeficitBumped'[g]
    BY <2>1, ActiveListSoundDef DEF TypeOK
  <2>8. ASSUME NEW i \in DOMAIN m_activeList', i > 1
        PROVE  ~ m_hasDeficitBumped'[m_activeList'[i]]
    <3>1. m_activeList'[i] = f \/ (i \in DOMAIN l /\ m_activeList'[i] = l[i])
      BY <2>1, <2>2, <2>8, <1>1, ListAppend
    <3> QED
      BY <3>1, <2>8, <1>2, ActiveListSoundDef
  <2>9. /\ m_deficit' \in [Flows -> - Int32Half .. Int32Half - 1]
        /\ m_status' \in [Flows -> {"ACTIVE", "INACTIVE"}]
    BY <2>1, <2>3 DEF TypeOK
  <2> QED
    BY <2>4, <2>5, <2>6, <2>7, <2>8, <2>9 DEF ActiveListSound, Distinct, In
<1>3. CASE m_status[f] # "INACTIVE"
  <2>1. UNCHANGED <<m_status, m_deficit, m_activeList>>
    BY <1>3 DEF Activate
  <2>2. m_status[f] = "ACTIVE"
    BY <1>3 DEF TypeOK
  <2>3. \A g \in Flows : fifo'[g] # <<>> => m_status'[g] = "ACTIVE"
    BY <2>1, <2>2, ActiveListSoundDef
  <2> QED
    BY <2>1, <2>3 DEF ActiveListSound, TypeOK
<1> QED
  BY <1>2, <1>3

\* The queues and the byte counts after the child of flow f was offered item.
QueuesWith(f, item) ==
  IF ChildAccepts(f) THEN [fifo EXCEPT ![f] = Append(@, item)] ELSE fifo
BytesWith(f, item) ==
  IF ChildAccepts(f) THEN [m_nBytes EXCEPT ![f] = @ + item.size] ELSE m_nBytes

\* They still agree, and the flow of the packet has a packet whether or not its
\* child refused this one.
LEMMA StoredBytes ==
  ASSUME fifo \in Queues, m_nBytes \in [Flows -> Nat],
         \A g \in Flows : BytesOK(fifo[g], m_nBytes[g]),
         NEW f \in Flows, NEW item \in Item
  PROVE  /\ QueuesWith(f, item) \in Queues
         /\ BytesWith(f, item) \in [Flows -> Nat]
         /\ QueuesWith(f, item)[f] # <<>>
         /\ \A g \in Flows : g # f => QueuesWith(f, item)[g] = fifo[g]
         /\ \A g \in Flows : BytesOK(QueuesWith(f, item)[g], BytesWith(f, item)[g])
<1> DEFINE queues == QueuesWith(f, item)
           bytes == BytesWith(f, item)
<1>1. CASE ChildAccepts(f)
  <2>1. item.size \in Nat
    BY SizesAssumption DEF Item
  <2>2. BytesOK(Append(fifo[f], item), m_nBytes[f] + item.size)
    BY BytesAppend, ItemsSized DEF Queues
  <2>3. queues = [fifo EXCEPT ![f] = Append(@, item)]
        /\ bytes = [m_nBytes EXCEPT ![f] = @ + item.size]
    BY <1>1 DEF QueuesWith, BytesWith
  <2>4. Append(fifo[f], item) \in Seq(Item) /\ Append(fifo[f], item) # <<>>
    BY DEF Queues
  <2> HIDE DEF queues, bytes
  <2>5. /\ queues \in Queues /\ bytes \in [Flows -> Nat]
        /\ queues[f] # <<>>
        /\ \A g \in Flows : g # f => queues[g] = fifo[g]
        /\ \A g \in Flows : BytesOK(queues[g], bytes[g])
    BY <2>1, <2>2, <2>3, <2>4 DEF Queues
  <2> QED
    BY <2>5 DEF queues, bytes
<1>2. CASE ~ ChildAccepts(f)
  <2>1. queues = fifo /\ bytes = m_nBytes
    BY <1>2 DEF QueuesWith, BytesWith
  <2>2. fifo[f] # <<>>
    BY <1>2, LimitsAssumption DEF ChildAccepts, Queues
  <2> QED
    BY <2>1, <2>2
<1> QED
  BY <1>1, <1>2

\* DrrDropFromLongestQueue finds a packet to drop: the flow of the packet that
\* arrived has a class and bytes, so the longest queue is not empty.
LEMMA VictimStores ==
  ASSUME m_classes \in Seq(Flows), NEW f \in Flows, NEW v \in Flows,
         NEW queues \in Queues, NEW bytes \in [Flows -> Nat],
         \A g \in Flows : BytesOK(queues[g], bytes[g]), queues[f] # <<>>,
         IsLongest(v, ClassesWith(f), bytes)
  PROVE  queues[v] # <<>>
<1>1. \E j \in DOMAIN ClassesWith(f) : ClassesWith(f)[j] = f
  <2>1. CASE HasClass(f)
    BY <2>1 DEF ClassesWith, HasClass
  <2>2. CASE ~ HasClass(f)
    <3>1. ClassesWith(f) = Append(m_classes, f)
      BY <2>2 DEF ClassesWith
    <3>2. /\ Len(m_classes) + 1 \in DOMAIN Append(m_classes, f)
          /\ Append(m_classes, f)[Len(m_classes) + 1] = f
      OBVIOUS
    <3> QED
      BY <3>1, <3>2
  <2> QED
    BY <2>1, <2>2
<1>2. bytes[f] <= bytes[v]
  BY <1>1 DEF IsLongest
<1>3. bytes[f] > 0 /\ bytes[f] \in Nat /\ bytes[v] \in Nat
  BY BytesPositive, ItemsSized DEF Queues
<1> QED
  BY <1>2, <1>3, BytesPositive, ItemsSized DEF Queues

\* DoEnqueue preserves the invariant, whether the child accepts the packet or
\* not and whether the disc overflows or not.
LEMMA EnqueueIInv ==
  ASSUME IInv, NEW f \in Flows, NEW s \in Sizes, Enqueue(f, s)
  PROVE  IInv'
<1> DEFINE item == [flow |-> f, size |-> s, id |-> root.nTotalReceived + 1]
           b == PacketReceived(root)
           queues == QueuesWith(f, item)
           bytes == BytesWith(f, item)
           counted == IF ChildAccepts(f)
                      THEN PacketEnqueued(b) ELSE DropBeforeEnqueue(b)
           N == Cardinality(SlotsOf(queues))
<1> USE DEF IInv
<1>1. /\ pc = "idle" /\ root.nTotalReceived < MaxReceived
      /\ m_classes' = ClassesWith(f) /\ Activate(f)
      /\ UNCHANGED <<m_hasDeficitBumped, pc>>
  BY DEF Enqueue
<1>2. root \in Base(Item) /\ fifo \in Queues /\ m_nBytes \in [Flows -> Nat]
  BY DEF TypeOK, Queues
<1>3. item \in Item /\ item.size = s /\ s \in Nat \ {0}
  BY <1>1, <1>2, SizesAssumption, LimitsAssumption DEF Item, Base
<1>4. m_classes' \in Seq(Flows)
  BY <1>1 DEF ClassesWith, TypeOK
<1>5. /\ queues \in Queues /\ bytes \in [Flows -> Nat]
      /\ queues[f] # <<>>
      /\ \A g \in Flows : g # f => queues[g] = fifo[g]
      /\ \A g \in Flows : BytesOK(queues[g], bytes[g])
  BY <1>2, <1>3, StoredBytes
<1>6. /\ counted \in Base(Item)
      /\ counted.m_nPackets = N + Held(root)
      /\ counted.m_nPackets = counted.nTotalEnqueued - counted.nTotalDequeued
      /\ counted.nTotalReceived
           = counted.nTotalDroppedBeforeEnqueue + counted.nTotalEnqueued
      /\ m_currentQueueSize + 1 = N + counted.nTotalDroppedBeforeEnqueue
      /\ counted.m_requeued = root.m_requeued
      /\ counted.m_peeked = root.m_peeked
  <2>1. /\ root.m_nPackets = NStored + Held(root)
        /\ root.m_nPackets = root.nTotalEnqueued - root.nTotalDequeued
        /\ root.nTotalReceived
             = root.nTotalDroppedBeforeEnqueue + root.nTotalEnqueued
        /\ m_currentQueueSize = NStored + root.nTotalDroppedBeforeEnqueue
    BY DEF BooksInv, AssertEnqueue, AssertDequeue
  <2>2. NStored \in Nat /\ Held(root) \in Nat
    BY <1>2, Counting DEF NStored, Held
  <2>3. root.nTotalEnqueued \in Nat /\ root.nTotalDequeued \in Nat
        /\ root.nTotalDroppedBeforeEnqueue \in Nat
    BY <1>2 DEF Base
  <2>4. CASE ChildAccepts(f)
    <3>1. counted = PacketEnqueued(PacketReceived(root)) /\ N = NStored + 1
      BY <2>4, <1>2, <1>3, Counting DEF NStored, QueuesWith
    <3> HIDE DEF counted, N
    <3> QED
      BY <3>1, <2>1, <2>2, <2>3, <1>2, StoreBooks
  <2>5. CASE ~ ChildAccepts(f)
    <3>1. counted = DropBeforeEnqueue(PacketReceived(root)) /\ N = NStored
      BY <2>5 DEF NStored, QueuesWith
    <3> HIDE DEF counted, N
    <3> QED
      BY <3>1, <2>1, <2>2, <2>3, <1>2, RefuseBooks
  <2> QED
    BY <2>4, <2>5
<1>7. N \in Nat
  BY <1>5, Counting
<1>8. CASE ~ MustDrop
  <2>1. /\ fifo' = queues /\ m_nBytes' = bytes /\ root' = counted
        /\ m_currentQueueSize' = m_currentQueueSize + 1
    BY <1>3, <1>8 DEF Enqueue, QueuesWith, BytesWith
  <2> HIDE DEF queues, bytes, counted
  <2>2. NStored' = N
    BY <2>1 DEF NStored
  <2>3. m_currentQueueSize' \in Nat /\ m_currentQueueSize' <= MaxQueueSize
    BY <2>1, <1>8, LimitsAssumption DEF MustDrop, TypeOK
  <2>4. BooksInv'
    BY <2>1, <2>2, <1>1, <1>6
    DEF BooksInv, AssertEnqueue, AssertDequeue, Held
  <2>5. /\ ActiveListSound'
        /\ m_deficit' \in [Flows -> - Int32Half .. Int32Half - 1]
        /\ m_status' \in [Flows -> {"ACTIVE", "INACTIVE"}]
        /\ m_activeList' \in Seq(Flows)
    BY <2>1, <1>1, <1>5, ActivateSound
  <2>6. TypeOK'
    BY <2>1, <2>3, <2>5, <1>1, <1>4, <1>5, <1>6 DEF TypeOK, Queues
  <2> QED
    BY <2>1, <2>3, <2>4, <2>5, <2>6, <1>5
<1>9. CASE MustDrop
  <2>1. PICK v \in Flows :
          /\ IsLongest(v, ClassesWith(f), bytes)
          /\ fifo' = [queues EXCEPT ![v] = Tail(@)]
          /\ m_nBytes' = [bytes EXCEPT ![v] = @ - Head(queues[v]).size]
          /\ root' = DropAfterDequeue(PacketDequeued(counted))
    BY <1>3, <1>9
    DEF Enqueue, QueuesWith, BytesWith, DrrDropFromLongestQueue
  <2>2. m_currentQueueSize' = m_currentQueueSize
    BY <1>9 DEF Enqueue, TypeOK
  <2> HIDE DEF queues, bytes, counted
  <2>3. queues[v] # <<>>
    BY <2>1, <1>5, VictimStores DEF TypeOK
  <2>4. N \in Nat \ {0} /\ NStored' = N - 1
    BY <2>1, <2>3, <1>5, Counting DEF NStored
  <2>5. /\ bytes[v] - Head(queues[v]).size \in Nat
        /\ BytesOK(Tail(queues[v]), bytes[v] - Head(queues[v]).size)
    BY <2>3, <1>5, BytesTail, ItemsSized DEF Queues
  <2>6. fifo' \in Queues /\ m_nBytes' \in [Flows -> Nat]
    BY <2>1, <2>3, <2>5, <1>5 DEF Queues
  <2>7. \A g \in Flows : BytesOK(fifo'[g], m_nBytes'[g])
    BY <2>1, <2>5, <1>5 DEF Queues
  <2>8. counted.m_nPackets > 0
    BY <2>4, <1>6 DEF Held
  <2>9. /\ root' \in Base(Item)
        /\ root'.m_nPackets = counted.m_nPackets - 1
        /\ root'.nTotalDequeued = counted.nTotalDequeued + 1
        /\ root'.nTotalEnqueued = counted.nTotalEnqueued
        /\ root'.nTotalReceived = counted.nTotalReceived
        /\ root'.nTotalDroppedBeforeEnqueue = counted.nTotalDroppedBeforeEnqueue
        /\ root'.m_requeued = root.m_requeued
        /\ root'.m_peeked = root.m_peeked
    BY <2>1, <2>8, <1>6, DropBooks
  <2>10. BooksInv'
    <3>1. Held(root') = Held(root) /\ Held(root) \in Nat
      BY <2>9 DEF Held
    <3>2. /\ counted.nTotalEnqueued \in Nat /\ counted.nTotalDequeued \in Nat
          /\ counted.nTotalDroppedBeforeEnqueue \in Nat /\ m_currentQueueSize \in Nat
      BY <1>6 DEF Base, TypeOK
    <3>3. /\ root'.m_nPackets = NStored' + Held(root')
          /\ root'.m_nPackets = root'.nTotalEnqueued - root'.nTotalDequeued
          /\ root'.nTotalReceived
               = root'.nTotalDroppedBeforeEnqueue + root'.nTotalEnqueued
          /\ m_currentQueueSize' = NStored' + root'.nTotalDroppedBeforeEnqueue
      BY <3>1, <3>2, <2>2, <2>4, <2>9, <1>6
    <3> QED
      BY <3>3, <2>9, <1>1 DEF BooksInv, AssertEnqueue, AssertDequeue
  <2>11. \A g \in Flows : fifo'[g] # <<>> => g = f \/ fifo[g] # <<>>
    BY <2>1, <2>3, <1>5 DEF Queues
  <2>12. /\ ActiveListSound'
         /\ m_deficit' \in [Flows -> - Int32Half .. Int32Half - 1]
         /\ m_status' \in [Flows -> {"ACTIVE", "INACTIVE"}]
         /\ m_activeList' \in Seq(Flows)
    BY <2>11, <1>1, ActivateSound
  <2>13. TypeOK'
    BY <2>2, <2>6, <2>9, <2>12, <1>1, <1>4 DEF TypeOK, Queues
  <2> QED
    BY <2>2, <2>7, <2>10, <2>12, <2>13
<1> QED
  BY <1>8, <1>9

\* Every step preserves the invariant.
LEMMA NextIInv == IInv /\ [Next]_vars => IInv'
<1> SUFFICES ASSUME IInv, [Next]_vars PROVE IInv'
  OBVIOUS
<1>1. ASSUME NEW f \in Flows, NEW s \in Sizes, Enqueue(f, s) PROVE IInv'
  BY <1>1, EnqueueIInv
<1>2. CASE DequeueRequeued
  BY <1>2, DequeueRequeuedIInv
<1>3. CASE Dequeue
  BY <1>3, DequeueIInv
<1>4. CASE Peek
  BY <1>4, PeekIInv
<1>5. CASE ReturnNull
  BY <1>5, ReturnNullIInv
<1>6. CASE ServeFlow
  BY <1>6, ServeFlowIInv
<1>7. CASE SkipFlow
  BY <1>7, SkipFlowIInv
<1>8. CASE UNCHANGED vars
  BY <1>8 DEF vars, flowVars, IInv, TypeOK, ActiveListSound, BooksInv,
     NStored, SlotsOf, AssertEnqueue, AssertDequeue, Held
<1> QED
  BY <1>1, <1>2, <1>3, <1>4, <1>5, <1>6, <1>7, <1>8 DEF Next

\* The invariant holds in every state of every behaviour of the disc.
THEOREM Invariance == Spec => []IInv
BY InitIInv, NextIInv, PTL DEF Spec

\* Types of the whole state; no unsigned counter is decremented below zero.
THEOREM TypeCorrect == Spec => []TypeOK
<1>1. IInv => TypeOK
  BY DEF IInv
<1> QED
  BY <1>1, Invariance, PTL

\* Status, active list and queues of the flows agree: a flow with packets is
\* always due to be served.
THEOREM ActiveListCorrect == Spec => []ActiveListSound
<1>1. IInv => ActiveListSound
  BY DEF IInv
<1> QED
  BY <1>1, Invariance, PTL

\* The exact count of slots is never below what is stored, and equals it while
\* no child has refused a packet.
LEMMA BooksImplied == IInv => BooksBalance
<1> SUFFICES ASSUME IInv PROVE BooksBalance
  OBVIOUS
<1>1. root.nTotalDroppedBeforeEnqueue \in Nat
  BY DEF IInv, TypeOK, Base
<1>2. NStored \in Nat
  BY Counting DEF NStored, IInv, TypeOK, Queues
<1>3. /\ m_currentQueueSize >= NStored
      /\ root.nTotalDroppedBeforeEnqueue = 0 => m_currentQueueSize = NStored
  BY <1>1, <1>2 DEF IInv, BooksInv
<1> QED
  BY <1>3 DEF IInv, BooksInv, BooksBalance

\* The base-class counters of the disc agree with each other and with what is
\* stored, and m_currentQueueSize never reads less than that; it reads exactly
\* that as long as no child has refused a packet.
THEOREM BooksCorrect == Spec => []BooksBalance
BY BooksImplied, Invariance, PTL

\* No more than MaxQueueSize packets are ever stored, whatever the children do.
THEOREM CapacityCorrect == Spec => []CapacityRespected
<1>1. IInv => CapacityRespected
  <2> SUFFICES ASSUME IInv PROVE CapacityRespected
    OBVIOUS
  <2>1. /\ m_currentQueueSize = NStored + root.nTotalDroppedBeforeEnqueue
        /\ m_currentQueueSize <= MaxQueueSize
        /\ root.nTotalDroppedBeforeEnqueue \in Nat
    BY DEF IInv, BooksInv, TypeOK, Base
  <2>2. NStored \in Nat
    BY Counting DEF NStored, IInv, TypeOK, Queues
  <2> QED
    BY <2>1, <2>2, LimitsAssumption DEF CapacityRespected
<1> QED
  BY <1>1, Invariance, PTL

(***************************************************************************)
(* The order of packets within a flow                                      *)
(***************************************************************************)

\* The queue of flow f when n packets have arrived: packets of f, oldest first.
InOrder(q, f, n) ==
  /\ \A i \in DOMAIN q : q[i].flow = f /\ q[i].id <= n
  /\ \A i, j \in DOMAIN q : i < j => q[i].id < q[j].id

\* A peeked packet is older than the queue it came from.
Older(x, q) == \A i \in DOMAIN q : x.id < q[i].id

\* FlowOrder is not inductive: a packet that arrives is newer than all that are
\* stored only because no number above the number of arrivals was given out.
OrderInv ==
  /\ \A f \in Flows : InOrder(fifo[f], f, root.nTotalReceived)
  /\ root.m_requeued # NoItem =>
       /\ root.m_requeued.id <= root.nTotalReceived
       /\ Older(root.m_requeued, fifo[root.m_requeued.flow])

\* The next packet of a flow goes to the end of its queue ...
LEMMA OrderAppend ==
  ASSUME NEW q \in Seq(Item), NEW f \in Flows, NEW n \in Nat, NEW x \in Item,
         InOrder(q, f, n), x.flow = f, x.id = n + 1
  PROVE  InOrder(Append(q, x), f, n + 1)
<1> DEFINE r == Append(q, x)
<1>1. /\ Len(r) = Len(q) + 1 /\ DOMAIN r = 1 .. Len(q) + 1
      /\ DOMAIN q = 1 .. Len(q) /\ Len(q) \in Nat
      /\ r[Len(q) + 1] = x
      /\ \A i \in 1 .. Len(q) : r[i] = q[i]
  OBVIOUS
<1>2. \A i \in 1 .. Len(q) : q[i].id \in Nat
  <2>1. \A i \in 1 .. Len(q) : q[i] \in Item
    OBVIOUS
  <2> QED
    BY <2>1, LimitsAssumption DEF Item
<1> HIDE DEF r
<1>3. \A i \in DOMAIN r : r[i].flow = f /\ r[i].id <= n + 1
  BY <1>1, <1>2 DEF InOrder
<1>4. \A i, j \in DOMAIN r : i < j => r[i].id < r[j].id
  BY <1>1, <1>2 DEF InOrder
<1> QED
  BY <1>3, <1>4 DEF InOrder, r

\* ... and arrivals elsewhere, or refused ones, disturb no queue.
LEMMA OrderLater ==
  ASSUME NEW q \in Seq(Item), NEW f \in Flows, NEW n \in Nat, InOrder(q, f, n)
  PROVE  InOrder(q, f, n + 1)
<1>1. \A i \in DOMAIN q : q[i].id \in Nat
  <2>1. \A i \in DOMAIN q : q[i] \in Item
    OBVIOUS
  <2> QED
    BY <2>1, LimitsAssumption DEF Item
<1> QED
  BY <1>1 DEF InOrder

\* Taking the head of a queue keeps the order of the rest, and the head is
\* older than all of it.
LEMMA OrderTail ==
  ASSUME NEW q \in Seq(Item), NEW f \in Flows, NEW n \in Nat,
         q # <<>>, InOrder(q, f, n)
  PROVE  /\ InOrder(Tail(q), f, n)
         /\ Head(q).flow = f /\ Head(q).id <= n
         /\ Older(Head(q), Tail(q))
<1>1. /\ DOMAIN q = 1 .. Len(q) /\ Len(q) \in Nat \ {0}
      /\ DOMAIN Tail(q) = 1 .. Len(q) - 1
      /\ Head(q) = q[1]
      /\ \A i \in 1 .. Len(q) - 1 : Tail(q)[i] = q[i + 1]
  OBVIOUS
<1>2. \A i \in 1 .. Len(q) - 1 :
        i + 1 \in DOMAIN q /\ 1 \in DOMAIN q /\ 1 < i + 1
  BY <1>1
<1>3. \A i, j \in 1 .. Len(q) - 1 : i < j => i + 1 < j + 1
  BY <1>1
<1>4. 1 \in DOMAIN q
  BY <1>1
<1>5. \A i \in DOMAIN Tail(q) : Tail(q)[i].flow = f /\ Tail(q)[i].id <= n
  BY <1>1, <1>2 DEF InOrder
<1>6. \A i, j \in DOMAIN Tail(q) : i < j => Tail(q)[i].id < Tail(q)[j].id
  BY <1>1, <1>2, <1>3 DEF InOrder
<1>7. Older(Head(q), Tail(q))
  BY <1>1, <1>2 DEF InOrder, Older
<1> QED
  BY <1>1, <1>4, <1>5, <1>6, <1>7 DEF InOrder

\* A peeked packet stays older than its queue when the head is dropped ...
LEMMA OlderTail ==
  ASSUME NEW q \in Seq(Item), NEW x, q # <<>>, Older(x, q)
  PROVE  Older(x, Tail(q))
<1>1. /\ DOMAIN Tail(q) = 1 .. Len(q) - 1 /\ DOMAIN q = 1 .. Len(q)
      /\ Len(q) \in Nat \ {0}
      /\ \A i \in 1 .. Len(q) - 1 : Tail(q)[i] = q[i + 1]
  OBVIOUS
<1>2. \A i \in 1 .. Len(q) - 1 : i + 1 \in DOMAIN q
  BY <1>1
<1> QED
  BY <1>1, <1>2 DEF Older

\* ... and when a packet arrives.
LEMMA OlderAppend ==
  ASSUME NEW q \in Seq(Item), NEW x \in Item, NEW y \in Item, Older(x, q),
         x.id < y.id
  PROVE  Older(x, Append(q, y))
<1>1. /\ DOMAIN Append(q, y) = 1 .. Len(q) + 1 /\ DOMAIN q = 1 .. Len(q)
      /\ Len(q) \in Nat
      /\ Append(q, y)[Len(q) + 1] = y
      /\ \A i \in 1 .. Len(q) : Append(q, y)[i] = q[i]
  OBVIOUS
<1> QED
  BY <1>1 DEF Older

(***************************************************************************)
(* What the bookkeeping does to the two fields the order depends on.  The  *)
(* counter m_nPackets is only an integer here: that it is a natural number *)
(* is a matter of the books, not of the order.                             *)
(***************************************************************************)
Record ==
  [ m_nPackets : Int,
    m_requeued : Item \cup {NoItem},
    m_peeked   : BOOLEAN,
    nTotalReceived : Nat,
    nTotalEnqueued : Nat,
    nTotalDequeued : Nat,
    nTotalDroppedBeforeEnqueue : Nat,
    nTotalDroppedAfterDequeue  : Nat ]

\* b and c agree on the packet set aside and on the number of arrivals.
SameOrder(b, c) ==
  c.m_requeued = b.m_requeued /\ c.nTotalReceived = b.nTotalReceived

\* An arrival is counted once, and the packet set aside is left alone.
LEMMA ReceivedFields ==
  ASSUME NEW b \in Record
  PROVE  /\ PacketReceived(b) \in Record
         /\ PacketReceived(b).nTotalReceived = b.nTotalReceived + 1
         /\ PacketReceived(b).m_requeued = b.m_requeued
BY DEF Record, PacketReceived

\* Storing or refusing a packet touches neither field ...
LEMMA StoredFields ==
  ASSUME NEW b \in Record
  PROVE  /\ PacketEnqueued(b) \in Record /\ SameOrder(b, PacketEnqueued(b))
         /\ DropBeforeEnqueue(b) \in Record
         /\ SameOrder(b, DropBeforeEnqueue(b))
<1>1. PacketEnqueued(b) \in Record
  <2>1. \A k \in Nat : k + 1 \in Nat
    OBVIOUS
  <2>2. \A k \in Int : k + 1 \in Int
    OBVIOUS
  <2> QED
    BY <2>1, <2>2, Zenon DEF Record, PacketEnqueued
<1>2. DropBeforeEnqueue(b) \in Record
  BY DEF Record, DropBeforeEnqueue
<1>3. SameOrder(b, PacketEnqueued(b)) /\ SameOrder(b, DropBeforeEnqueue(b))
  BY DEF Record, PacketEnqueued, DropBeforeEnqueue, SameOrder
<1> QED
  BY <1>1, <1>2, <1>3

\* ... nor does counting a packet out ...
LEMMA CountedFields ==
  ASSUME NEW b \in Record
  PROVE  CountDequeued(b) \in Record /\ SameOrder(b, CountDequeued(b))
<1>1. CountDequeued(b) \in Record
  <2>1. \A k \in Nat : k + 1 \in Nat
    OBVIOUS
  <2>2. \A k \in Int : k - 1 \in Int
    OBVIOUS
  <2> QED
    BY <2>1, <2>2, Zenon DEF Record, CountDequeued
<1>2. SameOrder(b, CountDequeued(b))
  BY DEF Record, CountDequeued, SameOrder
<1> QED
  BY <1>1, <1>2

\* ... or taking one out of a queue ...
LEMMA DequeuedFields ==
  ASSUME NEW b \in Record
  PROVE  PacketDequeued(b) \in Record /\ SameOrder(b, PacketDequeued(b))
<1>1. CASE b.m_peeked
  BY <1>1 DEF PacketDequeued, SameOrder
<1>2. CASE ~ b.m_peeked
  BY <1>2, CountedFields DEF PacketDequeued
<1> QED
  BY <1>1, <1>2

\* ... or dropping it afterwards.
LEMMA DroppedFields ==
  ASSUME NEW b \in Record
  PROVE  DropAfterDequeue(b) \in Record /\ SameOrder(b, DropAfterDequeue(b))
<1> DEFINE c == [b EXCEPT !.nTotalDroppedAfterDequeue = @ + 1]
<1>1. c \in Record /\ SameOrder(b, c)
  BY DEF Record, SameOrder
<1>2. DropAfterDequeue(b) = IF b.m_peeked THEN CountDequeued(c) ELSE c
  BY DEF DropAfterDequeue
<1> HIDE DEF c
<1>3. CASE b.m_peeked
  BY <1>1, <1>2, <1>3, CountedFields DEF SameOrder
<1>4. CASE ~ b.m_peeked
  BY <1>1, <1>2, <1>4
<1> QED
  BY <1>3, <1>4

\* A peeked packet is set aside, or its place is emptied; arrivals are not
\* concerned.
LEMMA AsideFields ==
  ASSUME NEW b \in Record, NEW x \in Item \cup {NoItem}
  PROVE  /\ KeepPeeked(b, x).m_requeued = x
         /\ KeepPeeked(b, x).nTotalReceived = b.nTotalReceived
BY DEF Record, KeepPeeked

\* Handing out the packet set aside empties its place.
LEMMA ReleasedFields ==
  ASSUME NEW b \in Record
  PROVE  /\ ReleaseRequeued(b).m_requeued = NoItem
         /\ ReleaseRequeued(b).nTotalReceived = b.nTotalReceived
<1> DEFINE c == [b EXCEPT !.m_requeued = NoItem, !.m_peeked = FALSE]
<1>1. /\ c \in Record
      /\ c.m_requeued = NoItem /\ c.nTotalReceived = b.nTotalReceived
  BY DEF Record
<1>2. ReleaseRequeued(b) = IF b.m_peeked THEN CountDequeued(c) ELSE c
  BY DEF ReleaseRequeued
<1> HIDE DEF c
<1> QED
  BY <1>1, <1>2, CountedFields DEF SameOrder

\* The record of the disc is such a record.
LEMMA RootFields == TypeOK => root \in Record /\ fifo \in [Flows -> Seq(Item)]
BY DEF TypeOK, Base, Record

(***************************************************************************)
(* The steps                                                               *)
(***************************************************************************)
\* No packet is stored or set aside at first.
LEMMA InitOrder == Init => OrderInv
BY DEF Init, NewBase, OrderInv, InOrder

\* A step that leaves the queues, the number of arrivals and the packet set
\* aside alone, or only gives that packet away, keeps the order.
LEMMA QuietOrder ==
  ASSUME OrderInv, fifo' = fifo, root'.nTotalReceived = root.nTotalReceived,
         root'.m_requeued \in {root.m_requeued, NoItem}
  PROVE  OrderInv'
<1>1. CASE root'.m_requeued = root.m_requeued
  BY <1>1 DEF OrderInv, InOrder, Older
<1>2. CASE root'.m_requeued = NoItem
  BY <1>2 DEF OrderInv, InOrder
<1> QED
  BY <1>1, <1>2

\* Serving a flow takes the oldest packet of its queue.
LEMMA ServeOrder ==
  ASSUME TypeOK, BooksInv, OrderInv, ServeFlow
  PROVE  OrderInv'
<1> DEFINE f == Head(m_activeList)
           x == Head(fifo[f])
<1>1. f \in Flows /\ fifo[f] # <<>> /\ fifo[f] \in Seq(Item)
  BY DEF ServeFlow, MaySend, TypeOK
<1>2. /\ fifo' = [fifo EXCEPT ![f] = Tail(@)]
      /\ root' = IF root.m_peeked THEN KeepPeeked(PacketDequeued(root), x)
                 ELSE PacketDequeued(root)
  BY DEF ServeFlow, SendFrom, TakeHead
<1>3. root \in Record /\ fifo \in [Flows -> Seq(Item)]
  BY RootFields
<1>4. x \in Item
  BY <1>1
<1>5. root.nTotalReceived \in Nat /\ root.m_requeued = NoItem
  BY <1>3 DEF Record, ServeFlow, BooksInv
<1>6. /\ root'.nTotalReceived = root.nTotalReceived
      /\ root'.m_requeued \in {NoItem, x}
  BY <1>2, <1>3, <1>4, <1>5, DequeuedFields, AsideFields DEF SameOrder
<1>7. InOrder(fifo[f], f, root.nTotalReceived)
  BY <1>1 DEF OrderInv
<1>8. /\ InOrder(Tail(fifo[f]), f, root.nTotalReceived)
      /\ x.flow = f /\ x.id <= root.nTotalReceived
      /\ Older(x, Tail(fifo[f]))
  BY <1>1, <1>5, <1>7, OrderTail
<1>9. /\ fifo'[f] = Tail(fifo[f])
      /\ \A g \in Flows : g # f => fifo'[g] = fifo[g]
  BY <1>1, <1>2, <1>3
<1> HIDE DEF x, f
<1>10. \A g \in Flows : InOrder(fifo'[g], g, root'.nTotalReceived)
  BY <1>6, <1>8, <1>9 DEF OrderInv
<1>11. root'.m_requeued # NoItem =>
         /\ root'.m_requeued.id <= root'.nTotalReceived
         /\ Older(root'.m_requeued, fifo'[root'.m_requeued.flow])
  BY <1>6, <1>8, <1>9
<1> QED
  BY <1>10, <1>11 DEF OrderInv, InOrder, Older

\* An arrival is stored behind the older packets of its flow, or refused; the
\* packet the disc drops for it is the oldest of some queue.
LEMMA EnqueueOrder ==
  ASSUME IInv, OrderInv, NEW f \in Flows, NEW s \in Sizes, Enqueue(f, s)
  PROVE  OrderInv'
<1> DEFINE n == root.nTotalReceived
           item == [flow |-> f, size |-> s, id |-> n + 1]
           b == PacketReceived(root)
           queues == QueuesWith(f, item)
           bytes == BytesWith(f, item)
           counted == IF ChildAccepts(f)
                      THEN PacketEnqueued(b) ELSE DropBeforeEnqueue(b)
           held == root.m_requeued
<1>1. /\ root \in Record /\ fifo \in Queues /\ m_nBytes \in [Flows -> Nat]
      /\ \A g \in Flows : BytesOK(fifo[g], m_nBytes[g])
      /\ m_classes \in Seq(Flows)
  BY RootFields DEF IInv, TypeOK, Queues
<1>2. n \in Nat /\ n < MaxReceived /\ held \in Item \cup {NoItem}
  BY <1>1 DEF Enqueue, Record
<1>3. item \in Item /\ item.flow = f /\ item.id = n + 1
  BY <1>2, LimitsAssumption DEF Item
<1>4. /\ counted \in Record /\ counted.nTotalReceived = n + 1
      /\ counted.m_requeued = held
  BY <1>1, ReceivedFields, StoredFields DEF SameOrder
<1>5. /\ queues \in Queues /\ bytes \in [Flows -> Nat]
      /\ queues[f] # <<>>
      /\ \A g \in Flows : g # f => queues[g] = fifo[g]
      /\ \A g \in Flows : BytesOK(queues[g], bytes[g])
  BY <1>1, <1>3, StoredBytes
<1>6. queues[f] \in {fifo[f], Append(fifo[f], item)}
  BY <1>1 DEF QueuesWith, Queues
<1>7. \/ /\ fifo' = queues /\ root' = counted
      \/ \E v \in Flows :
           /\ IsLongest(v, ClassesWith(f), bytes)
           /\ fifo' = [queues EXCEPT ![v] = Tail(@)]
           /\ root' = DropAfterDequeue(PacketDequeued(counted))
  BY <1>3 DEF Enqueue, QueuesWith, BytesWith, DrrDropFromLongestQueue
<1> HIDE DEF n, item, b, queues, bytes, counted, held
<1>8. \A g \in Flows : InOrder(queues[g], g, n + 1)
  <2> SUFFICES ASSUME NEW g \in Flows PROVE InOrder(queues[g], g, n + 1)
    OBVIOUS
  <2>1. fifo[g] \in Seq(Item) /\ InOrder(fifo[g], g, n)
    BY <1>1 DEF Queues, OrderInv, n
  <2>2. InOrder(fifo[g], g, n + 1)
    BY <2>1, <1>2, OrderLater
  <2>3. g = f => InOrder(Append(fifo[g], item), g, n + 1)
    BY <2>1, <1>2, <1>3, OrderAppend
  <2> QED
    BY <2>2, <2>3, <1>5, <1>6
<1>9. held # NoItem =>
        held \in Item /\ held.flow \in Flows /\ held.id <= n + 1
        /\ Older(held, queues[held.flow])
  <2> SUFFICES ASSUME held # NoItem
               PROVE  held \in Item /\ held.flow \in Flows /\ held.id <= n + 1
                      /\ Older(held, queues[held.flow])
    OBVIOUS
  <2>1. held \in Item /\ held.flow \in Flows /\ held.id \in Nat
    BY <1>2, LimitsAssumption DEF Item
  <2>2. held.id <= n /\ Older(held, fifo[held.flow])
    BY DEF OrderInv, held, n
  <2>3. held.id < item.id /\ held.id <= n + 1
    BY <2>1, <2>2, <1>2, <1>3
  <2>4. Older(held, Append(fifo[held.flow], item))
    BY <2>1, <2>2, <2>3, <1>1, <1>3, OlderAppend DEF Queues
  <2> QED
    BY <2>1, <2>2, <2>3, <2>4, <1>5, <1>6
<1>10. CASE fifo' = queues /\ root' = counted
  <2>1. \A g \in Flows : InOrder(fifo'[g], g, root'.nTotalReceived)
    BY <1>4, <1>8, <1>10
  <2>2. root'.m_requeued # NoItem =>
          /\ root'.m_requeued.id <= root'.nTotalReceived
          /\ Older(root'.m_requeued, fifo'[root'.m_requeued.flow])
    BY <1>4, <1>9, <1>10
  <2> QED
    BY <2>1, <2>2 DEF OrderInv, InOrder, Older
<1>11. ASSUME NEW v \in Flows,
              IsLongest(v, ClassesWith(f), bytes),
              fifo' = [queues EXCEPT ![v] = Tail(@)],
              root' = DropAfterDequeue(PacketDequeued(counted))
       PROVE  OrderInv'
  <2>1. queues[v] # <<>> /\ queues[v] \in Seq(Item)
    BY <1>1, <1>5, <1>11, VictimStores DEF Queues
  <2>2. root'.nTotalReceived = n + 1 /\ root'.m_requeued = held
    BY <1>4, <1>11, DequeuedFields, DroppedFields DEF SameOrder
  <2>3. /\ fifo'[v] = Tail(queues[v])
        /\ \A g \in Flows : g # v => fifo'[g] = queues[g]
    BY <1>5, <1>11 DEF Queues
  <2>4. n + 1 \in Nat
    BY <1>2
  <2>5. \A g \in Flows : InOrder(fifo'[g], g, root'.nTotalReceived)
    BY <2>1, <2>2, <2>3, <2>4, <1>8, OrderTail
  <2>6. root'.m_requeued # NoItem =>
          /\ root'.m_requeued.id <= root'.nTotalReceived
          /\ Older(root'.m_requeued, fifo'[root'.m_requeued.flow])
    BY <2>1, <2>2, <2>3, <1>9, OlderTail
  <2> QED
    BY <2>5, <2>6 DEF OrderInv, InOrder, Older
<1> QED
  BY <1>7, <1>10, <1>11

\* Every step keeps the order.
LEMMA NextOrder == IInv /\ OrderInv /\ [Next]_vars => OrderInv'
<1> SUFFICES ASSUME IInv, OrderInv, [Next]_vars PROVE OrderInv'
  OBVIOUS
<1>1. root \in Record
  BY RootFields DEF IInv
<1>2. ASSUME NEW f \in Flows, NEW s \in Sizes, Enqueue(f, s) PROVE OrderInv'
  BY <1>2, EnqueueOrder
<1>3. CASE DequeueRequeued
  BY <1>1, <1>3, ReleasedFields, QuietOrder DEF DequeueRequeued, flowVars
<1>4. CASE Dequeue
  BY <1>4, QuietOrder DEF Dequeue, flowVars
<1>5. CASE Peek
  <2>1. /\ root'.m_requeued = root.m_requeued
        /\ root'.nTotalReceived = root.nTotalReceived
    BY <1>1, <1>5 DEF Peek, Record
  <2> QED
    BY <2>1, <1>5, QuietOrder DEF Peek, flowVars
<1>6. CASE ReturnNull
  BY <1>1, <1>6, AsideFields, QuietOrder DEF ReturnNull, flowVars
<1>7. CASE ServeFlow
  BY <1>7, ServeOrder DEF IInv
<1>8. CASE SkipFlow
  BY <1>8, QuietOrder DEF SkipFlow
<1>9. CASE UNCHANGED vars
  BY <1>9, QuietOrder DEF vars, flowVars
<1> QED
  BY <1>2, <1>3, <1>4, <1>5, <1>6, <1>7, <1>8, <1>9 DEF Next

\* The packets of a flow are stored, peeked and dropped oldest first: none
\* overtakes another, whatever overflow, refusals and peeks do in between.
THEOREM FlowOrderCorrect == Spec => []FlowOrder
<1>1. OrderInv => FlowOrder
  BY DEF OrderInv, FlowOrder, InOrder, Older
<1>2. Spec => []OrderInv
  BY Invariance, InitOrder, NextOrder, PTL DEF Spec
<1> QED
  BY <1>1, <1>2, PTL

(***************************************************************************)
(* The refinement of WorkConservingDisc                                    *)
(***************************************************************************)

Refused(b) == b.nTotalDroppedBeforeEnqueue

\* Only a refusal by a child queue counts as one.
LEMMA RefusedFields ==
  ASSUME NEW b \in Record
  PROVE  /\ Refused(PacketReceived(b)) = Refused(b)
         /\ Refused(PacketEnqueued(b)) = Refused(b)
         /\ Refused(DropBeforeEnqueue(b)) = Refused(b) + 1
         /\ Refused(PacketDequeued(b)) = Refused(b)
         /\ Refused(DropAfterDequeue(b)) = Refused(b)
         /\ Refused(ReleaseRequeued(b)) = Refused(b)
         /\ \A x \in Item \cup {NoItem} : Refused(KeepPeeked(b, x)) = Refused(b)
<1>1. /\ Refused(PacketReceived(b)) = Refused(b)
      /\ Refused(PacketEnqueued(b)) = Refused(b)
      /\ Refused(DropBeforeEnqueue(b)) = Refused(b) + 1
  BY DEF Record, Refused, PacketReceived, PacketEnqueued, DropBeforeEnqueue
<1>2. ASSUME NEW c \in Record PROVE Refused(CountDequeued(c)) = Refused(c)
  BY DEF Record, Refused, CountDequeued
<1>3. Refused(PacketDequeued(b)) = Refused(b)
  BY <1>2 DEF PacketDequeued
<1>4. Refused(DropAfterDequeue(b)) = Refused(b)
  <2> DEFINE c == [b EXCEPT !.nTotalDroppedAfterDequeue = @ + 1]
  <2>1. c \in Record /\ Refused(c) = Refused(b)
    BY DEF Record, Refused
  <2>2. DropAfterDequeue(b) = IF b.m_peeked THEN CountDequeued(c) ELSE c
    BY DEF DropAfterDequeue
  <2> HIDE DEF c
  <2> QED
    BY <1>2, <2>1, <2>2
<1>5. Refused(ReleaseRequeued(b)) = Refused(b)
  <2> DEFINE c == [b EXCEPT !.m_requeued = NoItem, !.m_peeked = FALSE]
  <2>1. c \in Record /\ Refused(c) = Refused(b)
    BY DEF Record, Refused
  <2>2. ReleaseRequeued(b) = IF b.m_peeked THEN CountDequeued(c) ELSE c
    BY DEF ReleaseRequeued
  <2> HIDE DEF c
  <2> QED
    BY <1>2, <2>1, <2>2
<1>6. \A x \in Item \cup {NoItem} : Refused(KeepPeeked(b, x)) = Refused(b)
  BY DEF Record, Refused, KeepPeeked
<1> QED
  BY <1>1, <1>3, <1>4, <1>5, <1>6

\* An arrival is an arrival of the abstract disc: it discards a packet only when
\* the disc is full, and then the oldest of some flow.
LEMMA EnqueueArrives ==
  ASSUME IInv, NEW f \in Flows, NEW s \in Sizes, Enqueue(f, s)
  PROVE  \E x \in Item : Disc!Arrive(f, x)
<1> DEFINE n == root.nTotalReceived
           item == [flow |-> f, size |-> s, id |-> n + 1]
           b == PacketReceived(root)
           queues == QueuesWith(f, item)
           bytes == BytesWith(f, item)
           counted == IF ChildAccepts(f)
                      THEN PacketEnqueued(b) ELSE DropBeforeEnqueue(b)
<1>1. /\ root \in Record /\ fifo \in Queues /\ m_nBytes \in [Flows -> Nat]
      /\ \A g \in Flows : BytesOK(fifo[g], m_nBytes[g])
      /\ m_classes \in Seq(Flows)
  BY RootFields DEF IInv, TypeOK, Queues
<1>2. n \in Nat /\ n < MaxReceived
  BY <1>1 DEF Enqueue, Record
<1>3. item \in Item
  BY <1>2, LimitsAssumption DEF Item
<1>4. /\ counted \in Record
      /\ counted.m_requeued = root.m_requeued
      /\ Refused(counted) = IF ChildAccepts(f) THEN Refused(root) ELSE Refused(root) + 1
  <2>1. b \in Record /\ b.m_requeued = root.m_requeued /\ Refused(b) = Refused(root)
    BY <1>1, ReceivedFields, RefusedFields
  <2> HIDE DEF b
  <2>2. /\ PacketEnqueued(b) \in Record /\ PacketEnqueued(b).m_requeued = root.m_requeued
        /\ Refused(PacketEnqueued(b)) = Refused(root)
    BY <2>1, StoredFields, RefusedFields DEF SameOrder
  <2>3. /\ DropBeforeEnqueue(b) \in Record
        /\ DropBeforeEnqueue(b).m_requeued = root.m_requeued
        /\ Refused(DropBeforeEnqueue(b)) = Refused(root) + 1
    BY <2>1, StoredFields, RefusedFields DEF SameOrder
  <2> QED
    BY <2>2, <2>3
<1>5. /\ queues \in Queues /\ bytes \in [Flows -> Nat]
      /\ queues[f] # <<>>
      /\ \A g \in Flows : BytesOK(queues[g], bytes[g])
  BY <1>1, <1>3, StoredBytes
<1>6. queues = IF ChildAccepts(f) THEN [fifo EXCEPT ![f] = Append(@, item)] ELSE fifo
  BY DEF QueuesWith
<1>7. ChildAccepts(f) <=> Len(fifo[f]) < ChildLimit
  BY <1>1, LimitsAssumption DEF ChildAccepts, Queues
<1>8. MustDrop <=> ~ (Disc!Count(fifo) + Refused(root) < MaxQueueSize)
  <2>1. Disc!Count(fifo) = NStored
    BY DEF Disc!Count, NStored, SlotsOf, Disc!Cardinality, Cardinality
  <2>2. m_currentQueueSize = NStored + Refused(root)
    BY DEF IInv, BooksInv, Refused
  <2>3. m_currentQueueSize \in Nat /\ MaxQueueSize \in Nat
    BY LimitsAssumption DEF IInv, TypeOK
  <2> QED
    BY <2>1, <2>2, <2>3 DEF MustDrop
<1>9. /\ pc = "idle" /\ pc' = pc
      /\ IF MustDrop
         THEN \E v \in Flows :
                /\ IsLongest(v, ClassesWith(f), bytes)
                /\ fifo' = [queues EXCEPT ![v] = Tail(@)]
                /\ root' = DropAfterDequeue(PacketDequeued(counted))
         ELSE fifo' = queues /\ root' = counted
  BY <1>3 DEF Enqueue, QueuesWith, BytesWith, DrrDropFromLongestQueue
<1> HIDE DEF n, item, b, queues, bytes, counted
<1>10. /\ root'.m_requeued = root.m_requeued
       /\ Refused(root') = IF ChildAccepts(f) THEN Refused(root) ELSE Refused(root) + 1
  <2>1. root' \in {counted, DropAfterDequeue(PacketDequeued(counted))}
    BY <1>9
  <2>2. PacketDequeued(counted) \in Record
    BY <1>4, DequeuedFields
  <2>3. LET c == DropAfterDequeue(PacketDequeued(counted))
        IN  c.m_requeued = counted.m_requeued /\ Refused(c) = Refused(counted)
    BY <1>4, <2>2, DequeuedFields, DroppedFields, RefusedFields DEF SameOrder
  <2> QED
    BY <1>4, <2>1, <2>3
<1>11. IF Disc!Count(fifo) + Refused(root) < MaxQueueSize
       THEN fifo' = queues
       ELSE \E v \in Flows : queues[v] # <<>> /\ fifo' = [queues EXCEPT ![v] = Tail(@)]
  <2>1. \A v \in Flows : IsLongest(v, ClassesWith(f), bytes) => queues[v] # <<>>
    BY <1>1, <1>5, VictimStores
  <2> QED
    BY <1>8, <1>9, <2>1
<1>12. Disc!Arrive(f, item)
  BY <1>6, <1>7, <1>9, <1>10, <1>11 DEF Disc!Arrive, Refused
<1> QED
  BY <1>3, <1>12

\* Every step of DrrQueueDisc is a step of the abstract disc or leaves it alone.
LEMMA NextImplements ==
  ASSUME IInv, [Next]_vars
  PROVE  [Disc!Next]_(Disc!vars)
<1>1. root \in Record /\ fifo \in [Flows -> Seq(Item)]
  BY RootFields DEF IInv
<1>2. ASSUME NEW f \in Flows, NEW s \in Sizes, Enqueue(f, s) PROVE Disc!Next
  BY <1>2, EnqueueArrives DEF Disc!Next
<1>3. CASE DequeueRequeued
  <2>1. /\ pc = "idle" /\ pc' = pc /\ root.m_requeued # NoItem /\ fifo' = fifo
        /\ root'.m_requeued = NoItem /\ Refused(root') = Refused(root)
    BY <1>1, <1>3, ReleasedFields, RefusedFields DEF DequeueRequeued, flowVars
  <2> QED
    BY <2>1 DEF Disc!Next, Disc!Release, Refused
<1>4. CASE Dequeue \/ Peek
  <2>1. /\ pc = "idle" /\ pc' = "loop" /\ root.m_requeued = NoItem /\ fifo' = fifo
        /\ root'.m_requeued = root.m_requeued /\ Refused(root') = Refused(root)
    BY <1>1, <1>4 DEF Dequeue, Peek, flowVars, Record, Refused
  <2> QED
    BY <2>1 DEF Disc!Next, Disc!Call, Refused
<1>5. CASE ReturnNull
  <2>1. /\ pc = "loop" /\ pc' = "idle" /\ root.m_requeued = NoItem /\ fifo' = fifo
        /\ root'.m_requeued = NoItem /\ Refused(root') = Refused(root)
    BY <1>1, <1>5, AsideFields, RefusedFields
       DEF ReturnNull, flowVars, IInv, BooksInv
  <2>2. \A f \in Flows : fifo[f] = <<>>
    <3>1. DOMAIN m_activeList = {}
      BY <1>5 DEF ReturnNull
    <3> QED
      BY <3>1 DEF IInv, ActiveListSound
  <2> QED
    BY <2>1, <2>2 DEF Disc!Next, Disc!Return, Disc!ReturnNull, Refused
<1>6. CASE ServeFlow
  <2> DEFINE f == Head(m_activeList)
             x == Head(fifo[f])
  <2>1. f \in Flows /\ fifo[f] # <<>> /\ fifo[f] \in Seq(Item)
    BY <1>6 DEF ServeFlow, MaySend, IInv, TypeOK
  <2>2. /\ fifo' = [fifo EXCEPT ![f] = Tail(@)]
        /\ root' = IF root.m_peeked THEN KeepPeeked(PacketDequeued(root), x)
                   ELSE PacketDequeued(root)
        /\ pc = "loop" /\ pc' = "idle" /\ root.m_requeued = NoItem
    BY <1>6 DEF ServeFlow, SendFrom, TakeHead, IInv, BooksInv
  <2>3. x \in Item
    BY <2>1
  <2>4. root'.m_requeued \in {NoItem, x} /\ Refused(root') = Refused(root)
    BY <1>1, <2>2, <2>3, DequeuedFields, AsideFields, RefusedFields DEF SameOrder
  <2> HIDE DEF f
  <2>5. Disc!Yield(f)
    BY <2>1, <2>2, <2>4 DEF Disc!Yield, Refused
  <2> QED
    BY <2>1, <2>5 DEF Disc!Next, Disc!Return
<1>7. CASE SkipFlow \/ UNCHANGED vars
  BY <1>7 DEF SkipFlow, vars, flowVars, Disc!vars
<1> QED
  BY <1>2, <1>3, <1>4, <1>5, <1>6, <1>7 DEF Next

\* DrrQueueDisc implements a work-conserving disc, for every value of its
\* constants: order within a flow, null only when empty, drops only when full or
\* by a full child queue, a peeked packet handed out next.
THEOREM ImplementsWorkConserving == Spec => Disc!Spec
<1>1. Init => Disc!Init
  BY DEF Init, NewBase, Disc!Init
<1>2. IInv /\ [Next]_vars => [Disc!Next]_(Disc!vars)
  BY NextImplements
<1> QED
  BY <1>1, <1>2, Invariance, PTL DEF Spec, Disc!Spec

(***************************************************************************)
(* Fairness.  The carry of a flow is its deficit without the quantum of    *)
(* the turn it is in.  Sending a packet of n bytes takes n off the carry   *)
(* of a flow and adds n to its lead in bytes; the end of its turn adds a   *)
(* quantum to its carry and puts it behind all others.  So lead and carry  *)
(* of two flows together change only when they change places.              *)
(***************************************************************************)

\* The amounts that a deficit may reach fit an int32_t.
AmountsFit ==
  2 * Quantum < Int32Half /\ \A s \in Sizes : s + Quantum <= Int32Half

Extra(b) == IF b THEN Quantum ELSE 0
Bounded(d, b) == /\ d >= 0
                 /\ \/ d <= Quantum + Extra(b)
                    \/ \E s \in Sizes : d < s + Extra(b)

\* What lead and carry of a flow may be over those of a flow behind it.
Balanced(h) ==
  \E c \in CarryOver : \/ -(2 * Quantum) <= h /\ h + Quantum <= c
                       \/ - c <= h /\ h <= Quantum

WithinBytes(n) == \E c \in CarryOver : n <= 2 * Quantum + c \/ n <= 2 * c

LEMMA CarryOverNat == CarryOver \subseteq Nat /\ Quantum \in CarryOver /\ Quantum \in Nat
BY QuantumAssumption, SizesAssumption DEF CarryOver

\* The carry of a flow.
LEMMA CarryFacts ==
  ASSUME NEW d \in Int, NEW b \in BOOLEAN, Bounded(d, b)
  PROVE  /\ d - Extra(b) \in Int /\ Extra(b) \in Int
         /\ d - Extra(b) >= - Quantum
         /\ ~ b => d - Extra(b) >= 0
         /\ \E c \in CarryOver : d - Extra(b) <= c
<1>1. Quantum \in Nat /\ Extra(b) \in {0, Quantum} /\ (~ b => Extra(b) = 0)
  BY QuantumAssumption DEF Extra
<1>2. CASE d <= Quantum + Extra(b)
  <2>1. d - Extra(b) <= Quantum
    BY <1>1, <1>2
  <2> QED
    BY <1>1, <2>1, CarryOverNat DEF Bounded
<1>3. CASE \E s \in Sizes : d < s + Extra(b)
  <2>1. PICK s \in Sizes : d < s + Extra(b)
    BY <1>3
  <2>2. s \in Nat /\ s - 1 \in CarryOver
    BY SizesAssumption DEF CarryOver
  <2>3. d - Extra(b) <= s - 1
    BY <1>1, <2>1, <2>2
  <2> QED
    BY <1>1, <2>2, <2>3 DEF Bounded
<1> QED
  BY <1>2, <1>3 DEF Bounded

\* A flow that joins with a quantum is in balance with those before it.
LEMMA BalancedJoin ==
  ASSUME NEW w \in Int, w >= - Quantum, NEW c \in CarryOver, w <= c
  PROVE  Balanced(0 + (w - Quantum))
<1>1. Quantum \in Nat /\ c \in Nat
  BY CarryOverNat
<1>2. -(2 * Quantum) <= 0 + (w - Quantum) /\ (0 + (w - Quantum)) + Quantum <= c
  BY <1>1
<1> QED
  BY <1>2 DEF Balanced

\* So are two flows of which the first has ended its turn.
LEMMA BalancedTurn ==
  ASSUME NEW h \in Int, Balanced(h)
  PROVE  Balanced(-(h + Quantum))
<1>1. PICK c \in CarryOver : \/ -(2 * Quantum) <= h /\ h + Quantum <= c
                             \/ - c <= h /\ h <= Quantum
  BY DEF Balanced
<1>2. Quantum \in Nat /\ c \in Nat
  BY CarryOverNat
<1>3. CASE -(2 * Quantum) <= h /\ h + Quantum <= c
  <2>1. - c <= -(h + Quantum) /\ -(h + Quantum) <= Quantum
    BY <1>2, <1>3
  <2> QED
    BY <2>1 DEF Balanced
<1>4. CASE - c <= h /\ h <= Quantum
  <2>1. -(2 * Quantum) <= -(h + Quantum) /\ -(h + Quantum) + Quantum <= c
    BY <1>2, <1>4
  <2> QED
    BY <2>1 DEF Balanced
<1> QED
  BY <1>1, <1>3, <1>4

\* The lead in bytes of two flows in balance.
LEMMA BalancedBytes ==
  ASSUME NEW n \in Int, NEW w \in Int, NEW v \in Int, Balanced(n + (w - v)),
         w >= - Quantum, v >= 0,
         \E c \in CarryOver : w <= c, \E c \in CarryOver : v <= c
  PROVE  WithinBytes(n) /\ WithinBytes(- n)
<1>1. PICK c \in CarryOver : w <= c
  OBVIOUS
<1>2. PICK d \in CarryOver : v <= d
  OBVIOUS
<1>3. PICK e \in CarryOver :
        \/ -(2 * Quantum) <= n + (w - v) /\ (n + (w - v)) + Quantum <= e
        \/ - e <= n + (w - v) /\ n + (w - v) <= Quantum
  BY DEF Balanced
<1>4. Quantum \in Nat /\ c \in Nat /\ d \in Nat /\ e \in Nat
  BY CarryOverNat
<1>5. ASSUME NEW x \in CarryOver, NEW y \in CarryOver, NEW k \in Int, k <= x + y
      PROVE  WithinBytes(k)
  <2>1. x \in Nat /\ y \in Nat
    BY CarryOverNat
  <2>2. k <= 2 * x \/ k <= 2 * y
    BY <1>5, <2>1
  <2> QED
    BY <2>2 DEF WithinBytes
<1>6. CASE -(2 * Quantum) <= n + (w - v) /\ (n + (w - v)) + Quantum <= e
  <2>1. n <= e + d /\ - n <= 2 * Quantum + c
    BY <1>1, <1>2, <1>4, <1>6
  <2> QED
    BY <1>5, <2>1 DEF WithinBytes
<1>7. CASE - e <= n + (w - v) /\ n + (w - v) <= Quantum
  <2>1. n <= 2 * Quantum + d /\ - n <= e + c
    BY <1>1, <1>2, <1>4, <1>7
  <2> QED
    BY <1>5, <2>1 DEF WithinBytes
<1> QED
  BY <1>3, <1>6, <1>7

Carry(f) == m_deficit[f] - Extra(m_hasDeficitBumped[f])
Turn(b) == IF b THEN 1 ELSE 0

\* Leads are differences.
Anti(lead) == /\ lead \in [Pairs -> Int]
              /\ \A f, g \in Flows : lead[<<f, g>>] = - lead[<<g, f>>]

\* A flow that is ahead of another in the list has completed as many turns as
\* the other or one less (t is its lead in turns, b if it is in one), and is in
\* balance with it (n is its lead in bytes, w and v are the carries).
InRound(t, b, n, w, v) == t - Turn(b) \in {-1, 0} /\ Balanced(n + (w - v))

RoundInv ==
  /\ Anti(turnLead) /\ Anti(byteLead)
  /\ \A f, g \in Flows : Ahead(m_activeList, f, g) =>
       InRound(turnLead[<<f, g>>], m_hasDeficitBumped[f], byteLead[<<f, g>>],
               Carry(f), Carry(g))

FInv == IInv /\ DeficitBounded /\ RoundInv

LEMMA TurnIsBit ==
  ASSUME NEW b PROVE Turn(b) \in {0, 1} /\ 0 - Turn(b) \in {-1, 0}
<1>1. Turn(b) = 0 \/ Turn(b) = 1
  BY Zenon DEF Turn
<1> QED
  BY <1>1

LEMMA DeficitBoundedDef ==
  DeficitBounded <=> \A f \in Flows : Bounded(m_deficit[f], m_hasDeficitBumped[f])
BY DEF DeficitBounded, Bounded, Extra

\* The head of the list alone is in a turn.
LEMMA AheadFacts ==
  ASSUME IInv, NEW x \in Flows, NEW y \in Flows, Ahead(m_activeList, x, y)
  PROVE  /\ x # y /\ m_status[x] = "ACTIVE" /\ m_status[y] = "ACTIVE"
         /\ ~ m_hasDeficitBumped[y]
<1>1. PICK i \in DOMAIN m_activeList, j \in DOMAIN m_activeList :
        i < j /\ m_activeList[i] = x /\ m_activeList[j] = y
  BY DEF Ahead
<1>2. i \in Nat \ {0} /\ j \in Nat /\ i # j /\ j > 1
  BY <1>1, SMTT(30) DEF IInv, TypeOK
<1> QED
  BY <1>1, <1>2, ActiveListSoundDef DEF IInv, Distinct, In

\* Between flows that are active, new is lead with n more for flow f.
Raised(lead, new, f, n) ==
  \A x, y \in Flows :
    x # y /\ m_status[x] = "ACTIVE" /\ m_status[y] = "ACTIVE" =>
      new[<<x, y>>] = IF x = f THEN lead[<<x, y>>] + n
                      ELSE IF y = f THEN lead[<<x, y>>] - n
                      ELSE lead[<<x, y>>]

\* The comparisons of flows active together follow the gain of one of them.
LEMMA GainFacts ==
  ASSUME NEW lead, Anti(lead), NEW f \in Flows, NEW n \in Int
  PROVE  Anti(Gain(lead, f, n)) /\ Raised(lead, Gain(lead, f, n), f, n)
<1> DEFINE off(x, y) == x = y \/ m_status[x] = "INACTIVE" \/ m_status[y] = "INACTIVE"
           G == Gain(lead, f, n)
<1>1. ASSUME NEW x \in Flows, NEW y \in Flows
      PROVE  /\ G[<<x, y>>] = IF off(x, y) THEN 0
                              ELSE IF x = f THEN lead[<<x, y>>] + n
                              ELSE IF y = f THEN lead[<<x, y>>] - n
                              ELSE lead[<<x, y>>]
             /\ <<x, y>> \in Pairs /\ lead[<<x, y>>] \in Int
  <2>1. <<x, y>> \in Pairs /\ <<x, y>>[1] = x /\ <<x, y>>[2] = y
    BY DEF Pairs
  <2>2. (\E g \in {x, y} : m_status[g] = "INACTIVE")
           <=> m_status[x] = "INACTIVE" \/ m_status[y] = "INACTIVE"
    OBVIOUS
  <2> QED
    BY <2>1, <2>2 DEF Gain, Anti
<1>2. G \in [Pairs -> Int]
  BY DEF Gain, Anti
<1> HIDE DEF G
<1>3. ASSUME NEW x \in Flows, NEW y \in Flows PROVE G[<<x, y>>] = - G[<<y, x>>]
  <2>1. lead[<<x, y>>] = - lead[<<y, x>>] /\ lead[<<x, y>>] \in Int /\ lead[<<y, x>>] \in Int
    BY <1>1 DEF Anti
  <2>2. CASE off(x, y)
    BY <1>1, <2>2
  <2>3. CASE ~ off(x, y) /\ x = f
    BY <1>1, <2>1, <2>3
  <2>4. CASE ~ off(x, y) /\ x # f /\ y = f
    BY <1>1, <2>1, <2>4
  <2>5. CASE ~ off(x, y) /\ x # f /\ y # f
    BY <1>1, <2>1, <2>5
  <2> QED
    BY <2>2, <2>3, <2>4, <2>5
<1>4. Anti(G)
  BY <1>2, <1>3 DEF Anti
<1>5. Raised(lead, G, f, n)
  BY <1>1 DEF Raised
<1> QED
  BY <1>4, <1>5 DEF G

LEMMA RestartFacts ==
  ASSUME NEW lead, Anti(lead), NEW f \in Flows
  PROVE  /\ Anti(Restart(lead, f))
         /\ \A x, y \in Flows : Restart(lead, f)[<<x, y>>]
                                  = IF f \in {x, y} THEN 0 ELSE lead[<<x, y>>]
<1>1. ASSUME NEW x \in Flows, NEW y \in Flows
      PROVE  Restart(lead, f)[<<x, y>>] = IF f \in {x, y} THEN 0 ELSE lead[<<x, y>>]
  <2>1. <<x, y>> \in Pairs /\ <<x, y>>[1] = x /\ <<x, y>>[2] = y
    BY DEF Pairs
  <2> QED
    BY <2>1 DEF Restart
<1>2. Restart(lead, f) \in [Pairs -> Int]
  BY DEF Restart, Anti
<1>3. ASSUME NEW x \in Flows, NEW y \in Flows
      PROVE  Restart(lead, f)[<<x, y>>] = - Restart(lead, f)[<<y, x>>]
  <2>1. lead[<<x, y>>] = - lead[<<y, x>>]
    BY DEF Anti
  <2> QED
    BY <1>1, <2>1
<1> QED
  BY <1>1, <1>2, <1>3 DEF Anti

\* The quantum is granted without overflow.
LEMMA GrantFits ==
  ASSUME IInv, DeficitBounded, AmountsFit, NEW f \in Flows
  PROVE  /\ BumpedDeficit(f) = Carry(f) + Quantum
         /\ ToInt32(Quantum) = Quantum
         /\ Carry(f) \in Int /\ m_deficit[f] \in Int /\ Quantum \in Nat
         /\ Bounded(BumpedDeficit(f), TRUE)
<1> DEFINE d == m_deficit[f]
           b == m_hasDeficitBumped[f]
<1>1. /\ d \in Int /\ b \in BOOLEAN /\ Bounded(d, b) /\ Quantum \in Nat
      /\ Int32Half \in Nat /\ 2 * Quantum < Int32Half
      /\ \A s \in Sizes : s \in Nat /\ s + Quantum <= Int32Half
  BY DeficitBoundedDef, QuantumAssumption, WidthAssumption, SizesAssumption
     DEF IInv, TypeOK, AmountsFit
<1>2. ToInt32(Quantum) = Quantum
  BY <1>1 DEF ToInt32
<1>3. CASE b
  BY <1>1, <1>2, <1>3 DEF BumpedDeficit, Carry, Extra, Bounded
<1>4. CASE ~ b
  <2>1. d >= 0 /\ (d <= Quantum \/ \E s \in Sizes : d < s)
    BY <1>1, <1>4 DEF Bounded, Extra
  <2>2. d + Quantum < Int32Half
    BY <1>1, <2>1
  <2>3. ToInt32(d + Quantum) = d + Quantum
    BY <1>1, <2>1, <2>2 DEF ToInt32
  <2>4. BumpedDeficit(f) = d + Quantum /\ Carry(f) = d
    BY <1>1, <1>2, <1>4, <2>3 DEF BumpedDeficit, Carry, Extra
  <2>5. Bounded(d + Quantum, TRUE)
    BY <1>1, <2>1 DEF Bounded, Extra
  <2> QED
    BY <1>1, <1>2, <2>4, <2>5
<1> QED
  BY <1>1, <1>3, <1>4

\* The state the next steps start from.
LEMMA FInvFacts ==
  ASSUME FInv
  PROVE  /\ IInv /\ DeficitBounded /\ RoundInv
         /\ m_activeList \in Seq(Flows) /\ Distinct(m_activeList)
         /\ m_deficit \in [Flows -> Int] /\ m_hasDeficitBumped \in [Flows -> BOOLEAN]
         /\ \A f \in Flows : m_status[f] = "ACTIVE" <=> In(f, m_activeList)
         /\ \A f \in Flows : m_status[f] \in {"ACTIVE", "INACTIVE"}
         /\ Anti(turnLead) /\ Anti(byteLead)
BY ActiveListSoundDef, WidthAssumption DEF FInv, IInv, TypeOK, RoundInv

\* A step after which every flow ahead of another was so before, and nothing
\* about the two has changed.
LEMMA SameRounds ==
  ASSUME RoundInv, Anti(turnLead'), Anti(byteLead'),
         \A x, y \in Flows : Ahead(m_activeList', x, y) =>
           /\ Ahead(m_activeList, x, y)
           /\ turnLead'[<<x, y>>] = turnLead[<<x, y>>]
           /\ byteLead'[<<x, y>>] = byteLead[<<x, y>>]
           /\ \A z \in {x, y} : /\ m_deficit'[z] = m_deficit[z]
                                /\ m_hasDeficitBumped'[z] = m_hasDeficitBumped[z]
  PROVE  RoundInv'
<1> SUFFICES ASSUME NEW x \in Flows, NEW y \in Flows, Ahead(m_activeList', x, y)
             PROVE  InRound(turnLead'[<<x, y>>], m_hasDeficitBumped'[x], byteLead'[<<x, y>>],
                            Carry(x)', Carry(y)')
  BY DEF RoundInv
<1>1. /\ m_deficit'[x] = m_deficit[x] /\ m_hasDeficitBumped'[x] = m_hasDeficitBumped[x]
      /\ m_deficit'[y] = m_deficit[y] /\ m_hasDeficitBumped'[y] = m_hasDeficitBumped[y]
  OBVIOUS
<1>2. Carry(x)' = Carry(x) /\ Carry(y)' = Carry(y)
  BY <1>1 DEF Carry
<1> QED
  BY <1>1, <1>2 DEF RoundInv

\* The head flow leaves the list: the others keep their places.
LEMMA LeaveFair ==
  ASSUME FInv, m_activeList # <<>>, Deactivate(Head(m_activeList)),
         Anti(turnLead'), Anti(byteLead'),
         \A x, y \in Flows \ {Head(m_activeList)} : Ahead(m_activeList, x, y) =>
           /\ turnLead'[<<x, y>>] = turnLead[<<x, y>>]
           /\ byteLead'[<<x, y>>] = byteLead[<<x, y>>]
  PROVE  DeficitBounded' /\ RoundInv'
<1> DEFINE l == m_activeList
           f == Head(m_activeList)
<1>1. /\ l \in Seq(Flows) /\ Distinct(l) /\ RoundInv /\ DeficitBounded
      /\ m_deficit \in [Flows -> Int] /\ m_hasDeficitBumped \in [Flows -> BOOLEAN]
  BY FInvFacts
<1>2. /\ f \in Flows /\ \A g \in Flows : In(g, Tail(l)) => g # f
  BY <1>1, ListTail
<1>3. /\ m_deficit' = [m_deficit EXCEPT ![f] = 0]
      /\ m_hasDeficitBumped' = [m_hasDeficitBumped EXCEPT ![f] = FALSE]
      /\ m_activeList' = Tail(l)
  BY DEF Deactivate
<1>4. \A z \in Flows \ {f} : /\ m_deficit'[z] = m_deficit[z]
                             /\ m_hasDeficitBumped'[z] = m_hasDeficitBumped[z]
  BY <1>1, <1>3
<1>5. \A x, y \in Flows : Ahead(m_activeList', x, y) => Ahead(l, x, y) /\ x # f /\ y # f
  BY <1>1, <1>2, <1>3, AheadTail
<1>6. RoundInv'
  <2> SUFFICES ASSUME NEW x \in Flows, NEW y \in Flows, Ahead(m_activeList', x, y)
               PROVE  /\ Ahead(l, x, y)
                      /\ turnLead'[<<x, y>>] = turnLead[<<x, y>>]
                      /\ byteLead'[<<x, y>>] = byteLead[<<x, y>>]
                      /\ \A z \in {x, y} :
                           /\ m_deficit'[z] = m_deficit[z]
                           /\ m_hasDeficitBumped'[z] = m_hasDeficitBumped[z]
    BY <1>1, SameRounds
  <2>1. Ahead(l, x, y) /\ x # f /\ y # f
    BY <1>5
  <2> QED
    BY <1>4, <2>1
<1>7. Bounded(0, FALSE)
  BY QuantumAssumption DEF Bounded, Extra
<1>8. \A z \in Flows : Bounded(m_deficit'[z], m_hasDeficitBumped'[z])
  <2> TAKE z \in Flows
  <2>1. CASE z = f
    BY <1>1, <1>2, <1>3, <1>7, <2>1
  <2>2. CASE z # f
    BY <1>1, <1>4, <2>2, DeficitBoundedDef
  <2> QED
    BY <2>1, <2>2
<1>9. DeficitBounded'
  BY <1>8 DEF DeficitBounded, Bounded, Extra
<1> QED
  BY <1>6, <1>9

\* A flow that joins has a quantum and is behind all others.
LEMMA EnqueueFair ==
  ASSUME FInv, AmountsFit, NEW f \in Flows, NEW s \in Sizes, FairEnqueue(f, s)
  PROVE  DeficitBounded' /\ RoundInv'
<1> DEFINE l == m_activeList
<1>1. /\ l \in Seq(Flows) /\ RoundInv /\ DeficitBounded /\ IInv
      /\ m_deficit \in [Flows -> Int] /\ m_hasDeficitBumped \in [Flows -> BOOLEAN]
      /\ Anti(turnLead) /\ Anti(byteLead) /\ m_hasDeficitBumped' = m_hasDeficitBumped
      /\ Activate(f)
  BY FInvFacts DEF FairEnqueue, Enqueue
<1>2. CASE m_status[f] # "INACTIVE"
  <2>1. UNCHANGED <<m_activeList, m_deficit, m_hasDeficitBumped, turnLead, byteLead>>
    BY <1>1, <1>2 DEF FairEnqueue, Activate
  <2> QED
    BY <1>1, <2>1 DEF DeficitBounded, RoundInv, Carry
<1>3. CASE m_status[f] = "INACTIVE"
  <2>1. /\ m_activeList' = Append(l, f) /\ m_deficit' = [m_deficit EXCEPT ![f] = Quantum]
        /\ turnLead' = Restart(turnLead, f) /\ byteLead' = Restart(byteLead, f)
        /\ ~ In(f, l) /\ ~ m_hasDeficitBumped[f] /\ Quantum \in Nat
    <3>1. ToInt32(Quantum) = Quantum /\ Quantum \in Nat
      BY <1>1, GrantFits
    <3>2. ~ In(f, l) /\ ~ m_hasDeficitBumped[f]
      BY <1>1, <1>3, ActiveListSoundDef DEF IInv
    <3> QED
      BY <1>1, <1>3, <3>1, <3>2 DEF FairEnqueue, Activate
  <2>2. /\ Anti(turnLead') /\ Anti(byteLead')
        /\ \A x, y \in Flows :
             /\ turnLead'[<<x, y>>] = IF f \in {x, y} THEN 0 ELSE turnLead[<<x, y>>]
             /\ byteLead'[<<x, y>>] = IF f \in {x, y} THEN 0 ELSE byteLead[<<x, y>>]
    <3>1. /\ Anti(Restart(turnLead, f))
          /\ \A x, y \in Flows : Restart(turnLead, f)[<<x, y>>]
                                   = IF f \in {x, y} THEN 0 ELSE turnLead[<<x, y>>]
      BY <1>1, RestartFacts
    <3>2. /\ Anti(Restart(byteLead, f))
          /\ \A x, y \in Flows : Restart(byteLead, f)[<<x, y>>]
                                   = IF f \in {x, y} THEN 0 ELSE byteLead[<<x, y>>]
      BY <1>1, RestartFacts
    <3> QED
      BY <2>1, <3>1, <3>2
  <2>3. /\ \A z \in Flows \ {f} : m_deficit'[z] = m_deficit[z] /\ Carry(z)' = Carry(z)
        /\ m_deficit'[f] = Quantum /\ Carry(f)' = Quantum
    BY <1>1, <2>1 DEF Carry, Extra
  <2>4. DeficitBounded'
    <3>1. Bounded(Quantum, FALSE)
      BY <2>1 DEF Bounded, Extra
    <3>2. \A z \in Flows : Bounded(m_deficit'[z], m_hasDeficitBumped'[z])
      <4> TAKE z \in Flows
      <4>1. CASE z = f
        BY <1>1, <2>1, <2>3, <3>1, <4>1
      <4>2. CASE z # f
        BY <1>1, <2>3, <4>2, DeficitBoundedDef
      <4> QED
        BY <4>1, <4>2
    <3> QED
      BY <3>2 DEF DeficitBounded, Bounded, Extra
  <2>5. ASSUME NEW x \in Flows, NEW y \in Flows, Ahead(m_activeList', x, y)
        PROVE  InRound(turnLead'[<<x, y>>], m_hasDeficitBumped'[x], byteLead'[<<x, y>>],
                       Carry(x)', Carry(y)')
    <3>1. x # f /\ (Ahead(l, x, y) \/ y = f)
      BY <1>1, <2>1, <2>5, AheadAppend
    <3>2. Carry(x)' = Carry(x)
      BY <2>3, <3>1
    <3>3. CASE y = f
      <4>1. turnLead'[<<x, y>>] = 0 /\ byteLead'[<<x, y>>] = 0 /\ Carry(y)' = Quantum
        BY <2>2, <2>3, <3>3
      <4>2. /\ Carry(x) \in Int /\ Carry(x) >= - Quantum
            /\ \E c \in CarryOver : Carry(x) <= c
        BY <1>1, DeficitBoundedDef, CarryFacts DEF Carry
      <4>3. Balanced(0 + (Carry(x) - Quantum))
        BY <4>2, BalancedJoin
      <4>4. 0 - Turn(m_hasDeficitBumped[x]) \in {-1, 0}
        BY TurnIsBit
      <4> QED
        BY <1>1, <3>2, <4>1, <4>3, <4>4 DEF InRound
    <3>4. CASE y # f
      <4>1. /\ turnLead'[<<x, y>>] = turnLead[<<x, y>>]
            /\ byteLead'[<<x, y>>] = byteLead[<<x, y>>]
            /\ Carry(y)' = Carry(y) /\ Ahead(l, x, y)
        BY <2>2, <2>3, <3>1, <3>4
      <4> QED
        BY <1>1, <3>2, <4>1 DEF RoundInv
    <3> QED
      BY <3>3, <3>4
  <2> QED
    BY <2>2, <2>4, <2>5 DEF RoundInv
<1> QED
  BY <1>2, <1>3

\* The head of the list is behind nobody.
LEMMA HeadNotBehind ==
  ASSUME NEW l \in Seq(Flows), l # <<>>, Distinct(l), NEW x, NEW y, Ahead(l, x, y)
  PROVE  y # Head(l)
<1>1. PICK i \in DOMAIN l, j \in DOMAIN l : i < j /\ l[i] = x /\ l[j] = y
  BY DEF Ahead
<1>2. i \in Nat \ {0} /\ j \in Nat /\ j # 1 /\ 1 \in DOMAIN l /\ Head(l) = l[1]
  BY <1>1
<1> QED
  BY <1>1, <1>2 DEF Distinct

\* The flow at the head of the list, at work in DoDequeue: n is the turn it begins
\* or 0.
LEMMA HeadFacts ==
  ASSUME FInv, AmountsFit, m_activeList # <<>>
  PROVE  LET l == m_activeList
             f == Head(l)
             b == m_hasDeficitBumped
         IN  /\ f \in Flows /\ TurnBegins = 1 - Turn(b[f]) /\ TurnBegins \in Int
             /\ <<f>> \o Tail(l) = l /\ Tail(l) \in Seq(Flows)
             /\ \A x \in Flows : In(x, Tail(l)) <=> (x # f /\ In(x, l))
             /\ BumpedDeficit(f) = Carry(f) + Quantum /\ Carry(f) \in Int /\ Quantum \in Nat
             /\ BumpedDeficit(f) \in Int /\ BumpedDeficit(f) >= 0
             /\ Bounded(BumpedDeficit(f), TRUE)
             /\ \A x, y \in Flows : Ahead(l, x, y) => y # f
<1> DEFINE l == m_activeList
           f == Head(m_activeList)
<1>1. l \in Seq(Flows) /\ Distinct(l) /\ IInv /\ DeficitBounded
  BY FInvFacts
<1>2. /\ f \in Flows /\ <<f>> \o Tail(l) = l /\ Tail(l) \in Seq(Flows)
      /\ \A x \in Flows : In(x, Tail(l)) <=> (x # f /\ In(x, l))
  BY <1>1, ListTail
<1>3. /\ BumpedDeficit(f) = Carry(f) + Quantum /\ Carry(f) \in Int /\ Quantum \in Nat
      /\ Bounded(BumpedDeficit(f), TRUE)
  BY <1>1, <1>2, GrantFits
<1>4. BumpedDeficit(f) \in Int /\ BumpedDeficit(f) >= 0
  BY <1>3 DEF Bounded
<1>5. TurnBegins = 1 - Turn(m_hasDeficitBumped[f]) /\ TurnBegins \in Int
  <2>1. CASE m_hasDeficitBumped[f]
    BY <2>1 DEF TurnBegins, Turn
  <2>2. CASE ~ m_hasDeficitBumped[f]
    BY <2>2 DEF TurnBegins, Turn
  <2> QED
    BY <2>1, <2>2
<1>6. \A x, y \in Flows : Ahead(l, x, y) => y # f
  BY <1>1, HeadNotBehind
<1> QED
  BY <1>2, <1>3, <1>4, <1>5, <1>6

\* What the head flow gains, seen from two flows in the list.
Gains(lead, new, f, n) ==
  /\ Anti(new)
  /\ \A x, y \in Flows : Ahead(m_activeList, x, y) =>
       new[<<x, y>>] = IF x = f THEN lead[<<x, y>>] + n ELSE lead[<<x, y>>]

LEMMA HeadGains ==
  ASSUME FInv, AmountsFit, m_activeList # <<>>, NEW f \in Flows, f = Head(m_activeList),
         NEW lead, Anti(lead), NEW n \in Int
  PROVE  Gains(lead, Gain(lead, f, n), f, n)
<1> DEFINE G == Gain(lead, f, n)
<1>1. IInv /\ \A x, y \in Flows : Ahead(m_activeList, x, y) => y # f
  BY HeadFacts, FInvFacts
<1>2. Anti(G) /\ Raised(lead, G, f, n)
  BY GainFacts, Zenon
<1> HIDE DEF G
<1>3. ASSUME NEW x \in Flows, NEW y \in Flows, Ahead(m_activeList, x, y)
      PROVE  G[<<x, y>>] = IF x = f THEN lead[<<x, y>>] + n ELSE lead[<<x, y>>]
  <2>1. x # y /\ m_status[x] = "ACTIVE" /\ m_status[y] = "ACTIVE" /\ y # f
    BY <1>1, <1>3, AheadFacts
  <2> QED
    BY <1>2, <2>1, Zenon DEF Raised
<1>4. Gains(lead, G, f, n)
  BY <1>2, <1>3, Zenon DEF Gains
<1> QED
  BY <1>4 DEF G

\* A flow that sends pays for its lead in bytes with its carry.
LEMMA ServeFair ==
  ASSUME FInv, AmountsFit, FairServe
  PROVE  DeficitBounded' /\ RoundInv'
<1>0. PICK f \in Flows : f = Head(m_activeList)
  BY HeadFacts DEF FairServe, ServeFlow
<1> DEFINE l == m_activeList
           z == Head(fifo[f]).size
           n == TurnBegins
<1>1. /\ l # <<>> /\ MaySend(f) /\ SendFrom(f) /\ RoundInv /\ DeficitBounded /\ IInv
      /\ turnLead' = Gain(turnLead, f, n) /\ byteLead' = Gain(byteLead, f, z)
      /\ Anti(turnLead) /\ Anti(byteLead)
      /\ m_deficit \in [Flows -> Int] /\ m_hasDeficitBumped \in [Flows -> BOOLEAN]
  BY <1>0, FInvFacts DEF FairServe, ServeFlow
<1>2. /\ f \in Flows /\ n = 1 - Turn(m_hasDeficitBumped[f]) /\ n \in Int
      /\ <<f>> \o Tail(l) = l
      /\ BumpedDeficit(f) = Carry(f) + Quantum /\ Carry(f) \in Int /\ Quantum \in Nat
      /\ BumpedDeficit(f) \in Int /\ Bounded(BumpedDeficit(f), TRUE)
      /\ \A x, y \in Flows : Ahead(l, x, y) => y # f
  BY <1>0, <1>1, HeadFacts
<1>3. z \in Nat /\ z <= BumpedDeficit(f)
  <2>1. fifo[f] \in Seq(Item) /\ fifo[f] # <<>>
    BY <1>1, <1>2 DEF MaySend, IInv, TypeOK
  <2>2. Head(fifo[f]) \in Item
    BY <2>1
  <2> QED
    BY <1>1, <2>2, ItemsSized DEF Sized, MaySend
<1>4. Gains(turnLead, turnLead', f, n)
  <2> HIDE DEF n
  <2> QED
    BY <1>0, <1>1, <1>2, HeadGains, Zenon
<1>5. Gains(byteLead, byteLead', f, z)
  <2>1. z \in Int
    BY <1>3
  <2> HIDE DEF z
  <2> QED
    BY <1>0, <1>1, <2>1, HeadGains, Zenon
<1> HIDE DEF z, n
<1>6. CASE Tail(fifo[f]) = <<>>
  <2>1. Deactivate(f)
    BY <1>1, <1>6 DEF SendFrom
  <2> QED
    BY <1>0, <1>1, <1>4, <1>5, <2>1, LeaveFair DEF Gains
<1>7. CASE Tail(fifo[f]) # <<>>
  <2> DEFINE left == BumpedDeficit(f) - z
  <2>1. /\ m_deficit' = [m_deficit EXCEPT ![f] = left]
        /\ m_hasDeficitBumped' = [m_hasDeficitBumped EXCEPT ![f] = TRUE]
        /\ m_activeList' = l
    BY <1>1, <1>2, <1>7 DEF SendFrom, KeepActive, z
  <2>2. left \in Int /\ left = (Carry(f) - z) + Quantum /\ left >= 0
        /\ left <= BumpedDeficit(f)
    BY <1>2, <1>3
  <2>3. Bounded(left, TRUE)
    <3>1. \A s \in Sizes : s \in Nat
      BY SizesAssumption
    <3> HIDE DEF left
    <3> QED
      BY <1>2, <2>2, <3>1 DEF Bounded, Extra
  <2> HIDE DEF left
  <2>4. /\ m_deficit'[f] = left /\ m_hasDeficitBumped'[f] = TRUE
        /\ \A x \in Flows \ {f} : /\ m_deficit'[x] = m_deficit[x]
                                  /\ m_hasDeficitBumped'[x] = m_hasDeficitBumped[x]
    BY <1>1, <1>2, <2>1
  <2>5. /\ Carry(f)' = Carry(f) - z
        /\ \A x \in Flows \ {f} : Carry(x)' = Carry(x)
    <3>1. Carry(f)' = left - Quantum
      BY <2>4 DEF Carry, Extra
    <3>2. left - Quantum = Carry(f) - z
      BY <1>2, <1>3, <2>2
    <3>3. \A x \in Flows \ {f} : Carry(x)' = Carry(x)
      BY <2>4 DEF Carry
    <3> QED
      BY <3>1, <3>2, <3>3
  <2>6. DeficitBounded'
    <3>1. \A x \in Flows : Bounded(m_deficit'[x], m_hasDeficitBumped'[x])
      <4> TAKE x \in Flows
      <4>1. CASE x = f
        BY <2>3, <2>4, <4>1
      <4>2. CASE x # f
        BY <1>1, <2>4, <4>2, DeficitBoundedDef
      <4> QED
        BY <4>1, <4>2
    <3> QED
      BY <3>1 DEF DeficitBounded, Bounded, Extra
  <2>7. ASSUME NEW x \in Flows, NEW y \in Flows, Ahead(m_activeList', x, y)
        PROVE  InRound(turnLead'[<<x, y>>], m_hasDeficitBumped'[x], byteLead'[<<x, y>>],
                       Carry(x)', Carry(y)')
    <3>1. Ahead(l, x, y) /\ y # f
      BY <1>2, <2>1, <2>7
    <3>2. /\ InRound(turnLead[<<x, y>>], m_hasDeficitBumped[x], byteLead[<<x, y>>],
                     Carry(x), Carry(y))
          /\ Carry(y)' = Carry(y)
      BY <1>1, <2>5, <3>1 DEF RoundInv
    <3>3. CASE x = f
      <4> DEFINE t == turnLead[<<x, y>>]
                 m == byteLead[<<x, y>>]
      <4>1. t \in Int /\ m \in Int /\ Carry(y) \in Int
        <5>1. <<x, y>> \in Pairs
          BY DEF Pairs
        <5>2. Carry(y) \in Int
          BY <1>1, DeficitBoundedDef, CarryFacts DEF Carry
        <5> QED
          BY <1>1, <5>1, <5>2 DEF Anti
      <4>2. /\ turnLead'[<<x, y>>] = t + n /\ byteLead'[<<x, y>>] = m + z
            /\ Carry(x)' = Carry(f) - z /\ m_hasDeficitBumped'[x] = TRUE
        BY <1>4, <1>5, <2>4, <2>5, <3>1, <3>3 DEF Gains
      <4>3. t - Turn(m_hasDeficitBumped[f]) \in {-1, 0} /\ Balanced(m + (Carry(f) - Carry(y)))
        BY <3>2, <3>3 DEF InRound
      <4> HIDE DEF t, m
      <4>4. (t + n) - 1 \in {-1, 0}
        <5>1. Turn(m_hasDeficitBumped[f]) \in {0, 1}
          BY TurnIsBit
        <5> QED
          BY <1>2, <4>1, <4>3, <5>1
      <4>5. (m + z) + ((Carry(f) - z) - Carry(y)) = m + (Carry(f) - Carry(y))
        BY <1>2, <1>3, <4>1
      <4>6. Turn(TRUE) = 1
        BY DEF Turn
      <4> QED
        BY <3>2, <4>2, <4>3, <4>4, <4>5, <4>6 DEF InRound
    <3>4. CASE x # f
      <4>1. /\ turnLead'[<<x, y>>] = turnLead[<<x, y>>]
            /\ byteLead'[<<x, y>>] = byteLead[<<x, y>>]
            /\ Carry(x)' = Carry(x) /\ m_hasDeficitBumped'[x] = m_hasDeficitBumped[x]
        BY <1>4, <1>5, <2>4, <2>5, <3>1, <3>4 DEF Gains
      <4> QED
        BY <3>2, <4>1
    <3> QED
      BY <3>3, <3>4
  <2> QED
    BY <1>4, <1>5, <2>6, <2>7 DEF RoundInv, Gains
<1> QED
  BY <1>6, <1>7

\* A flow that ends its turn keeps less than its next packet needs, and is behind
\* all others.
LEMMA SkipFair ==
  ASSUME FInv, AmountsFit, FairSkip
  PROVE  DeficitBounded' /\ RoundInv'
<1>0. PICK f \in Flows : f = Head(m_activeList)
  BY HeadFacts DEF FairSkip, SkipFlow
<1> DEFINE l == m_activeList
           n == TurnBegins
           B == BumpedDeficit(f)
<1>1. /\ l # <<>> /\ ~ MaySend(f) /\ PassOver(f) /\ RoundInv /\ DeficitBounded /\ IInv
      /\ turnLead' = Gain(turnLead, f, n) /\ byteLead' = byteLead
      /\ Anti(turnLead) /\ Anti(byteLead)
      /\ l \in Seq(Flows) /\ Distinct(l)
      /\ m_deficit \in [Flows -> Int] /\ m_hasDeficitBumped \in [Flows -> BOOLEAN]
  BY <1>0, FInvFacts DEF FairSkip, SkipFlow
<1>2. /\ n = 1 - Turn(m_hasDeficitBumped[f]) /\ n \in Int
      /\ Tail(l) \in Seq(Flows)
      /\ \A x \in Flows : In(x, Tail(l)) <=> (x # f /\ In(x, l))
      /\ B = Carry(f) + Quantum /\ Carry(f) \in Int /\ Quantum \in Nat
      /\ B \in Int /\ B >= 0
      /\ \A x, y \in Flows : Ahead(l, x, y) => y # f
  BY <1>0, <1>1, HeadFacts
<1> HIDE DEF n
<1>3. Gains(turnLead, turnLead', f, n)
  BY <1>0, <1>1, <1>2, HeadGains, Zenon
<1>4. CASE fifo[f] = <<>>
  <2>1. Deactivate(f)
    BY <1>1, <1>4 DEF PassOver
  <2> QED
    BY <1>0, <1>1, <1>3, <2>1, LeaveFair DEF Gains
<1>5. CASE fifo[f] # <<>>
  <2>1. /\ m_deficit' = [m_deficit EXCEPT ![f] = B]
        /\ m_hasDeficitBumped' = [m_hasDeficitBumped EXCEPT ![f] = FALSE]
        /\ m_activeList' = Append(Tail(l), f)
    BY <1>1, <1>5 DEF PassOver, KeepActive
  <2>2. Bounded(B, FALSE)
    <3>1. fifo[f] \in Seq(Item) /\ Head(fifo[f]) \in Item
      BY <1>1, <1>5 DEF IInv, TypeOK
    <3>2. Head(fifo[f]).size \in Sizes /\ Head(fifo[f]).size \in Nat
      BY <3>1, SizesAssumption DEF Item
    <3>3. B <= 0 \/ B < Head(fifo[f]).size
      BY <1>1, <1>2, <1>5, <3>2 DEF MaySend
    <3> HIDE DEF B
    <3> QED
      BY <1>2, <3>2, <3>3 DEF Bounded, Extra
  <2> HIDE DEF B
  <2>3. /\ m_deficit'[f] = B /\ m_hasDeficitBumped'[f] = FALSE
        /\ \A x \in Flows \ {f} : /\ m_deficit'[x] = m_deficit[x]
                                  /\ m_hasDeficitBumped'[x] = m_hasDeficitBumped[x]
    BY <1>1, <2>1
  <2>4. /\ Carry(f)' = Carry(f) + Quantum
        /\ \A x \in Flows \ {f} : Carry(x)' = Carry(x)
    <3>1. Carry(f)' = B - 0
      BY <2>3 DEF Carry, Extra
    <3>2. \A x \in Flows \ {f} : Carry(x)' = Carry(x)
      BY <2>3 DEF Carry
    <3> QED
      BY <1>2, <3>1, <3>2
  <2>5. DeficitBounded'
    <3>1. \A x \in Flows : Bounded(m_deficit'[x], m_hasDeficitBumped'[x])
      <4> TAKE x \in Flows
      <4>1. CASE x = f
        BY <2>2, <2>3, <4>1
      <4>2. CASE x # f
        BY <1>1, <2>3, <4>2, DeficitBoundedDef
      <4> QED
        BY <4>1, <4>2
    <3> QED
      BY <3>1 DEF DeficitBounded, Bounded, Extra
  <2>6. ASSUME NEW x \in Flows, NEW y \in Flows, Ahead(m_activeList', x, y)
        PROVE  InRound(turnLead'[<<x, y>>], m_hasDeficitBumped'[x], byteLead'[<<x, y>>],
                       Carry(x)', Carry(y)')
    <3>1. In(x, Tail(l)) /\ (Ahead(Tail(l), x, y) \/ y = f)
      BY <1>2, <2>1, <2>6, AheadAppend
    <3>2. x # f /\ In(x, l)
      BY <1>2, <3>1
    <3>3. Carry(x)' = Carry(x) /\ m_hasDeficitBumped'[x] = m_hasDeficitBumped[x]
      BY <2>3, <2>4, <3>2
    <3>4. CASE y = f
      <4> DEFINE t == turnLead[<<f, x>>]
                 m == byteLead[<<f, x>>]
      <4>1. Ahead(l, f, x)
        BY <1>0, <1>1, <3>2, HeadAhead
      <4>2. /\ t - Turn(m_hasDeficitBumped[f]) \in {-1, 0}
            /\ Balanced(m + (Carry(f) - Carry(x)))
        BY <1>1, <4>1 DEF RoundInv, InRound
      <4>3. ~ m_hasDeficitBumped[x]
        BY <1>1, <4>1, AheadFacts
      <4>4. t \in Int /\ m \in Int /\ Carry(x) \in Int
        <5>1. <<f, x>> \in Pairs
          BY DEF Pairs
        <5>2. Carry(x) \in Int
          BY <1>1, DeficitBoundedDef, CarryFacts DEF Carry
        <5> QED
          BY <1>1, <5>1, <5>2 DEF Anti
      <4>5. turnLead'[<<f, x>>] = t + n
        BY <1>3, <4>1 DEF Gains
      <4> HIDE DEF t, m
      <4>6. turnLead'[<<x, f>>] = -(t + n)
        BY <1>3, <4>5 DEF Gains, Anti
      <4>7. byteLead'[<<x, f>>] = - m
        BY <1>1 DEF Anti, m
      <4>8. -(t + n) - 0 \in {-1, 0}
        <5>1. Turn(m_hasDeficitBumped[f]) \in {0, 1}
          BY TurnIsBit
        <5>2. t + n = 0 \/ t + n = 1
          BY <1>2, <4>2, <4>4, <5>1, SMTT(30)
        <5> QED
          BY <5>2
      <4>9. Turn(m_hasDeficitBumped[x]) = 0
        BY <4>3 DEF Turn
      <4>10. Balanced(- m + (Carry(x) - (Carry(f) + Quantum)))
        <5> DEFINE h == m + (Carry(f) - Carry(x))
        <5>1. /\ h \in Int
              /\ -(h + Quantum) = - m + (Carry(x) - (Carry(f) + Quantum))
          BY <1>2, <4>4, SMTT(30)
        <5> HIDE DEF h
        <5>2. Balanced(-(h + Quantum))
          BY <4>2, <5>1, BalancedTurn DEF h
        <5> QED
          BY <5>1, <5>2
      <4> QED
        BY <2>4, <3>3, <3>4, <4>6, <4>7, <4>8, <4>9, <4>10 DEF InRound
    <3>5. CASE y # f
      <4>1. Ahead(l, x, y)
        BY <1>1, <3>1, <3>5, AheadTail
      <4>2. turnLead'[<<x, y>>] = turnLead[<<x, y>>] /\ Carry(y)' = Carry(y)
        BY <1>3, <2>4, <3>2, <3>5, <4>1 DEF Gains
      <4> QED
        BY <1>1, <3>3, <4>1, <4>2 DEF RoundInv
    <3> QED
      BY <3>4, <3>5
  <2> QED
    BY <1>1, <1>3, <2>5, <2>6 DEF RoundInv, Gains
<1> QED
  BY <1>4, <1>5

LEMMA NextFair == ASSUME AmountsFit PROVE FInv /\ [FairNext]_fairVars => FInv'
<1> SUFFICES ASSUME FInv, [FairNext]_fairVars PROVE FInv'
  OBVIOUS
<1>1. IInv'
  <2>1. [Next]_vars
    BY DEF FairNext, FairEnqueue, FairServe, FairSkip, FairOther, Next, fairVars, vars
  <2> QED
    BY <2>1, NextIInv DEF FInv
<1>2. CASE UNCHANGED <<m_activeList, m_deficit, m_hasDeficitBumped, turnLead, byteLead>>
  BY <1>1, <1>2 DEF FInv, DeficitBounded, RoundInv, Carry
<1>3. CASE UNCHANGED fairVars \/ FairOther
  BY <1>2, <1>3 DEF fairVars, vars, flowVars, FairOther, DequeueRequeued, Dequeue, Peek,
                    ReturnNull
<1> QED
  BY <1>1, <1>3, EnqueueFair, ServeFair, SkipFair DEF FairNext, FInv

\* Of two flows in the list the one ahead completed as many turns or one less.
LEMMA FairHere == ASSUME AmountsFit PROVE FInv => ServiceFair
<1> SUFFICES ASSUME FInv PROVE ServiceFair
  OBVIOUS
<1>1. /\ m_activeList \in Seq(Flows) /\ RoundInv /\ DeficitBounded /\ IInv
      /\ m_deficit \in [Flows -> Int] /\ m_hasDeficitBumped \in [Flows -> BOOLEAN]
      /\ \A f \in Flows : m_status[f] = "ACTIVE" <=> In(f, m_activeList)
      /\ Anti(turnLead) /\ Anti(byteLead)
  BY FInvFacts
<1>2. ASSUME NEW f \in Flows, NEW g \in Flows, Ahead(m_activeList, f, g)
      PROVE  /\ turnLead[<<f, g>>] \in -1 .. 1 /\ turnLead[<<g, f>>] \in -1 .. 1
             /\ WithinBytes(byteLead[<<f, g>>]) /\ WithinBytes(byteLead[<<g, f>>])
  <2> DEFINE t == turnLead[<<f, g>>]
             n == byteLead[<<f, g>>]
  <2>1. /\ t - Turn(m_hasDeficitBumped[f]) \in {-1, 0}
        /\ Balanced(n + (Carry(f) - Carry(g)))
    BY <1>1, <1>2 DEF RoundInv, InRound
  <2>2. <<f, g>> \in Pairs
    BY DEF Pairs
  <2>3. /\ t \in Int /\ n \in Int
        /\ turnLead[<<g, f>>] = - t /\ byteLead[<<g, f>>] = - n
    <3>1. turnLead[<<f, g>>] \in Int /\ byteLead[<<f, g>>] \in Int
      BY <1>1, <2>2 DEF Anti
    <3> QED
      BY <1>1, <3>1 DEF Anti
  <2>4. ~ m_hasDeficitBumped[g]
    BY <1>1, <1>2, AheadFacts
  <2>5. /\ Carry(f) \in Int /\ Carry(f) >= - Quantum
        /\ \E c \in CarryOver : Carry(f) <= c
    BY <1>1, DeficitBoundedDef, CarryFacts DEF Carry
  <2>6. /\ Carry(g) \in Int /\ Carry(g) >= 0
        /\ \E c \in CarryOver : Carry(g) <= c
    BY <1>1, <2>4, DeficitBoundedDef, CarryFacts DEF Carry
  <2>7. Turn(m_hasDeficitBumped[f]) \in {0, 1}
    BY TurnIsBit
  <2> HIDE DEF t, n
  <2>8. t \in -1 .. 1 /\ - t \in -1 .. 1
    BY <2>1, <2>3, <2>7
  <2>9. WithinBytes(n) /\ WithinBytes(- n)
    BY <2>1, <2>3, <2>5, <2>6, BalancedBytes
  <2> QED
    BY <2>3, <2>8, <2>9 DEF t, n
<1>3. ASSUME NEW f \in Flows, NEW g \in Flows, BothActive(f, g)
      PROVE  turnLead[<<f, g>>] \in -1 .. 1 /\ WithinBytes(byteLead[<<f, g>>])
  <2>1. Ahead(m_activeList, f, g) \/ Ahead(m_activeList, g, f)
    BY <1>1, <1>3, OneAhead DEF BothActive
  <2> QED
    BY <1>2, <2>1
<1> QED
  BY <1>1, <1>3 DEF ServiceFair, TurnsAlternate, BytesFair, WithinBytes

\* Deficit round robin is fair, for any number of flows, sizes and limits: as long
\* as two flows stay active neither gets more than a turn or a constant number of
\* bytes ahead, and no flow hoards credit.  The amounts must fit an int32_t.
THEOREM ServiceFairCorrect == ASSUME AmountsFit PROVE FairnessSpec => []ServiceFair
<1>1. FairInit => FInv
  <2> SUFFICES ASSUME FairInit PROVE FInv
    OBVIOUS
  <2>1. IInv
    BY InitIInv DEF FairInit
  <2>2. Anti(turnLead) /\ Anti(byteLead)
    BY DEF FairInit, Anti, Pairs
  <2>3. DeficitBounded
    BY QuantumAssumption DEF FairInit, Init, DeficitBounded
  <2>4. RoundInv
    BY <2>2 DEF FairInit, Init, RoundInv, Ahead
  <2> QED
    BY <2>1, <2>3, <2>4 DEF FInv
<1>2. FInv /\ [FairNext]_fairVars => FInv'
  BY NextFair
<1>3. FInv => ServiceFair
  BY FairHere
<1> QED
  BY <1>1, <1>2, <1>3, PTL DEF FairnessSpec
=============================================================================
