------------------------ MODULE SfqQueueDiscProofs ------------------------
(***************************************************************************)
(* Proofs about SfqQueueDisc for every set of buckets, every limit of the  *)
(* disc and of its children, and any number of packets: its list, books    *)
(* and capacity, the fairness of its rounds, and that it implements the    *)
(* safety part of WorkConservingDisc.                                      *)
(***************************************************************************)
EXTENDS SfqFairness, FiniteSetTheorems, WellFoundedInduction, TLAPS

(***************************************************************************)
(* Natural numbers                                                         *)
(***************************************************************************)

\* A set of natural numbers has a smallest element: its elements are compared
\* by the sets of the numbers below them, which are finite.
LEMMA SmallestExists ==
  ASSUME NEW T \in SUBSET Nat, T # {}
  PROVE  \E n \in T : \A m \in T : n <= m
<1> DEFINE R == OpToRel(<, Nat)
<1>1. \E n \in T : \A m \in T : ~ (<<m, n>> \in R)
  BY NatLessThanWellFounded, WFMin, Zenon
<1>2. PICK n \in T : \A m \in T : ~ (<<m, n>> \in R)
  BY <1>1, Zenon
<1>3. R = {p \in Nat \X Nat : p[1] < p[2]}
  BY Zenon DEF OpToRel
<1> HIDE DEF R
<1>4. \A m \in T : <<m, n>> \in Nat \X Nat /\ ~ (m < n)
  BY <1>2, <1>3
<1>5. \A m \in T : n \in Nat /\ m \in Nat /\ ~ (m < n)
  BY <1>4
<1>6. \A m \in T : n <= m
  BY <1>5
<1> QED
  BY <1>6, Zenon

\* Induction on 0 .. n, for the set T of the numbers that have the property.
LEMMA Climb ==
  ASSUME NEW n \in Nat, NEW T, 0 \in T,
         \A k \in 0 .. n - 1 : k \in T => k + 1 \in T
  PROVE  0 .. n \subseteq T
<1> DEFINE out == (0 .. n) \ T
<1> SUFFICES ASSUME out # {} PROVE FALSE
  OBVIOUS
<1>1. out \in SUBSET Nat
  OBVIOUS
<1>2. PICK m \in out : \A k \in out : m <= k
  BY <1>1, SmallestExists, Zenon
<1>3. m \in 1 .. n /\ m - 1 \in 0 .. n - 1
  BY <1>2
<1>4. m - 1 \in T
  BY <1>2, <1>3
<1>5. m - 1 + 1 \in T
  BY <1>3, <1>4, Zenon
<1> QED
  BY <1>2, <1>3, <1>5

(***************************************************************************)
(* Counting the packets in the queues of the flows of F                    *)
(***************************************************************************)

SlotsIn(F, q) == UNION {{f} \X (1 .. Len(q[f])) : f \in F}

Counted(F, q) == \A f \in F : Len(q[f]) \in Nat

\* The packets in the children of a disc are finitely many.
LEMMA SlotsFinite ==
  ASSUME NEW F, IsFiniteSet(F), NEW q, Counted(F, q)
  PROVE  IsFiniteSet(SlotsIn(F, q)) /\ Cardinality(SlotsIn(F, q)) \in Nat
<1> DEFINE part(f) == {f} \X (1 .. Len(q[f]))
           parts == {part(f) : f \in F}
           fn == [f \in F |-> part(f)]
<1>1. fn \in Surjection(F, parts)
  BY DEF Surjection
<1>2. IsFiniteSet(parts)
  BY <1>1, FS_Surjection
<1>3. ASSUME NEW f \in F PROVE IsFiniteSet(part(f))
  <2>1. IsFiniteSet(1 .. Len(q[f]))
    BY FS_Interval DEF Counted
  <2>2. IsFiniteSet({f})
    BY FS_Singleton
  <2> QED
    BY <2>1, <2>2, FS_Product
<1>4. IsFiniteSet(UNION parts)
  BY <1>2, <1>3, FS_UNION
<1> QED
  BY <1>4, FS_CardinalityType DEF SlotsIn

\* The queues r hold one packet more than q, in flow f.
OneMore(F, f, q, r) ==
  /\ Counted(F, q) /\ f \in F
  /\ Len(r[f]) = Len(q[f]) + 1
  /\ \A g \in F \ {f} : Len(r[g]) = Len(q[g])

\* They are one more in all.
LEMMA CountMore ==
  ASSUME NEW F, IsFiniteSet(F), NEW q, NEW r, NEW f, OneMore(F, f, q, r)
  PROVE  Cardinality(SlotsIn(F, r)) = Cardinality(SlotsIn(F, q)) + 1
<1> DEFINE new == <<f, Len(q[f]) + 1>>
<1>1. \A g \in F : Len(r[g]) = IF g = f THEN Len(q[g]) + 1 ELSE Len(q[g])
  BY DEF OneMore
<1>2. f \in F /\ \A g \in F : Len(q[g]) \in Nat
  BY DEF OneMore, Counted
<1>3. SlotsIn(F, r) = SlotsIn(F, q) \cup {new}
  BY <1>1, <1>2 DEF SlotsIn
<1>4. new \notin SlotsIn(F, q)
  BY <1>2 DEF SlotsIn
<1>5. IsFiniteSet(SlotsIn(F, q))
  BY <1>2, SlotsFinite DEF Counted
<1> QED
  BY <1>3, <1>4, <1>5, FS_AddElement

\* With every queue empty nothing is stored.
LEMMA CountEmpty ==
  ASSUME NEW F, NEW q, \A f \in F : Len(q[f]) = 0
  PROVE  Cardinality(SlotsIn(F, q)) = 0
<1>1. SlotsIn(F, q) = {}
  BY DEF SlotsIn
<1> QED
  BY <1>1, FS_EmptySet

(***************************************************************************)
(* The bytes of a child queue.  n is the total of the sizes in q when some *)
(* function c gives the partial sums; sizes being positive, c increases.   *)
(***************************************************************************)

\* The items of S have a positive size (QueueDiscItem::GetSize).
Sized(S) == \A x \in S : x.size \in Nat \ {0}

BytesOK(q, n) ==
  \E c \in [0 .. Len(q) -> Nat] :
    /\ c[0] = 0
    /\ c[Len(q)] = n
    /\ \A i \in 1 .. Len(q) : c[i] = c[i - 1] + q[i].size
    /\ \A i, j \in 0 .. Len(q) : i < j => c[i] < c[j]

\* The byte count of a child follows an enqueue ...
LEMMA BytesAppend ==
  ASSUME NEW S, Sized(S), NEW q \in Seq(S), NEW n \in Nat, NEW x \in S, BytesOK(q, n)
  PROVE  BytesOK(Append(q, x), n + x.size)
<1>1. PICK c \in [0 .. Len(q) -> Nat] :
        /\ c[0] = 0
        /\ c[Len(q)] = n
        /\ \A i \in 1 .. Len(q) : c[i] = c[i - 1] + q[i].size
        /\ \A i, j \in 0 .. Len(q) : i < j => c[i] < c[j]
  BY DEF BytesOK
<1> DEFINE m == Len(q)
           r == Append(q, x)
           d == [i \in 0 .. m + 1 |-> IF i = m + 1 THEN n + x.size ELSE c[i]]
<1>2. m \in Nat /\ Len(r) = m + 1 /\ x.size \in Nat \ {0}
  BY DEF Sized
<1>3. \A i \in 1 .. m + 1 : r[i] = IF i = m + 1 THEN x ELSE q[i]
  OBVIOUS
<1>4. d \in [0 .. Len(r) -> Nat] /\ d[0] = 0 /\ d[Len(r)] = n + x.size
  BY <1>1, <1>2
<1>5. \A i \in 1 .. Len(r) : d[i] = d[i - 1] + r[i].size
  <2> SUFFICES ASSUME NEW i \in 1 .. m + 1 PROVE d[i] = d[i - 1] + r[i].size
    BY <1>2
  <2>1. CASE i = m + 1
    BY <2>1, <1>1, <1>2, <1>3
  <2>2. CASE i \in 1 .. m
    BY <2>2, <1>1, <1>2, <1>3
  <2> QED
    BY <2>1, <2>2, <1>2
<1>6. \A i, j \in 0 .. Len(r) : i < j => d[i] < d[j]
  <2> SUFFICES ASSUME NEW i \in 0 .. m + 1, NEW j \in 0 .. m + 1, i < j
               PROVE  d[i] < d[j]
    BY <1>2
  <2>1. i \in 0 .. m /\ c[i] \in Nat
    <3>1. i \in 0 .. m
      BY <1>2
    <3> QED
      BY <1>1, <3>1
  <2>2. c[i] <= n
    <3>1. CASE i = m
      BY <3>1, <1>1
    <3>2. CASE i < m
      BY <3>2, <2>1, <1>1, <1>2
    <3> QED
      BY <3>1, <3>2, <2>1, <1>2
  <2>3. CASE j = m + 1
    BY <2>1, <2>2, <2>3, <1>2
  <2>4. CASE j \in 0 .. m
    BY <2>1, <2>4, <1>1, <1>2
  <2> QED
    BY <2>3, <2>4, <1>2
<1> QED
  BY <1>4, <1>5, <1>6 DEF BytesOK

\* ... and a dequeue, which takes no more than is counted.
LEMMA BytesTail ==
  ASSUME NEW S, Sized(S), NEW q \in Seq(S), NEW n \in Nat, q # <<>>, BytesOK(q, n)
  PROVE  n - Head(q).size \in Nat /\ BytesOK(Tail(q), n - Head(q).size)
<1>1. PICK c \in [0 .. Len(q) -> Nat] :
        /\ c[0] = 0
        /\ c[Len(q)] = n
        /\ \A i \in 1 .. Len(q) : c[i] = c[i - 1] + q[i].size
        /\ \A i, j \in 0 .. Len(q) : i < j => c[i] < c[j]
  BY DEF BytesOK
<1> DEFINE m == Len(q)
           r == Tail(q)
           d == [i \in 0 .. m - 1 |-> c[i + 1] - c[1]]
<1>2. m \in Nat \ {0} /\ Len(r) = m - 1
  OBVIOUS
<1>3. Head(q) = q[1] /\ q[1].size \in Nat /\ c[1] = q[1].size
  <2>1. Head(q) = q[1] /\ 1 \in 1 .. Len(q)
    BY <1>2
  <2>2. q[1].size \in Nat
    BY <2>1 DEF Sized
  <2> QED
    BY <2>1, <2>2, <1>1, <1>2
<1>4. \A i \in 1 .. m - 1 : r[i] = q[i + 1]
  OBVIOUS
<1>5. \A i \in 0 .. m - 1 : c[i + 1] \in Nat /\ c[1] <= c[i + 1]
  <2> SUFFICES ASSUME NEW i \in 0 .. m - 1
               PROVE  c[i + 1] \in Nat /\ c[1] <= c[i + 1]
    OBVIOUS
  <2>1. 1 \in 0 .. Len(q) /\ i + 1 \in 0 .. Len(q)
    BY <1>2
  <2>2. c[1] \in Nat /\ c[i + 1] \in Nat
    BY <2>1
  <2>3. CASE i = 0
    BY <2>2, <2>3
  <2>4. CASE i > 0
    <3>1. c[1] < c[i + 1]
      BY <2>1, <2>4, <1>1
    <3> QED
      BY <2>2, <3>1
  <2> QED
    BY <2>3, <2>4
<1>6. n - Head(q).size \in Nat
  BY <1>1, <1>2, <1>3, <1>5
<1>7. d \in [0 .. Len(r) -> Nat] /\ d[0] = 0 /\ d[Len(r)] = n - Head(q).size
  BY <1>1, <1>2, <1>3, <1>5
<1>8. \A i \in 1 .. Len(r) : d[i] = d[i - 1] + r[i].size
  <2> SUFFICES ASSUME NEW i \in 1 .. m - 1 PROVE d[i] = d[i - 1] + r[i].size
    BY <1>2
  <2>1. c[i + 1] = c[i] + q[i + 1].size
    BY <1>1, <1>2
  <2>2. d[i] = c[i + 1] - c[1] /\ d[i - 1] = c[i] - c[1]
    BY <1>2
  <2>3. i + 1 \in 1 .. Len(q) /\ c[i] \in Nat
    BY <1>1, <1>2
  <2>4. q[i + 1].size \in Nat
    BY <2>3 DEF Sized
  <2> QED
    BY <2>1, <2>2, <2>3, <2>4, <1>1, <1>2, <1>4, SMTT(30)
<1>9. \A i, j \in 0 .. Len(r) : i < j => d[i] < d[j]
  <2> SUFFICES ASSUME NEW i \in 0 .. m - 1, NEW j \in 0 .. m - 1, i < j
               PROVE  d[i] < d[j]
    BY <1>2
  <2>1. d[i] = c[i + 1] - c[1] /\ d[j] = c[j + 1] - c[1]
    BY <1>2
  <2>2. c[i + 1] < c[j + 1]
    BY <1>1, <1>2
  <2>3. c[1] \in Nat /\ c[i + 1] \in Nat /\ c[j + 1] \in Nat
    BY <1>1, <1>2
  <2> QED
    BY <2>1, <2>2, <2>3
<1> QED
  BY <1>6, <1>7, <1>8, <1>9 DEF BytesOK

\* A child holds bytes exactly when it holds packets.
LEMMA BytesPositive ==
  ASSUME NEW S, Sized(S), NEW q \in Seq(S), NEW n \in Nat, BytesOK(q, n)
  PROVE  n > 0 <=> q # <<>>
<1>1. PICK c \in [0 .. Len(q) -> Nat] :
        /\ c[0] = 0
        /\ c[Len(q)] = n
        /\ \A i, j \in 0 .. Len(q) : i < j => c[i] < c[j]
  BY DEF BytesOK
<1> QED
  BY <1>1

\* A child starts with no bytes.
LEMMA BytesEmpty == BytesOK(<<>>, 0)
<1> DEFINE c == [i \in 0 .. 0 |-> 0]
<1>1. Len(<<>>) = 0
  OBVIOUS
<1>2. c \in [0 .. 0 -> Nat] /\ c[0] = 0
  OBVIOUS
<1>3. \A i \in 1 .. 0 : c[i] = c[i - 1] + <<>>[i].size
  OBVIOUS
<1>4. \A i, j \in 0 .. 0 : i < j => c[i] < c[j]
  OBVIOUS
<1> HIDE DEF c
<1> QED
  BY <1>1, <1>2, <1>3, <1>4 DEF BytesOK

(***************************************************************************)
(* Lists without duplicates, such as the list of the flows of a disc       *)
(***************************************************************************)

Distinct(l) == \A i, j \in DOMAIN l : l[i] = l[j] => i = j
In(f, l) == \E i \in DOMAIN l : l[i] = f

\* pop_front of a list without duplicates.
LEMMA ListTail ==
  ASSUME NEW S, NEW l \in Seq(S), l # <<>>, Distinct(l)
  PROVE  /\ Head(l) \in S /\ In(Head(l), l)
         /\ Tail(l) \in Seq(S)
         /\ Distinct(Tail(l))
         /\ \A g \in S : In(g, Tail(l)) <=> (g # Head(l) /\ In(g, l))
         /\ \A i \in DOMAIN Tail(l) : Tail(l)[i] = l[i + 1] /\ i + 1 \in DOMAIN l
         /\ <<Head(l)>> \o Tail(l) = l
<1> DEFINE t == Tail(l)
<1>1. /\ Len(l) \in Nat \ {0} /\ DOMAIN l = 1 .. Len(l) /\ Head(l) = l[1]
      /\ Head(l) \in S /\ t \in Seq(S)
      /\ Len(t) = Len(l) - 1 /\ DOMAIN t = 1 .. Len(l) - 1
  OBVIOUS
<1>2. \A i \in 1 .. Len(l) - 1 : t[i] = l[i + 1] /\ i + 1 \in 1 .. Len(l)
  BY <1>1
<1>3. Distinct(t)
  BY <1>1, <1>2 DEF Distinct
<1>4. ASSUME NEW g \in S PROVE In(g, t) <=> (g # Head(l) /\ In(g, l))
  <2>1. ASSUME In(g, t) PROVE g # Head(l) /\ In(g, l)
    BY <2>1, <1>1, <1>2 DEF In, Distinct
  <2>2. ASSUME g # Head(l), In(g, l) PROVE In(g, t)
    <3>1. PICK i \in 1 .. Len(l) : l[i] = g
      BY <2>2, <1>1 DEF In
    <3>2. i - 1 \in 1 .. Len(l) - 1 /\ t[i - 1] = l[i]
      BY <3>1, <2>2, <1>1, <1>2
    <3> QED
      BY <3>1, <3>2, <1>1 DEF In
  <2> QED
    BY <2>1, <2>2
<1>5. <<Head(l)>> \o t = l
  <2> DEFINE r == <<Head(l)>> \o t
  <2>1. r \in Seq(S) /\ Len(r) = Len(l)
    BY <1>1
  <2>2. \A i \in 1 .. Len(l) : r[i] = l[i]
    BY <1>1, <1>2
  <2> QED
    BY <2>1, <2>2, <1>1
<1>6. In(Head(l), l)
  BY <1>1 DEF In
<1> QED
  BY <1>1, <1>2, <1>3, <1>4, <1>5, <1>6

\* push_back on a list that does not hold the flow.
LEMMA ListAppend ==
  ASSUME NEW S, NEW l \in Seq(S), NEW f \in S, Distinct(l), ~ In(f, l)
  PROVE  /\ Append(l, f) \in Seq(S)
         /\ Distinct(Append(l, f))
         /\ \A g \in S : In(g, Append(l, f)) <=> (g = f \/ In(g, l))
         /\ \A i \in DOMAIN Append(l, f) :
              Append(l, f)[i] = f \/ (i \in DOMAIN l /\ Append(l, f)[i] = l[i])
<1> DEFINE r == Append(l, f)
<1>1. /\ Len(l) \in Nat /\ DOMAIN l = 1 .. Len(l)
      /\ r \in Seq(S) /\ DOMAIN r = 1 .. Len(l) + 1
  OBVIOUS
<1>2. \A i \in 1 .. Len(l) + 1 : r[i] = IF i = Len(l) + 1 THEN f ELSE l[i]
  OBVIOUS
<1>3. Distinct(r)
  BY <1>1, <1>2 DEF Distinct, In
<1>4. \A g \in S : In(g, r) <=> (g = f \/ In(g, l))
  BY <1>1, <1>2 DEF In
<1> QED
  BY <1>1, <1>2, <1>3, <1>4

\* Who is ahead of whom.
Ahead(l, x, y) == \E i, j \in DOMAIN l : i < j /\ l[i] = x /\ l[j] = y

\* pop_front keeps who is ahead of whom ...
LEMMA AheadTail ==
  ASSUME NEW S, NEW l \in Seq(S), l # <<>>, NEW x, NEW y, Ahead(Tail(l), x, y)
  PROVE  Ahead(l, x, y) /\ In(x, Tail(l)) /\ In(y, Tail(l))
<1>1. /\ DOMAIN Tail(l) = 1 .. Len(l) - 1 /\ DOMAIN l = 1 .. Len(l) /\ Len(l) \in Nat
      /\ \A i \in 1 .. Len(l) - 1 : Tail(l)[i] = l[i + 1]
  OBVIOUS
<1>2. PICK i \in 1 .. Len(l) - 1, j \in 1 .. Len(l) - 1 :
        i < j /\ Tail(l)[i] = x /\ Tail(l)[j] = y
  BY <1>1 DEF Ahead
<1>3. /\ i + 1 \in DOMAIN l /\ j + 1 \in DOMAIN l /\ i + 1 < j + 1
      /\ l[i + 1] = x /\ l[j + 1] = y
  BY <1>1, <1>2
<1> QED
  BY <1>1, <1>2, <1>3 DEF Ahead, In

\* ... and push_back puts a flow behind all others.
LEMMA AheadAppend ==
  ASSUME NEW S, NEW l \in Seq(S), NEW f \in S, NEW x, NEW y, Ahead(Append(l, f), x, y)
  PROVE  In(x, l) /\ (Ahead(l, x, y) \/ y = f)
<1> DEFINE r == Append(l, f)
<1>1. /\ DOMAIN r = 1 .. Len(l) + 1 /\ DOMAIN l = 1 .. Len(l) /\ Len(l) \in Nat
      /\ r[Len(l) + 1] = f /\ \A i \in 1 .. Len(l) : r[i] = l[i]
  OBVIOUS
<1>2. PICK i \in 1 .. Len(l) + 1, j \in 1 .. Len(l) + 1 : i < j /\ r[i] = x /\ r[j] = y
  BY <1>1 DEF Ahead
<1> HIDE DEF r
<1>3. i \in 1 .. Len(l) /\ l[i] = x
  BY <1>1, <1>2
<1>4. CASE j = Len(l) + 1
  BY <1>1, <1>2, <1>3, <1>4 DEF In
<1>5. CASE j \in 1 .. Len(l)
  BY <1>1, <1>2, <1>3, <1>5 DEF In, Ahead
<1> QED
  BY <1>1, <1>2, <1>4, <1>5

\* The head of the list is ahead of every other flow in it.
LEMMA HeadAhead ==
  ASSUME NEW S, NEW l \in Seq(S), l # <<>>, NEW x, In(x, l), x # Head(l)
  PROVE  Ahead(l, Head(l), x)
<1>1. PICK j \in 1 .. Len(l) : l[j] = x
  BY DEF In
<1>2. /\ 1 \in DOMAIN l /\ j \in DOMAIN l /\ Head(l) = l[1] /\ j # 1
      /\ Len(l) \in Nat /\ DOMAIN l = 1 .. Len(l)
  BY <1>1
<1>3. 1 < j
  BY <1>1, <1>2
<1> QED
  BY <1>1, <1>2, <1>3 DEF Ahead

\* Of two flows in the list one is ahead.
LEMMA OneAhead ==
  ASSUME NEW S, NEW l \in Seq(S), NEW x, NEW y, In(x, l), In(y, l), x # y
  PROVE  Ahead(l, x, y) \/ Ahead(l, y, x)
<1>1. PICK i \in DOMAIN l, j \in DOMAIN l : l[i] = x /\ l[j] = y
  BY DEF In
<1>2. i \in Int /\ j \in Int /\ i # j
  BY <1>1
<1>3. i < j \/ j < i
  BY <1>2
<1> QED
  BY <1>1, <1>3 DEF Ahead

(***************************************************************************)
(* The children of the disc                                                *)
(***************************************************************************)

Queues == [Flows -> Seq(Item)]

\* Every packet has a positive size (QueueDiscItem::GetSize).
LEMMA ItemsSized == Sized(Item)
BY SizesAssumption DEF Sized, Item

\* The packets in the children of the disc, and how their number follows an
\* enqueue and a dequeue.
LEMMA Counting ==
  ASSUME NEW q \in Queues
  PROVE  /\ Cardinality(SlotsOf(q)) \in Nat
         /\ (\A f \in Flows : q[f] = <<>>) => Cardinality(SlotsOf(q)) = 0
         /\ \A f \in Flows, x \in Item :
              Cardinality(SlotsOf([q EXCEPT ![f] = Append(@, x)]))
                = Cardinality(SlotsOf(q)) + 1
         /\ \A f \in Flows : q[f] # <<>> =>
              /\ Cardinality(SlotsOf(q)) \in Nat \ {0}
              /\ Cardinality(SlotsOf([q EXCEPT ![f] = Tail(@)]))
                   = Cardinality(SlotsOf(q)) - 1
<1> DEFINE N(r) == Cardinality(SlotsIn(Flows, r))
<1>1. \A r : Cardinality(SlotsOf(r)) = N(r)
  BY DEF SlotsOf, SlotsIn
<1>2. ASSUME NEW r \in Queues PROVE Counted(Flows, r) /\ N(r) \in Nat
  BY FlowsAssumption, SlotsFinite DEF Counted, Queues
<1>3. (\A f \in Flows : q[f] = <<>>) => N(q) = 0
  BY CountEmpty
<1>4. ASSUME NEW f \in Flows, NEW x \in Item
      PROVE  N([q EXCEPT ![f] = Append(@, x)]) = N(q) + 1
  <2>1. OneMore(Flows, f, q, [q EXCEPT ![f] = Append(@, x)])
    BY <1>2 DEF Queues, OneMore
  <2> QED
    BY <2>1, FlowsAssumption, CountMore
<1>5. ASSUME NEW f \in Flows, q[f] # <<>>
      PROVE  N(q) = N([q EXCEPT ![f] = Tail(@)]) + 1 /\ N([q EXCEPT ![f] = Tail(@)]) \in Nat
  <2>1. [q EXCEPT ![f] = Tail(@)] \in Queues
    BY <1>5 DEF Queues
  <2>2. OneMore(Flows, f, [q EXCEPT ![f] = Tail(@)], q)
    <3>1. Counted(Flows, [q EXCEPT ![f] = Tail(@)])
      BY <1>2, <2>1
    <3>2. Len(q[f]) = Len([q EXCEPT ![f] = Tail(@)][f]) + 1
      BY <1>5 DEF Queues
    <3>3. \A g \in Flows \ {f} : Len(q[g]) = Len([q EXCEPT ![f] = Tail(@)][g])
      BY DEF Queues
    <3> QED
      BY <3>1, <3>2, <3>3 DEF OneMore
  <2> QED
    BY <1>2, <2>1, <2>2, FlowsAssumption, CountMore
<1> HIDE DEF N
<1>6. \A f \in Flows : q[f] # <<>> =>
        N(q) \in Nat \ {0} /\ N([q EXCEPT ![f] = Tail(@)]) = N(q) - 1
  BY <1>5
<1> QED
  BY <1>1, <1>2, <1>3, <1>4, <1>6

(***************************************************************************)
(* The bookkeeping operators of QueueDisc                                  *)
(***************************************************************************)

\* A packet is received and stored by its child ...
LEMMA StoreBooks ==
  ASSUME NEW b \in Base(Item)
  PROVE  LET c == PacketEnqueued(PacketReceived(b))
         IN  /\ c \in Base(Item)
             /\ c.m_nPackets = b.m_nPackets + 1
             /\ c.m_requeued = b.m_requeued
             /\ c.m_peeked = b.m_peeked
             /\ c.nTotalReceived = b.nTotalReceived + 1
             /\ c.nTotalEnqueued = b.nTotalEnqueued + 1
             /\ c.nTotalDequeued = b.nTotalDequeued
             /\ c.nTotalDroppedBeforeEnqueue = b.nTotalDroppedBeforeEnqueue
             /\ c.nTotalDroppedAfterDequeue = b.nTotalDroppedAfterDequeue
<1> DEFINE c == PacketEnqueued(PacketReceived(b))
<1>1. \A k \in Nat : k + 1 \in Nat
  BY DEF Base
<1>2. c \in Base(Item)
  BY <1>1, Zenon DEF PacketEnqueued, PacketReceived, Base
<1>3. /\ c.m_nPackets = b.m_nPackets + 1
      /\ c.m_requeued = b.m_requeued
      /\ c.m_peeked = b.m_peeked
      /\ c.nTotalReceived = b.nTotalReceived + 1
      /\ c.nTotalEnqueued = b.nTotalEnqueued + 1
      /\ c.nTotalDequeued = b.nTotalDequeued
      /\ c.nTotalDroppedBeforeEnqueue = b.nTotalDroppedBeforeEnqueue
      /\ c.nTotalDroppedAfterDequeue = b.nTotalDroppedAfterDequeue
  BY DEF PacketEnqueued, PacketReceived, Base
<1> QED
  BY <1>2, <1>3

\* ... or received and refused by it.
LEMMA RefuseBooks ==
  ASSUME NEW b \in Base(Item)
  PROVE  LET c == DropBeforeEnqueue(PacketReceived(b))
         IN  /\ c \in Base(Item)
             /\ c.m_nPackets = b.m_nPackets
             /\ c.m_requeued = b.m_requeued
             /\ c.m_peeked = b.m_peeked
             /\ c.nTotalReceived = b.nTotalReceived + 1
             /\ c.nTotalEnqueued = b.nTotalEnqueued
             /\ c.nTotalDequeued = b.nTotalDequeued
             /\ c.nTotalDroppedBeforeEnqueue = b.nTotalDroppedBeforeEnqueue + 1
             /\ c.nTotalDroppedAfterDequeue = b.nTotalDroppedAfterDequeue
<1> DEFINE c == DropBeforeEnqueue(PacketReceived(b))
<1>1. \A k \in Nat : k + 1 \in Nat
  BY DEF Base
<1>2. c \in Base(Item)
  BY <1>1, Zenon DEF DropBeforeEnqueue, PacketReceived, Base
<1>3. /\ c.m_nPackets = b.m_nPackets
      /\ c.m_requeued = b.m_requeued
      /\ c.m_peeked = b.m_peeked
      /\ c.nTotalReceived = b.nTotalReceived + 1
      /\ c.nTotalEnqueued = b.nTotalEnqueued
      /\ c.nTotalDequeued = b.nTotalDequeued
      /\ c.nTotalDroppedBeforeEnqueue = b.nTotalDroppedBeforeEnqueue + 1
      /\ c.nTotalDroppedAfterDequeue = b.nTotalDroppedAfterDequeue
  BY DEF DropBeforeEnqueue, PacketReceived, Base
<1> QED
  BY <1>2, <1>3

\* An overflow drop counts the same whether or not a packet is being peeked.
LEMMA DropBooks ==
  ASSUME NEW b \in Base(Item), b.m_nPackets > 0
  PROVE  LET c == DropAfterDequeue(PacketDequeued(b))
         IN  /\ c \in Base(Item)
             /\ c.m_nPackets = b.m_nPackets - 1
             /\ c.m_requeued = b.m_requeued
             /\ c.m_peeked = b.m_peeked
             /\ c.nTotalReceived = b.nTotalReceived
             /\ c.nTotalEnqueued = b.nTotalEnqueued
             /\ c.nTotalDequeued = b.nTotalDequeued + 1
             /\ c.nTotalDroppedBeforeEnqueue = b.nTotalDroppedBeforeEnqueue
             /\ c.nTotalDroppedAfterDequeue = b.nTotalDroppedAfterDequeue + 1
<1> DEFINE c == DropAfterDequeue(PacketDequeued(b))
<1>1. b.m_nPackets - 1 \in Nat /\ \A k \in Nat : k + 1 \in Nat
  BY DEF Base
<1>2. CASE b.m_peeked
  <2>1. c \in Base(Item)
    BY <1>1, <1>2, Zenon DEF DropAfterDequeue, PacketDequeued, CountDequeued, Base
  <2>2. /\ c.m_nPackets = b.m_nPackets - 1
        /\ c.m_requeued = b.m_requeued
        /\ c.m_peeked = b.m_peeked
        /\ c.nTotalReceived = b.nTotalReceived
        /\ c.nTotalEnqueued = b.nTotalEnqueued
        /\ c.nTotalDequeued = b.nTotalDequeued + 1
        /\ c.nTotalDroppedBeforeEnqueue = b.nTotalDroppedBeforeEnqueue
        /\ c.nTotalDroppedAfterDequeue = b.nTotalDroppedAfterDequeue + 1
    BY <1>2 DEF DropAfterDequeue, PacketDequeued, CountDequeued, Base
  <2> QED
    BY <2>1, <2>2
<1>3. CASE ~ b.m_peeked
  <2>1. c \in Base(Item)
    BY <1>1, <1>3, Zenon DEF DropAfterDequeue, PacketDequeued, CountDequeued, Base
  <2>2. /\ c.m_nPackets = b.m_nPackets - 1
        /\ c.m_requeued = b.m_requeued
        /\ c.m_peeked = b.m_peeked
        /\ c.nTotalReceived = b.nTotalReceived
        /\ c.nTotalEnqueued = b.nTotalEnqueued
        /\ c.nTotalDequeued = b.nTotalDequeued + 1
        /\ c.nTotalDroppedBeforeEnqueue = b.nTotalDroppedBeforeEnqueue
        /\ c.nTotalDroppedAfterDequeue = b.nTotalDroppedAfterDequeue + 1
    BY <1>3 DEF DropAfterDequeue, PacketDequeued, CountDequeued, Base
  <2> QED
    BY <2>1, <2>2
<1> QED
  BY <1>2, <1>3

\* A peeked packet is handed out.
LEMMA ReleaseBooks ==
  ASSUME NEW b \in Base(Item), b.m_nPackets > 0, b.m_peeked
  PROVE  LET c == ReleaseRequeued(b)
         IN  /\ c \in Base(Item)
             /\ c.m_nPackets = b.m_nPackets - 1
             /\ c.m_requeued = NoItem
             /\ c.m_peeked = FALSE
             /\ c.nTotalReceived = b.nTotalReceived
             /\ c.nTotalEnqueued = b.nTotalEnqueued
             /\ c.nTotalDequeued = b.nTotalDequeued + 1
             /\ c.nTotalDroppedBeforeEnqueue = b.nTotalDroppedBeforeEnqueue
             /\ c.nTotalDroppedAfterDequeue = b.nTotalDroppedAfterDequeue
<1> DEFINE c == ReleaseRequeued(b)
<1>1. b.m_nPackets - 1 \in Nat /\ \A k \in Nat : k + 1 \in Nat
  BY DEF Base
<1>2. c \in Base(Item)
  BY <1>1, Zenon DEF ReleaseRequeued, CountDequeued, Base
<1>3. /\ c.m_nPackets = b.m_nPackets - 1
      /\ c.m_requeued = NoItem
      /\ c.m_peeked = FALSE
      /\ c.nTotalReceived = b.nTotalReceived
      /\ c.nTotalEnqueued = b.nTotalEnqueued
      /\ c.nTotalDequeued = b.nTotalDequeued + 1
      /\ c.nTotalDroppedBeforeEnqueue = b.nTotalDroppedBeforeEnqueue
      /\ c.nTotalDroppedAfterDequeue = b.nTotalDroppedAfterDequeue
  BY DEF ReleaseRequeued, CountDequeued, Base
<1> QED
  BY <1>2, <1>3

\* A packet is dequeued for the caller ...
LEMMA DequeueBooks ==
  ASSUME NEW b \in Base(Item), b.m_nPackets > 0, ~ b.m_peeked
  PROVE  LET c == PacketDequeued(b)
         IN  /\ c \in Base(Item)
             /\ c.m_nPackets = b.m_nPackets - 1
             /\ c.m_requeued = b.m_requeued
             /\ c.m_peeked = b.m_peeked
             /\ c.nTotalReceived = b.nTotalReceived
             /\ c.nTotalEnqueued = b.nTotalEnqueued
             /\ c.nTotalDequeued = b.nTotalDequeued + 1
             /\ c.nTotalDroppedBeforeEnqueue = b.nTotalDroppedBeforeEnqueue
             /\ c.nTotalDroppedAfterDequeue = b.nTotalDroppedAfterDequeue
<1> DEFINE c == PacketDequeued(b)
<1>1. b.m_nPackets - 1 \in Nat /\ \A k \in Nat : k + 1 \in Nat
  BY DEF Base
<1>2. c \in Base(Item)
  BY <1>1, Zenon DEF PacketDequeued, CountDequeued, Base
<1>3. /\ c.m_nPackets = b.m_nPackets - 1
      /\ c.m_requeued = b.m_requeued
      /\ c.m_peeked = b.m_peeked
      /\ c.nTotalReceived = b.nTotalReceived
      /\ c.nTotalEnqueued = b.nTotalEnqueued
      /\ c.nTotalDequeued = b.nTotalDequeued + 1
      /\ c.nTotalDroppedBeforeEnqueue = b.nTotalDroppedBeforeEnqueue
      /\ c.nTotalDroppedAfterDequeue = b.nTotalDroppedAfterDequeue
  BY DEF PacketDequeued, CountDequeued, Base
<1> QED
  BY <1>2, <1>3

\* ... or set aside by a peek, in which case it is still counted.
LEMMA PeekBooks ==
  ASSUME NEW b \in Base(Item), b.m_peeked, NEW x \in Item
  PROVE  LET c == KeepPeeked(PacketDequeued(b), x)
         IN  /\ c \in Base(Item)
             /\ c.m_nPackets = b.m_nPackets
             /\ c.m_requeued = x
             /\ c.m_peeked = TRUE
             /\ c.nTotalReceived = b.nTotalReceived
             /\ c.nTotalEnqueued = b.nTotalEnqueued
             /\ c.nTotalDequeued = b.nTotalDequeued
             /\ c.nTotalDroppedBeforeEnqueue = b.nTotalDroppedBeforeEnqueue
             /\ c.nTotalDroppedAfterDequeue = b.nTotalDroppedAfterDequeue
<1> DEFINE c == KeepPeeked(PacketDequeued(b), x)
<1>1. x # NoItem
  BY NoItemAssumption
<1>2. c \in Base(Item)
  BY <1>1, Zenon DEF PacketDequeued, KeepPeeked, Base
<1>3. /\ c.m_nPackets = b.m_nPackets
      /\ c.m_requeued = x
      /\ c.m_peeked = TRUE
      /\ c.nTotalReceived = b.nTotalReceived
      /\ c.nTotalEnqueued = b.nTotalEnqueued
      /\ c.nTotalDequeued = b.nTotalDequeued
      /\ c.nTotalDroppedBeforeEnqueue = b.nTotalDroppedBeforeEnqueue
      /\ c.nTotalDroppedAfterDequeue = b.nTotalDroppedAfterDequeue
  BY <1>1 DEF PacketDequeued, KeepPeeked, Base
<1> QED
  BY <1>2, <1>3

(***************************************************************************)
(* The inductive invariant                                                 *)
(***************************************************************************)

\* The books, with the exact value of m_currentQueueSize: one slot more than is
\* stored for every packet a child has refused.  Induction needs the exact value;
\* the property BooksBalance asks for no more than the header promises.
BooksInv ==
  /\ AssertEnqueue(root)
  /\ AssertDequeue(root)
  /\ root.m_nPackets = NStored + Held(root)
  /\ m_currentQueueSize = NStored + root.nTotalDroppedBeforeEnqueue
  /\ pc = "idle" => (root.m_peeked <=> root.m_requeued # NoItem)
  /\ pc = "loop" => root.m_requeued = NoItem

IInv ==
  /\ TypeOK
  /\ FlowListSound
  /\ BooksInv
  /\ \A f \in Flows : BytesOK(fifo[f], m_nBytes[f])
  /\ m_currentQueueSize <= MaxSize

\* A new disc satisfies the invariant.
LEMMA InitIInv == Init => IInv
<1> SUFFICES ASSUME Init PROVE IInv
  OBVIOUS
<1>1. TypeOK
  BY DEF Init, TypeOK, NewBase, Base
<1>2. FlowListSound
  BY DEF Init, FlowListSound
<1>3. BooksInv
  <2>1. NStored = 0
    BY Counting, <1>1 DEF Init, NStored, Queues, TypeOK
  <2> QED
    BY <2>1 DEF Init, BooksInv, NewBase, AssertEnqueue, AssertDequeue, Held
<1>4. \A f \in Flows : BytesOK(fifo[f], m_nBytes[f])
  BY BytesEmpty DEF Init
<1>5. m_currentQueueSize <= MaxSize
  BY LimitsAssumption DEF Init
<1> QED
  BY <1>1, <1>2, <1>3, <1>4, <1>5 DEF IInv

\* Handing out a peeked packet preserves the invariant.
LEMMA DequeueRequeuedIInv ==
  ASSUME IInv, DequeueRequeued
  PROVE  IInv'
<1>1. root.m_peeked /\ root.m_nPackets = NStored + 1 /\ NStored \in Nat
  <2>1. root.m_peeked /\ Held(root) = 1
    BY DEF IInv, BooksInv, DequeueRequeued, Held
  <2> QED
    BY <2>1, Counting
    DEF IInv, BooksInv, NStored, TypeOK, Queues
<1>2. root \in Base(Item) /\ root.m_nPackets > 0 /\ root' = ReleaseRequeued(root)
  BY <1>1 DEF DequeueRequeued, IInv, TypeOK
<1>3. /\ root' \in Base(Item)
      /\ root'.m_nPackets = root.m_nPackets - 1
      /\ root'.m_requeued = NoItem
      /\ root'.m_peeked = FALSE
      /\ root'.nTotalReceived = root.nTotalReceived
      /\ root'.nTotalEnqueued = root.nTotalEnqueued
      /\ root'.nTotalDequeued = root.nTotalDequeued + 1
      /\ root'.nTotalDroppedBeforeEnqueue = root.nTotalDroppedBeforeEnqueue
      /\ root'.nTotalDroppedAfterDequeue = root.nTotalDroppedAfterDequeue
  BY <1>1, <1>2, ReleaseBooks
<1>6. TypeOK'
  BY <1>3 DEF IInv, TypeOK, DequeueRequeued
<1>4. FlowListSound'
  BY DEF IInv, FlowListSound, DequeueRequeued
<1>5. BooksInv'
  <2>1. NStored' = NStored
    BY DEF DequeueRequeued, NStored
  <2> QED
    BY <1>1, <1>2, <1>3, <2>1 DEF IInv, BooksInv, DequeueRequeued, Base,
       AssertEnqueue, AssertDequeue, Held
<1> QED
  BY <1>4, <1>5, <1>6 DEF IInv, DequeueRequeued

\* So does the entry of DoDequeue, from Dequeue or from Peek, which sets
\* m_peeked first ...
LEMMA CallDoDequeueIInv ==
  ASSUME IInv, NEW peek \in BOOLEAN, CallDoDequeue(peek)
  PROVE  IInv'
<1>1. TypeOK'
  BY DEF IInv, TypeOK, Base, CallDoDequeue
<1>2. FlowListSound'
  BY DEF IInv, FlowListSound, CallDoDequeue
<1>3. BooksInv'
  <2>1. NStored' = NStored
    BY DEF CallDoDequeue, NStored
  <2> QED
    BY <2>1 DEF IInv, TypeOK, Base, BooksInv, CallDoDequeue, AssertEnqueue,
       AssertDequeue, Held
<1> QED
  BY <1>1, <1>2, <1>3 DEF IInv, CallDoDequeue

\* ... and its return with no packet.
LEMMA ReturnNullIInv ==
  ASSUME IInv, ReturnNull
  PROVE  IInv'
<1>1. TypeOK'
  BY DEF IInv, TypeOK, Base, ReturnNull, KeepPeeked
<1>2. FlowListSound'
  BY DEF IInv, FlowListSound, ReturnNull
<1>3. BooksInv'
  <2>1. NStored' = NStored
    BY DEF ReturnNull, NStored
  <2> QED
    BY <2>1 DEF IInv, TypeOK, Base, BooksInv, ReturnNull, KeepPeeked,
       AssertEnqueue, AssertDequeue, Held
<1> QED
  BY <1>1, <1>2, <1>3 DEF IInv, ReturnNull

(***************************************************************************)
(* The list of flows                                                       *)
(***************************************************************************)

\* FlowListSound in terms of lists without duplicates.
LEMMA FlowListSoundDef ==
  FlowListSound <=>
    /\ Distinct(m_flowList)
    /\ \A f \in Flows : m_status[f] = "SFQ_IN_USE" <=> In(f, m_flowList)
    /\ \A f \in Flows : fifo[f] # <<>> => m_status[f] = "SFQ_IN_USE"
BY DEF FlowListSound, Distinct, In

\* A flow with nothing to send leaves the list when its turn comes.
LEMMA SkipFlowIInv ==
  ASSUME IInv, SkipFlow
  PROVE  IInv'
<1> DEFINE l == m_flowList
           f == Head(m_flowList)
<1> USE DEF IInv
<1>1. l \in Seq(Flows) /\ l # <<>> /\ Distinct(l) /\ fifo[f] = <<>>
  BY FlowListSoundDef DEF SkipFlow, TypeOK
<1>2. /\ f \in Flows /\ Tail(l) \in Seq(Flows) /\ Distinct(Tail(l))
      /\ \A g \in Flows : In(g, Tail(l)) <=> (g # f /\ In(g, l))
  BY <1>1, ListTail
<1>3. /\ UNCHANGED <<m_classes, fifo, m_nBytes, m_currentQueueSize, root, pc>>
      /\ m_flowList' = Tail(l) /\ m_status' = [m_status EXCEPT ![f] = "SFQ_EMPTY_SLOT"]
  BY DEF SkipFlow, RemoveFlow
<1>4. TypeOK'
  BY <1>2, <1>3 DEF TypeOK
<1>5. FlowListSound'
  <2>1. /\ m_status'[f] = "SFQ_EMPTY_SLOT"
        /\ \A g \in Flows : g # f => m_status'[g] = m_status[g]
    BY <1>2, <1>3 DEF TypeOK
  <2>2. \A g \in Flows : m_status'[g] = "SFQ_IN_USE" <=> In(g, m_flowList')
    BY <1>2, <1>3, <2>1, FlowListSoundDef
  <2>3. \A g \in Flows : fifo'[g] # <<>> => m_status'[g] = "SFQ_IN_USE"
    BY <1>1, <1>3, <2>1, FlowListSoundDef
  <2> QED
    BY <1>2, <1>3, <2>2, <2>3 DEF FlowListSound, Distinct, In
<1>6. BooksInv'
  BY <1>3 DEF BooksInv, NStored, AssertEnqueue, AssertDequeue, Held, SlotsOf
<1> QED
  BY <1>3, <1>4, <1>5, <1>6

\* The flow that sends a packet goes to the end of the list.
LEMMA RotatedList ==
  ASSUME TypeOK, FlowListSound, m_flowList # <<>>
  PROVE  /\ Head(m_flowList) \in Flows /\ In(Head(m_flowList), m_flowList)
         /\ Rotated \in Seq(Flows) /\ Distinct(Rotated)
         /\ \A g \in Flows : In(g, Rotated) <=> In(g, m_flowList)
<1> DEFINE l == m_flowList
           f == Head(m_flowList)
<1>1. l \in Seq(Flows) /\ l # <<>> /\ Distinct(l)
  BY FlowListSoundDef DEF TypeOK
<1>2. /\ f \in Flows /\ In(f, l) /\ Tail(l) \in Seq(Flows) /\ Distinct(Tail(l))
      /\ \A g \in Flows : In(g, Tail(l)) <=> (g # f /\ In(g, l))
  BY <1>1, ListTail
<1>3. /\ Append(Tail(l), f) \in Seq(Flows) /\ Distinct(Append(Tail(l), f))
      /\ \A g \in Flows : In(g, Append(Tail(l), f)) <=> (g = f \/ In(g, Tail(l)))
  BY <1>2, ListAppend
<1> QED
  BY <1>2, <1>3 DEF Rotated

\* Sending a packet preserves the invariant, for the caller or for a peek.
LEMMA ServeFlowIInv ==
  ASSUME IInv, ServeFlow
  PROVE  IInv'
<1> DEFINE l == m_flowList
           f == Head(m_flowList)
           item == Head(fifo[f])
<1> USE DEF IInv
<1>1. /\ l # <<>> /\ pc = "loop" /\ pc' = "idle" /\ fifo[f] # <<>>
      /\ UNCHANGED <<m_classes, m_status>> /\ m_flowList' = Rotated
      /\ fifo' = [fifo EXCEPT ![f] = Tail(@)]
      /\ m_nBytes' = [m_nBytes EXCEPT ![f] = @ - item.size]
      /\ m_currentQueueSize' = m_currentQueueSize - 1
      /\ root' = IF root.m_peeked THEN KeepPeeked(PacketDequeued(root), item)
                 ELSE PacketDequeued(root)
  BY DEF ServeFlow
<1>2. /\ f \in Flows /\ Rotated \in Seq(Flows) /\ Distinct(Rotated)
      /\ \A g \in Flows : In(g, Rotated) <=> In(g, l)
  BY <1>1, RotatedList
<1>3. fifo \in Queues /\ fifo[f] \in Seq(Item)
  BY <1>2 DEF TypeOK, Queues
<1>4. item \in Item /\ item.size \in Nat \ {0} /\ Tail(fifo[f]) \in Seq(Item)
  <2>1. item \in Item /\ Tail(fifo[f]) \in Seq(Item)
    BY <1>1, <1>3
  <2> QED
    BY <2>1, ItemsSized DEF Sized
<1>5. NStored \in Nat \ {0} /\ NStored' = NStored - 1
  BY <1>1, <1>2, <1>3, Counting DEF NStored
<1>6. /\ m_nBytes[f] - item.size \in Nat
      /\ BytesOK(Tail(fifo[f]), m_nBytes[f] - item.size)
  BY <1>1, <1>2, <1>3, BytesTail, ItemsSized DEF TypeOK
<1>7. root \in Base(Item) /\ root.m_requeued = NoItem /\ root.m_nPackets = NStored
  BY <1>1, <1>5 DEF TypeOK, BooksInv, Held
<1>8. /\ root' \in Base(Item)
      /\ root'.m_nPackets = NStored - 1 + Held(root')
      /\ root'.m_nPackets = root'.nTotalEnqueued - root'.nTotalDequeued
      /\ root'.nTotalReceived = root.nTotalReceived
      /\ root'.nTotalEnqueued = root.nTotalEnqueued
      /\ root'.nTotalDroppedBeforeEnqueue = root.nTotalDroppedBeforeEnqueue
      /\ root'.m_peeked <=> root'.m_requeued # NoItem
  <2>1. root.m_nPackets = root.nTotalEnqueued - root.nTotalDequeued
    BY DEF BooksInv, AssertDequeue
  <2>2. CASE root.m_peeked
    <3>1. root' = KeepPeeked(PacketDequeued(root), item)
      BY <2>2, <1>1
    <3>2. /\ root' \in Base(Item)
          /\ root'.m_nPackets = root.m_nPackets
          /\ root'.nTotalDequeued = root.nTotalDequeued
          /\ root'.m_requeued = item /\ root'.m_peeked = TRUE
          /\ root'.nTotalReceived = root.nTotalReceived
          /\ root'.nTotalEnqueued = root.nTotalEnqueued
          /\ root'.nTotalDroppedBeforeEnqueue = root.nTotalDroppedBeforeEnqueue
      BY <3>1, <2>2, <1>4, <1>7, PeekBooks
    <3>3. item # NoItem
      BY <1>4, NoItemAssumption
    <3>4. Held(root') = 1
      BY <3>2, <3>3 DEF Held
    <3> QED
      BY <3>2, <3>3, <3>4, <2>1, <1>5, <1>7
  <2>3. CASE ~ root.m_peeked
    <3>1. root' = PacketDequeued(root) /\ root.m_nPackets > 0
      BY <2>3, <1>1, <1>5, <1>7
    <3>2. /\ root' \in Base(Item)
          /\ root'.m_nPackets = root.m_nPackets - 1
          /\ root'.nTotalDequeued = root.nTotalDequeued + 1
          /\ root'.m_requeued = NoItem /\ root'.m_peeked = root.m_peeked
          /\ root'.nTotalReceived = root.nTotalReceived
          /\ root'.nTotalEnqueued = root.nTotalEnqueued
          /\ root'.nTotalDroppedBeforeEnqueue = root.nTotalDroppedBeforeEnqueue
      BY <3>1, <2>3, <1>7, DequeueBooks
    <3> QED
      BY <3>2, <2>1, <2>3, <1>5, <1>7 DEF Held, Base
  <2> QED
    BY <2>2, <2>3
<1>9. BooksInv' /\ m_currentQueueSize' \in Nat /\ m_currentQueueSize' <= MaxSize
  <2>1. m_currentQueueSize = NStored + root.nTotalDroppedBeforeEnqueue
    BY DEF BooksInv
  <2>2. root.nTotalDroppedBeforeEnqueue \in Nat
    BY <1>7 DEF Base
  <2>3. m_currentQueueSize' \in Nat /\ m_currentQueueSize' <= MaxSize
    BY <2>1, <2>2, <1>1, <1>5, LimitsAssumption
  <2>4. m_currentQueueSize' = NStored' + root'.nTotalDroppedBeforeEnqueue
    BY <2>1, <2>2, <1>1, <1>5, <1>8
  <2>5. root'.nTotalReceived
          = root'.nTotalDroppedBeforeEnqueue + root'.nTotalEnqueued
    BY <1>8 DEF BooksInv, AssertEnqueue
  <2> QED
    BY <2>3, <2>4, <2>5, <1>1, <1>5, <1>8
    DEF BooksInv, AssertEnqueue, AssertDequeue
<1>10. \A g \in Flows : BytesOK(fifo'[g], m_nBytes'[g])
  BY <1>1, <1>2, <1>6 DEF TypeOK
<1>11. /\ fifo' \in [Flows -> Seq(Item)]
       /\ m_nBytes' \in [Flows -> Nat]
  BY <1>1, <1>2, <1>4, <1>6 DEF TypeOK
<1>12. TypeOK'
  BY <1>1, <1>2, <1>8, <1>9, <1>11 DEF TypeOK
<1>13. FlowListSound'
  <2>1. \A g \in Flows : fifo'[g] # <<>> => fifo[g] # <<>>
    BY <1>1, <1>2, <1>3 DEF Queues
  <2>2. \A g \in Flows : fifo'[g] # <<>> => m_status'[g] = "SFQ_IN_USE"
    BY <1>1, <2>1, FlowListSoundDef
  <2>3. \A g \in Flows : m_status'[g] = "SFQ_IN_USE" <=> In(g, m_flowList')
    BY <1>1, <1>2, FlowListSoundDef
  <2> QED
    BY <1>1, <1>2, <2>2, <2>3 DEF FlowListSound, Distinct, In
<1> QED
  BY <1>9, <1>10, <1>12, <1>13

\* A flow that receives a packet is in the list afterwards, also when the
\* overflow drop took that packet, and no other flow changes.
LEMMA JoinSound ==
  ASSUME TypeOK, FlowListSound, NEW f \in Flows, Join(f),
         \A g \in Flows : fifo'[g] # <<>> => g = f \/ fifo[g] # <<>>
  PROVE  /\ FlowListSound'
         /\ m_status' \in [Flows -> {"SFQ_EMPTY_SLOT", "SFQ_IN_USE"}]
         /\ m_flowList' \in Seq(Flows)
<1> DEFINE l == m_flowList
<1>1. l \in Seq(Flows) /\ Distinct(l)
  BY FlowListSoundDef DEF TypeOK
<1>2. CASE m_status[f] = "SFQ_EMPTY_SLOT"
  <2>1. /\ m_status' = [m_status EXCEPT ![f] = "SFQ_IN_USE"]
        /\ m_flowList' = Append(l, f)
    BY <1>2 DEF Join
  <2>2. ~ In(f, l)
    BY <1>2, FlowListSoundDef
  <2>3. /\ Distinct(m_flowList') /\ m_flowList' \in Seq(Flows)
        /\ \A g \in Flows : In(g, m_flowList') <=> (g = f \/ In(g, l))
    BY <2>1, <2>2, <1>1, ListAppend
  <2>4. /\ m_status'[f] = "SFQ_IN_USE"
        /\ \A g \in Flows : g # f => m_status'[g] = m_status[g]
        /\ m_status' \in [Flows -> {"SFQ_EMPTY_SLOT", "SFQ_IN_USE"}]
    BY <2>1 DEF TypeOK
  <2>5. \A g \in Flows : m_status'[g] = "SFQ_IN_USE" <=> In(g, m_flowList')
    BY <2>3, <2>4, FlowListSoundDef
  <2>6. \A g \in Flows : fifo'[g] # <<>> => m_status'[g] = "SFQ_IN_USE"
    BY <2>4, FlowListSoundDef
  <2> QED
    BY <2>3, <2>4, <2>5, <2>6 DEF FlowListSound, Distinct, In
<1>3. CASE m_status[f] # "SFQ_EMPTY_SLOT"
  <2>1. UNCHANGED <<m_status, m_flowList>>
    BY <1>3 DEF Join
  <2>2. m_status[f] = "SFQ_IN_USE"
    BY <1>3 DEF TypeOK
  <2>3. \A g \in Flows : fifo'[g] # <<>> => m_status'[g] = "SFQ_IN_USE"
    BY <2>1, <2>2, FlowListSoundDef
  <2> QED
    BY <2>1, <2>3 DEF FlowListSound, TypeOK
<1> QED
  BY <1>2, <1>3

\* The queues and the byte counts after the child of flow f was offered item.
QueuesWith(f, item) ==
  IF ChildAccepts(f) THEN [fifo EXCEPT ![f] = Append(@, item)] ELSE fifo
BytesWith(f, item) ==
  IF ChildAccepts(f) THEN [m_nBytes EXCEPT ![f] = @ + item.size] ELSE m_nBytes

\* They still agree, and the flow of the packet has a packet whether or not its
\* child refused this one.
LEMMA StoredBytes ==
  ASSUME fifo \in Queues, m_nBytes \in [Flows -> Nat],
         \A g \in Flows : BytesOK(fifo[g], m_nBytes[g]),
         NEW f \in Flows, NEW item \in Item
  PROVE  /\ QueuesWith(f, item) \in Queues
         /\ BytesWith(f, item) \in [Flows -> Nat]
         /\ QueuesWith(f, item)[f] # <<>>
         /\ \A g \in Flows : g # f => QueuesWith(f, item)[g] = fifo[g]
         /\ \A g \in Flows : BytesOK(QueuesWith(f, item)[g], BytesWith(f, item)[g])
<1> DEFINE queues == QueuesWith(f, item)
           bytes == BytesWith(f, item)
<1>1. CASE ChildAccepts(f)
  <2>1. item.size \in Nat
    BY SizesAssumption DEF Item
  <2>2. BytesOK(Append(fifo[f], item), m_nBytes[f] + item.size)
    BY BytesAppend, ItemsSized DEF Queues
  <2>3. queues = [fifo EXCEPT ![f] = Append(@, item)]
        /\ bytes = [m_nBytes EXCEPT ![f] = @ + item.size]
    BY <1>1 DEF QueuesWith, BytesWith
  <2>4. Append(fifo[f], item) \in Seq(Item) /\ Append(fifo[f], item) # <<>>
    BY DEF Queues
  <2> HIDE DEF queues, bytes
  <2>5. /\ queues \in Queues /\ bytes \in [Flows -> Nat]
        /\ queues[f] # <<>>
        /\ \A g \in Flows : g # f => queues[g] = fifo[g]
        /\ \A g \in Flows : BytesOK(queues[g], bytes[g])
    BY <2>1, <2>2, <2>3, <2>4 DEF Queues
  <2> QED
    BY <2>5 DEF queues, bytes
<1>2. CASE ~ ChildAccepts(f)
  <2>1. queues = fifo /\ bytes = m_nBytes
    BY <1>2 DEF QueuesWith, BytesWith
  <2>2. fifo[f] # <<>>
    BY <1>2, LimitsAssumption DEF ChildAccepts, Queues
  <2> QED
    BY <2>1, <2>2
<1> QED
  BY <1>1, <1>2

\* DropFromLongestQueue finds a packet to drop: the flow of the packet that
\* arrived has a class and bytes, so the longest queue is not empty.
LEMMA VictimStores ==
  ASSUME m_classes \in Seq(Flows), NEW f \in Flows, NEW v \in Flows,
         NEW queues \in Queues, NEW bytes \in [Flows -> Nat],
         \A g \in Flows : BytesOK(queues[g], bytes[g]), queues[f] # <<>>,
         IsLongest(v, ClassesWith(f), bytes)
  PROVE  queues[v] # <<>>
<1>1. \E j \in DOMAIN ClassesWith(f) : ClassesWith(f)[j] = f
  <2>1. CASE \E i \in DOMAIN m_classes : m_classes[i] = f
    BY <2>1 DEF ClassesWith
  <2>2. CASE ~ \E i \in DOMAIN m_classes : m_classes[i] = f
    <3>1. ClassesWith(f) = Append(m_classes, f)
      BY <2>2 DEF ClassesWith
    <3>2. /\ Len(m_classes) + 1 \in DOMAIN Append(m_classes, f)
          /\ Append(m_classes, f)[Len(m_classes) + 1] = f
      OBVIOUS
    <3> QED
      BY <3>1, <3>2
  <2> QED
    BY <2>1, <2>2
<1>2. bytes[f] <= bytes[v]
  BY <1>1 DEF IsLongest
<1>3. bytes[f] > 0 /\ bytes[f] \in Nat /\ bytes[v] \in Nat
  BY BytesPositive, ItemsSized DEF Queues
<1> QED
  BY <1>2, <1>3, BytesPositive, ItemsSized DEF Queues

\* DoEnqueue preserves the invariant, whether the child accepts the packet or
\* not and whether the disc overflows or not.
LEMMA EnqueueIInv ==
  ASSUME IInv, NEW f \in Flows, NEW s \in Sizes, Enqueue(f, s)
  PROVE  IInv'
<1> DEFINE item == [flow |-> f, size |-> s, id |-> root.nTotalReceived + 1]
           b == PacketReceived(root)
           queues == QueuesWith(f, item)
           bytes == BytesWith(f, item)
           counted == IF ChildAccepts(f)
                      THEN PacketEnqueued(b) ELSE DropBeforeEnqueue(b)
           N == Cardinality(SlotsOf(queues))
<1> USE DEF IInv
<1>1. /\ pc = "idle" /\ root.nTotalReceived < MaxReceived
      /\ m_classes' = ClassesWith(f) /\ Join(f)
      /\ UNCHANGED pc
  BY DEF Enqueue
<1>2. root \in Base(Item) /\ fifo \in Queues /\ m_nBytes \in [Flows -> Nat]
  BY DEF TypeOK, Queues
<1>3. item \in Item /\ item.size = s /\ s \in Nat \ {0}
  BY <1>1, <1>2, SizesAssumption, LimitsAssumption DEF Item, Base
<1>4. m_classes' \in Seq(Flows)
  BY <1>1 DEF ClassesWith, TypeOK
<1>5. /\ queues \in Queues /\ bytes \in [Flows -> Nat]
      /\ queues[f] # <<>>
      /\ \A g \in Flows : g # f => queues[g] = fifo[g]
      /\ \A g \in Flows : BytesOK(queues[g], bytes[g])
  BY <1>2, <1>3, StoredBytes
<1>6. /\ counted \in Base(Item)
      /\ counted.m_nPackets = N + Held(root)
      /\ counted.m_nPackets = counted.nTotalEnqueued - counted.nTotalDequeued
      /\ counted.nTotalReceived
           = counted.nTotalDroppedBeforeEnqueue + counted.nTotalEnqueued
      /\ m_currentQueueSize + 1 = N + counted.nTotalDroppedBeforeEnqueue
      /\ counted.m_requeued = root.m_requeued
      /\ counted.m_peeked = root.m_peeked
  <2>1. /\ root.m_nPackets = NStored + Held(root)
        /\ root.m_nPackets = root.nTotalEnqueued - root.nTotalDequeued
        /\ root.nTotalReceived
             = root.nTotalDroppedBeforeEnqueue + root.nTotalEnqueued
        /\ m_currentQueueSize = NStored + root.nTotalDroppedBeforeEnqueue
    BY DEF BooksInv, AssertEnqueue, AssertDequeue
  <2>2. NStored \in Nat /\ Held(root) \in Nat
    BY <1>2, Counting DEF NStored, Held
  <2>3. root.nTotalEnqueued \in Nat /\ root.nTotalDequeued \in Nat
        /\ root.nTotalDroppedBeforeEnqueue \in Nat
    BY <1>2 DEF Base
  <2>4. CASE ChildAccepts(f)
    <3>1. counted = PacketEnqueued(PacketReceived(root)) /\ N = NStored + 1
      BY <2>4, <1>2, <1>3, Counting DEF NStored, QueuesWith
    <3> HIDE DEF counted, N
    <3> QED
      BY <3>1, <2>1, <2>2, <2>3, <1>2, StoreBooks
  <2>5. CASE ~ ChildAccepts(f)
    <3>1. counted = DropBeforeEnqueue(PacketReceived(root)) /\ N = NStored
      BY <2>5 DEF NStored, QueuesWith
    <3> HIDE DEF counted, N
    <3> QED
      BY <3>1, <2>1, <2>2, <2>3, <1>2, RefuseBooks
  <2> QED
    BY <2>4, <2>5
<1>7. N \in Nat
  BY <1>5, Counting
<1>8. CASE ~ MustDrop
  <2>1. /\ fifo' = queues /\ m_nBytes' = bytes /\ root' = counted
        /\ m_currentQueueSize' = m_currentQueueSize + 1
    BY <1>3, <1>8 DEF Enqueue, QueuesWith, BytesWith
  <2> HIDE DEF queues, bytes, counted
  <2>2. NStored' = N
    BY <2>1 DEF NStored
  <2>3. m_currentQueueSize' \in Nat /\ m_currentQueueSize' <= MaxSize
    BY <2>1, <1>8, LimitsAssumption DEF MustDrop, TypeOK
  <2>4. BooksInv'
    BY <2>1, <2>2, <1>1, <1>6
    DEF BooksInv, AssertEnqueue, AssertDequeue, Held
  <2>5. /\ FlowListSound'
        /\ m_status' \in [Flows -> {"SFQ_EMPTY_SLOT", "SFQ_IN_USE"}]
        /\ m_flowList' \in Seq(Flows)
    BY <2>1, <1>1, <1>5, JoinSound
  <2>6. TypeOK'
    BY <2>1, <2>3, <2>5, <1>1, <1>4, <1>5, <1>6 DEF TypeOK, Queues
  <2> QED
    BY <2>1, <2>3, <2>4, <2>5, <2>6, <1>5
<1>9. CASE MustDrop
  <2>1. PICK v \in Flows :
          /\ IsLongest(v, ClassesWith(f), bytes)
          /\ fifo' = [queues EXCEPT ![v] = Tail(@)]
          /\ m_nBytes' = [bytes EXCEPT ![v] = @ - Head(queues[v]).size]
          /\ root' = DropAfterDequeue(PacketDequeued(counted))
    BY <1>3, <1>9
    DEF Enqueue, QueuesWith, BytesWith, DropFromLongestQueue
  <2>2. m_currentQueueSize' = m_currentQueueSize
    BY <1>9 DEF Enqueue, TypeOK
  <2> HIDE DEF queues, bytes, counted
  <2>3. queues[v] # <<>>
    BY <2>1, <1>5, VictimStores DEF TypeOK
  <2>4. N \in Nat \ {0} /\ NStored' = N - 1
    BY <2>1, <2>3, <1>5, Counting DEF NStored
  <2>5. /\ bytes[v] - Head(queues[v]).size \in Nat
        /\ BytesOK(Tail(queues[v]), bytes[v] - Head(queues[v]).size)
    BY <2>3, <1>5, BytesTail, ItemsSized DEF Queues
  <2>6. fifo' \in Queues /\ m_nBytes' \in [Flows -> Nat]
    BY <2>1, <2>3, <2>5, <1>5 DEF Queues
  <2>7. \A g \in Flows : BytesOK(fifo'[g], m_nBytes'[g])
    BY <2>1, <2>5, <1>5 DEF Queues
  <2>8. counted.m_nPackets > 0
    BY <2>4, <1>6 DEF Held
  <2>9. /\ root' \in Base(Item)
        /\ root'.m_nPackets = counted.m_nPackets - 1
        /\ root'.nTotalDequeued = counted.nTotalDequeued + 1
        /\ root'.nTotalEnqueued = counted.nTotalEnqueued
        /\ root'.nTotalReceived = counted.nTotalReceived
        /\ root'.nTotalDroppedBeforeEnqueue = counted.nTotalDroppedBeforeEnqueue
        /\ root'.m_requeued = root.m_requeued
        /\ root'.m_peeked = root.m_peeked
    BY <2>1, <2>8, <1>6, DropBooks
  <2>10. BooksInv'
    <3>1. Held(root') = Held(root) /\ Held(root) \in Nat
      BY <2>9 DEF Held
    <3>2. /\ counted.nTotalEnqueued \in Nat /\ counted.nTotalDequeued \in Nat
          /\ counted.nTotalDroppedBeforeEnqueue \in Nat /\ m_currentQueueSize \in Nat
      BY <1>6 DEF Base, TypeOK
    <3>3. /\ root'.m_nPackets = NStored' + Held(root')
          /\ root'.m_nPackets = root'.nTotalEnqueued - root'.nTotalDequeued
          /\ root'.nTotalReceived
               = root'.nTotalDroppedBeforeEnqueue + root'.nTotalEnqueued
          /\ m_currentQueueSize' = NStored' + root'.nTotalDroppedBeforeEnqueue
      BY <3>1, <3>2, <2>2, <2>4, <2>9, <1>6
    <3> QED
      BY <3>3, <2>9, <1>1 DEF BooksInv, AssertEnqueue, AssertDequeue
  <2>11. \A g \in Flows : fifo'[g] # <<>> => g = f \/ fifo[g] # <<>>
    BY <2>1, <2>3, <1>5 DEF Queues
  <2>12. /\ FlowListSound'
         /\ m_status' \in [Flows -> {"SFQ_EMPTY_SLOT", "SFQ_IN_USE"}]
         /\ m_flowList' \in Seq(Flows)
    BY <2>11, <1>1, JoinSound
  <2>13. TypeOK'
    BY <2>2, <2>6, <2>9, <2>12, <1>1, <1>4 DEF TypeOK, Queues
  <2> QED
    BY <2>2, <2>7, <2>10, <2>12, <2>13
<1> QED
  BY <1>8, <1>9

\* Every step preserves the invariant.
LEMMA NextIInv == IInv /\ [Next]_vars => IInv'
<1> SUFFICES ASSUME IInv, [Next]_vars PROVE IInv'
  OBVIOUS
<1>1. ASSUME NEW f \in Flows, NEW s \in Sizes, Enqueue(f, s) PROVE IInv'
  BY <1>1, EnqueueIInv
<1>2. CASE DequeueRequeued
  BY <1>2, DequeueRequeuedIInv
<1>3. ASSUME NEW peek \in BOOLEAN, CallDoDequeue(peek) PROVE IInv'
  BY <1>3, CallDoDequeueIInv
<1>4. CASE ReturnNull
  BY <1>4, ReturnNullIInv
<1>5. CASE ServeFlow
  BY <1>5, ServeFlowIInv
<1>6. CASE SkipFlow
  BY <1>6, SkipFlowIInv
<1>7. CASE UNCHANGED vars
  BY <1>7 DEF vars, IInv, TypeOK, FlowListSound, BooksInv,
     NStored, SlotsOf, AssertEnqueue, AssertDequeue, Held
<1> QED
  BY <1>1, <1>2, <1>3, <1>4, <1>5, <1>6, <1>7 DEF Next

\* The exact count of slots is never below what is stored, and equals it while
\* no child has refused a packet.
LEMMA BooksImplied == IInv => BooksBalance
<1> SUFFICES ASSUME IInv PROVE BooksBalance
  OBVIOUS
<1>1. root.nTotalDroppedBeforeEnqueue \in Nat
  BY DEF IInv, TypeOK, Base
<1>2. NStored \in Nat
  BY Counting DEF NStored, IInv, TypeOK, Queues
<1>3. /\ m_currentQueueSize >= NStored
      /\ root.nTotalDroppedBeforeEnqueue = 0 => m_currentQueueSize = NStored
  BY <1>1, <1>2 DEF IInv, BooksInv
<1> QED
  BY <1>3 DEF IInv, BooksInv, BooksBalance

\* The invariant implies the property: m_currentQueueSize is never below the
\* number of packets stored.
LEMMA IInvImplies == IInv => SfqInv
<1> SUFFICES ASSUME IInv PROVE CapacityRespected
  BY BooksImplied DEF IInv, SfqInv
<1>1. /\ m_currentQueueSize = NStored + root.nTotalDroppedBeforeEnqueue
      /\ m_currentQueueSize <= MaxSize
      /\ root.nTotalDroppedBeforeEnqueue \in Nat
  BY DEF IInv, BooksInv, TypeOK, Base
<1>2. NStored \in Nat
  BY Counting DEF NStored, IInv, TypeOK, Queues
<1> QED
  BY <1>1, <1>2, LimitsAssumption DEF CapacityRespected

\* Types, list, books and capacity of SfqQueueDisc, for every value of its
\* constants: no counter goes below zero, no flow with packets is off the list
\* although flows leave it only when their turn comes, and the base-class counts
\* agree with what is stored.
THEOREM SfqInvCorrect == Spec => []SfqInv
BY InitIInv, NextIInv, IInvImplies, PTL DEF Spec

(***************************************************************************)
(* Rounds.  Of two flows in the list the one nearer the head is level with *)
(* the other or one packet behind it.                                      *)
(***************************************************************************)

RoundInv ==
  /\ lead \in [Pairs -> Int]
  /\ \A p \in Pairs : Both(p) =>
       /\ Ahead(m_flowList, p[1], p[2]) => lead[p] \in {-1, 0}
       /\ Ahead(m_flowList, p[2], p[1]) => lead[p] \in {0, 1}

LEMMA PairFlows == \A p \in Pairs : p[1] \in Flows /\ p[2] \in Flows
BY DEF Pairs

\* A flow that joins starts level with those in the list, whatever it sent
\* before, and behind them.
LEMMA EnqueueRounds ==
  ASSUME IInv, RoundInv, NEW f \in Flows, NEW s \in Sizes, FairEnqueue(f, s)
  PROVE  RoundInv'
<1> DEFINE l == m_flowList
<1>1. /\ l \in Seq(Flows) /\ lead \in [Pairs -> Int]
      /\ lead' = [p \in Pairs |-> IF Both(p) THEN lead[p] ELSE 0] /\ Join(f)
      /\ m_status \in [Flows -> {"SFQ_EMPTY_SLOT", "SFQ_IN_USE"}]
  BY DEF IInv, TypeOK, RoundInv, FairEnqueue, Enqueue
<1>2. ASSUME NEW p \in Pairs PROVE lead'[p] = IF Both(p) THEN lead[p] ELSE 0
  BY <1>1
<1>3. lead' \in [Pairs -> Int]
  BY <1>1
<1>4. ASSUME NEW p \in Pairs, Both(p), NEW x, NEW y, {x, y} = {p[1], p[2]},
             Ahead(m_flowList', x, y)
      PROVE  Ahead(l, x, y)
  <2>1. CASE m_status[f] = "SFQ_EMPTY_SLOT"
    <3>1. m_flowList' = Append(l, f)
      BY <1>1, <2>1 DEF Join
    <3>2. y # f
      BY <1>4, <2>1 DEF Both
    <3> QED
      BY <1>1, <1>4, <3>1, <3>2, AheadAppend
  <2>2. CASE m_status[f] # "SFQ_EMPTY_SLOT"
    BY <1>1, <1>4, <2>2 DEF Join
  <2> QED
    BY <2>1, <2>2
<1>5. ASSUME NEW p \in Pairs
      PROVE  /\ Ahead(m_flowList', p[1], p[2]) => lead'[p] \in {-1, 0}
             /\ Ahead(m_flowList', p[2], p[1]) => lead'[p] \in {0, 1}
  <2>1. CASE Both(p)
    <3>1. /\ Ahead(m_flowList', p[1], p[2]) => Ahead(l, p[1], p[2])
          /\ Ahead(m_flowList', p[2], p[1]) => Ahead(l, p[2], p[1])
      BY <1>4, <2>1
    <3> QED
      BY <1>2, <2>1, <3>1 DEF RoundInv
  <2>2. CASE ~ Both(p)
    BY <1>2, <2>2
  <2> QED
    BY <2>1, <2>2
<1> QED
  BY <1>3, <1>5 DEF RoundInv, Ahead

\* The flow that sends was level or one behind; it is now level or one ahead,
\* and behind all others in the list.
LEMMA ServeRounds ==
  ASSUME IInv, RoundInv, FairServe
  PROVE  RoundInv'
<1> DEFINE l == m_flowList
           f == Head(m_flowList)
<1>1. /\ l \in Seq(Flows) /\ l # <<>> /\ Distinct(l) /\ lead \in [Pairs -> Int]
      /\ m_flowList' = Append(Tail(l), f) /\ m_status' = m_status
      /\ lead' = [p \in Pairs |-> IF ~ Both(p) THEN 0
                                  ELSE IF p[1] = f THEN lead[p] + 1
                                  ELSE IF p[2] = f THEN lead[p] - 1
                                  ELSE lead[p]]
  BY FlowListSoundDef DEF IInv, TypeOK, RoundInv, FairServe, ServeFlow, Rotated
<1>2. /\ f \in Flows /\ Tail(l) \in Seq(Flows)
      /\ \A g \in Flows : In(g, Tail(l)) <=> (g # f /\ In(g, l))
  BY <1>1, ListTail
<1>3. lead' \in [Pairs -> Int]
  BY <1>1
<1>4. ASSUME NEW x \in Flows, NEW y \in Flows, Ahead(m_flowList', x, y)
      PROVE  x # f /\ (Ahead(l, x, y) \/ y = f)
  <2>1. In(x, Tail(l)) /\ (Ahead(Tail(l), x, y) \/ y = f)
    BY <1>1, <1>2, <1>4, AheadAppend
  <2> QED
    BY <1>1, <1>2, <2>1, AheadTail
<1> HIDE DEF l, f
<1>5. ASSUME NEW p \in Pairs, Both(p)
      PROVE  /\ Ahead(m_flowList', p[1], p[2]) => lead'[p] \in {-1, 0}
             /\ Ahead(m_flowList', p[2], p[1]) => lead'[p] \in {0, 1}
  <2>1. p[1] \in Flows /\ p[2] \in Flows /\ p[1] # p[2] /\ In(p[1], l) /\ In(p[2], l)
    BY <1>5, PairFlows, FlowListSoundDef DEF Both, IInv, l
  <2>2. /\ Ahead(l, p[1], p[2]) => lead[p] \in {-1, 0}
        /\ Ahead(l, p[2], p[1]) => lead[p] \in {0, 1}
    BY <1>5 DEF RoundInv, l
  <2>3. CASE p[1] = f
    <3>1. lead'[p] = lead[p] + 1
      BY <1>1, <1>5, <2>3
    <3>2. Ahead(l, p[1], p[2])
      BY <1>1, <2>1, <2>3, HeadAhead DEF f, l
    <3>3. ~ Ahead(m_flowList', p[1], p[2])
      BY <1>4, <2>1, <2>3
    <3> QED
      BY <2>2, <3>1, <3>2, <3>3
  <2>4. CASE p[2] = f
    <3>1. lead'[p] = lead[p] - 1
      BY <1>1, <1>5, <2>1, <2>4
    <3>2. Ahead(l, p[2], p[1])
      BY <1>1, <2>1, <2>4, HeadAhead DEF f, l
    <3>3. ~ Ahead(m_flowList', p[2], p[1])
      BY <1>4, <2>1, <2>4
    <3> QED
      BY <2>2, <3>1, <3>2, <3>3
  <2>5. CASE p[1] # f /\ p[2] # f
    <3>1. lead'[p] = lead[p]
      BY <1>1, <1>5, <2>5
    <3>2. /\ Ahead(m_flowList', p[1], p[2]) => Ahead(l, p[1], p[2])
          /\ Ahead(m_flowList', p[2], p[1]) => Ahead(l, p[2], p[1])
      BY <1>4, <2>1, <2>5
    <3> QED
      BY <2>2, <3>1, <3>2
  <2> QED
    BY <2>3, <2>4, <2>5
<1>6. \A p \in Pairs : Both(p)' <=> Both(p)
  BY <1>1 DEF Both
<1> QED
  BY <1>3, <1>5, <1>6 DEF RoundInv, Ahead, Both

\* A flow that leaves the list has no more to compare; the others keep their
\* places.
LEMMA OtherRounds ==
  ASSUME IInv, RoundInv, FairOther
  PROVE  RoundInv'
<1> DEFINE l == m_flowList
<1>1. l \in Seq(Flows) /\ lead' = lead
  BY DEF IInv, TypeOK, FairOther
<1>2. CASE UNCHANGED <<m_flowList, m_status>>
  BY <1>1, <1>2 DEF RoundInv, Both, Ahead
<1>3. CASE SkipFlow
  <2>1. /\ l # <<>> /\ m_flowList' = Tail(l)
        /\ m_status' = [m_status EXCEPT ![Head(l)] = "SFQ_EMPTY_SLOT"]
        /\ m_status \in [Flows -> {"SFQ_EMPTY_SLOT", "SFQ_IN_USE"}] /\ Head(l) \in Flows
    BY <1>1, <1>3 DEF SkipFlow, RemoveFlow, IInv, TypeOK
  <2>2. \A p \in Pairs : Both(p)' => Both(p)
    BY <2>1, PairFlows DEF Both
  <2>3. \A x, y : Ahead(m_flowList', x, y) => Ahead(l, x, y)
    BY <1>1, <2>1, AheadTail
  <2>4. \A p \in Pairs : Both(p)' =>
          /\ Ahead(m_flowList', p[1], p[2]) => lead'[p] \in {-1, 0}
          /\ Ahead(m_flowList', p[2], p[1]) => lead'[p] \in {0, 1}
    BY <1>1, <2>2, <2>3 DEF RoundInv
  <2> QED
    BY <1>1, <2>4 DEF RoundInv, Ahead, Both
<1> QED
  BY <1>2, <1>3 DEF FairOther, DequeueRequeued, ReturnNull, CallDoDequeue

\* Of two flows in the list together neither is ever more than one packet
\* ahead, for any number of flows, limits and packets.
THEOREM PacketsAlternateCorrect == FairnessSpec => []PacketsAlternate
<1>1. FairInit => IInv /\ RoundInv
  BY InitIInv DEF FairInit, Init, RoundInv, Both
<1>2. IInv /\ RoundInv /\ [FairNext]_fairVars => IInv' /\ RoundInv'
  <2> SUFFICES ASSUME IInv, RoundInv, [FairNext]_fairVars PROVE IInv' /\ RoundInv'
    OBVIOUS
  <2>1. [Next]_vars
    BY DEF FairNext, FairEnqueue, FairServe, FairOther, Next, fairVars, vars
  <2>2. IInv'
    BY <2>1, NextIInv
  <2>3. CASE UNCHANGED fairVars
    BY <2>2, <2>3 DEF fairVars, vars, RoundInv, Both, Ahead
  <2>4. CASE FairNext
    BY <2>2, <2>4, EnqueueRounds, ServeRounds, OtherRounds DEF FairNext
  <2> QED
    BY <2>2, <2>3, <2>4
<1>3. IInv /\ RoundInv => PacketsAlternate
  <2> SUFFICES ASSUME IInv, RoundInv, NEW p \in Pairs, Both(p) PROVE lead[p] \in -1 .. 1
    BY DEF PacketsAlternate
  <2>1. /\ In(p[1], m_flowList) /\ In(p[2], m_flowList) /\ p[1] # p[2]
        /\ m_flowList \in Seq(Flows)
    BY PairFlows, FlowListSoundDef DEF Both, IInv, TypeOK
  <2>2. Ahead(m_flowList, p[1], p[2]) \/ Ahead(m_flowList, p[2], p[1])
    BY <2>1, OneAhead
  <2> QED
    BY <2>2 DEF RoundInv
<1> QED
  BY <1>1, <1>2, <1>3, PTL DEF FairnessSpec

(***************************************************************************)
(* The refinement                                                          *)
(***************************************************************************)

Refused(b) == b.nTotalDroppedBeforeEnqueue

\* An overflow drop concerns neither the packet set aside nor the refusals.
LEMMA DropFields ==
  ASSUME NEW b \in Base(Item)
  PROVE  LET c == DropAfterDequeue(PacketDequeued(b))
         IN  c.m_requeued = b.m_requeued /\ Refused(c) = Refused(b)
<1>1. CASE b.m_peeked
  BY <1>1 DEF DropAfterDequeue, PacketDequeued, CountDequeued, Base, Refused
<1>2. CASE ~ b.m_peeked
  BY <1>2 DEF DropAfterDequeue, PacketDequeued, CountDequeued, Base, Refused
<1> QED
  BY <1>1, <1>2

\* Taking a packet out, handing out the one set aside and setting one aside
\* leave the refusals alone.
LEMMA OutFields ==
  ASSUME NEW b \in Base(Item), NEW x \in Item \cup {NoItem}
  PROVE  /\ PacketDequeued(b).m_requeued = b.m_requeued
         /\ Refused(PacketDequeued(b)) = Refused(b)
         /\ KeepPeeked(b, x).m_requeued = x /\ Refused(KeepPeeked(b, x)) = Refused(b)
         /\ KeepPeeked(PacketDequeued(b), x).m_requeued = x
         /\ Refused(KeepPeeked(PacketDequeued(b), x)) = Refused(b)
         /\ ReleaseRequeued(b).m_requeued = NoItem
         /\ Refused(ReleaseRequeued(b)) = Refused(b)
<1>1. CASE b.m_peeked
  BY <1>1 DEF KeepPeeked, PacketDequeued, ReleaseRequeued, CountDequeued, Base, Refused
<1>2. CASE ~ b.m_peeked
  BY <1>2 DEF KeepPeeked, PacketDequeued, ReleaseRequeued, CountDequeued, Base, Refused
<1> QED
  BY <1>1, <1>2

\* An arrival is an arrival of the abstract disc: it discards a packet only when
\* the disc is full, and then the oldest of some flow.
LEMMA EnqueueArrives ==
  ASSUME IInv, NEW f \in Flows, NEW s \in Sizes, Enqueue(f, s)
  PROVE  \E x \in Item : Disc!Arrive(f, x)
<1> DEFINE item == [flow |-> f, size |-> s, id |-> root.nTotalReceived + 1]
           b == PacketReceived(root)
           queues == QueuesWith(f, item)
           bytes == BytesWith(f, item)
           counted == IF ChildAccepts(f)
                      THEN PacketEnqueued(b) ELSE DropBeforeEnqueue(b)
<1>1. /\ root \in Base(Item) /\ fifo \in Queues /\ m_nBytes \in [Flows -> Nat]
      /\ \A g \in Flows : BytesOK(fifo[g], m_nBytes[g])
      /\ m_classes \in Seq(Flows)
  BY DEF IInv, TypeOK, Queues
<1>2. item \in Item
  BY <1>1, LimitsAssumption DEF Item, Enqueue, Base
<1>3. /\ counted \in Base(Item)
      /\ counted.m_requeued = root.m_requeued
      /\ Refused(counted) = IF ChildAccepts(f) THEN Refused(root) ELSE Refused(root) + 1
  BY <1>1, StoreBooks, RefuseBooks DEF Refused
<1>4. /\ queues \in Queues /\ bytes \in [Flows -> Nat]
      /\ queues[f] # <<>>
      /\ \A g \in Flows : BytesOK(queues[g], bytes[g])
  BY <1>1, <1>2, StoredBytes
<1>5. queues = IF ChildAccepts(f) THEN [fifo EXCEPT ![f] = Append(@, item)] ELSE fifo
  BY DEF QueuesWith
<1>6. ChildAccepts(f) <=> Len(fifo[f]) < ChildLimit
  BY <1>1, LimitsAssumption DEF ChildAccepts, Queues
<1>7. MustDrop <=> ~ (Disc!Count(fifo) + Refused(root) < MaxSize)
  <2>1. Disc!Count(fifo) = NStored
    BY DEF Disc!Count, NStored, SlotsOf, Disc!Cardinality, Cardinality
  <2>2. m_currentQueueSize = NStored + Refused(root)
    BY DEF IInv, BooksInv, Refused
  <2>3. m_currentQueueSize \in Nat /\ MaxSize \in Nat
    BY LimitsAssumption DEF IInv, TypeOK
  <2> QED
    BY <2>1, <2>2, <2>3 DEF MustDrop
<1>8. /\ pc = "idle" /\ pc' = pc
      /\ IF MustDrop
         THEN \E v \in Flows :
                /\ IsLongest(v, ClassesWith(f), bytes)
                /\ fifo' = [queues EXCEPT ![v] = Tail(@)]
                /\ root' = DropAfterDequeue(PacketDequeued(counted))
         ELSE fifo' = queues /\ root' = counted
  BY <1>2 DEF Enqueue, QueuesWith, BytesWith, DropFromLongestQueue
<1> HIDE DEF item, b, queues, bytes, counted
<1>9. /\ root'.m_requeued = root.m_requeued
      /\ Refused(root') = IF ChildAccepts(f) THEN Refused(root) ELSE Refused(root) + 1
  BY <1>3, <1>8, DropFields
<1>10. IF Disc!Count(fifo) + Refused(root) < MaxSize
       THEN fifo' = queues
       ELSE \E v \in Flows : queues[v] # <<>> /\ fifo' = [queues EXCEPT ![v] = Tail(@)]
  <2>1. \A v \in Flows : IsLongest(v, ClassesWith(f), bytes) => queues[v] # <<>>
    BY <1>1, <1>4, VictimStores
  <2> QED
    BY <1>7, <1>8, <2>1
<1>11. Disc!Arrive(f, item)
  BY <1>5, <1>6, <1>8, <1>9, <1>10 DEF Disc!Arrive, Refused
<1> QED
  BY <1>2, <1>11

\* Every step of SfqQueueDisc is a step of the abstract disc or leaves it alone.
LEMMA NextImplements ==
  ASSUME IInv, [Next]_vars
  PROVE  [Disc!Next]_(Disc!vars)
<1>1. root \in Base(Item) /\ fifo \in [Flows -> Seq(Item)] /\ m_flowList \in Seq(Flows)
  BY DEF IInv, TypeOK
<1>2. ASSUME NEW f \in Flows, NEW s \in Sizes, Enqueue(f, s) PROVE Disc!Next
  BY <1>2, EnqueueArrives DEF Disc!Next
<1>3. CASE DequeueRequeued
  <2>1. /\ pc = "idle" /\ pc' = pc /\ root.m_requeued # NoItem /\ fifo' = fifo
        /\ root'.m_requeued = NoItem /\ Refused(root') = Refused(root)
    BY <1>1, <1>3, OutFields DEF DequeueRequeued
  <2> QED
    BY <2>1 DEF Disc!Next, Disc!Release, Refused
<1>4. ASSUME NEW peek \in BOOLEAN, CallDoDequeue(peek) PROVE Disc!Next
  <2>1. /\ pc = "idle" /\ pc' = "loop" /\ root.m_requeued = NoItem /\ fifo' = fifo
        /\ root'.m_requeued = root.m_requeued /\ Refused(root') = Refused(root)
    BY <1>1, <1>4 DEF CallDoDequeue, Base, Refused
  <2> QED
    BY <2>1 DEF Disc!Next, Disc!Call, Refused
<1>5. CASE ReturnNull
  <2>1. /\ pc = "loop" /\ pc' = "idle" /\ root.m_requeued = NoItem /\ fifo' = fifo
        /\ root'.m_requeued = NoItem /\ Refused(root') = Refused(root)
    BY <1>1, <1>5, OutFields DEF ReturnNull, IInv, BooksInv
  <2>2. \A f \in Flows : fifo[f] = <<>>
    <3>1. DOMAIN m_flowList = {}
      BY <1>5 DEF ReturnNull
    <3> QED
      BY <3>1 DEF IInv, FlowListSound
  <2> QED
    BY <2>1, <2>2 DEF Disc!Next, Disc!Return, Disc!ReturnNull, Refused
<1>6. CASE ServeFlow
  <2> DEFINE f == Head(m_flowList)
             x == Head(fifo[f])
  <2>1. f \in Flows /\ fifo[f] # <<>> /\ fifo[f] \in Seq(Item)
    BY <1>1, <1>6 DEF ServeFlow
  <2>2. /\ fifo' = [fifo EXCEPT ![f] = Tail(@)]
        /\ root' = IF root.m_peeked THEN KeepPeeked(PacketDequeued(root), x)
                   ELSE PacketDequeued(root)
        /\ pc = "loop" /\ pc' = "idle" /\ root.m_requeued = NoItem
    BY <1>6 DEF ServeFlow, IInv, BooksInv
  <2>3. x \in Item
    BY <2>1
  <2>4. root'.m_requeued \in {NoItem, x} /\ Refused(root') = Refused(root)
    BY <1>1, <2>2, <2>3, OutFields
  <2> HIDE DEF f
  <2>5. Disc!Yield(f)
    BY <2>1, <2>2, <2>4 DEF Disc!Yield, Refused
  <2> QED
    BY <2>1, <2>5 DEF Disc!Next, Disc!Return
<1>7. CASE SkipFlow \/ UNCHANGED vars
  BY <1>7 DEF SkipFlow, vars, Disc!vars
<1> QED
  BY <1>2, <1>3, <1>4, <1>5, <1>6, <1>7 DEF Next

\* SfqQueueDisc implements a work-conserving disc, for every value of its
\* constants: order within a flow, null only when empty although empty flows
\* stay in the list, drops only when full or by a full child queue.
THEOREM ImplementsWorkConserving == Spec => Disc!Spec
<1>1. Init => Disc!Init
  BY DEF Init, NewBase, Disc!Init
<1>2. IInv /\ [Next]_vars => [Disc!Next]_(Disc!vars)
  BY NextImplements
<1> QED
  BY <1>1, <1>2, InitIInv, NextIInv, PTL DEF Spec, Disc!Spec

(***************************************************************************)
(* Overflow drops.  The scan reads m_nBytes of the flows that have a class.*)
(***************************************************************************)

\* Only a flow with a class has packets.
ClassInv ==
  \A g \in Flows : fifo[g] # <<>> =>
    \E i \in DOMAIN m_classes : m_classes[i] = g

\* The count of a child is what adding up the sizes gives.
LEMMA CountIsSum ==
  ASSUME NEW q \in Seq(Item), NEW n \in Nat, BytesOK(q, n)
  PROVE  BytesOf(q) = n
<1> DEFINE N == Len(q)
           next(g) == [i \in 0 .. N |-> IF i = 0 THEN 0 ELSE g[i - 1] + q[i].size]
           p == BytesUpTo(q)
<1>1. p = CHOOSE g : g = next(g)
  BY Zenon DEF BytesUpTo
<1>2. PICK c \in [0 .. N -> Nat] :
        /\ c[0] = 0 /\ c[N] = n
        /\ \A i \in 1 .. N : c[i] = c[i - 1] + q[i].size
  BY DEF BytesOK
<1>3. N \in Nat
  OBVIOUS
<1>4. c = next(c)
  BY <1>2, <1>3
<1>5. p = next(p)
  <2> HIDE DEF p, next
  <2> QED
    BY <1>1, <1>4, Zenon
<1>6. p[0] = 0 /\ \A i \in 1 .. N : p[i] = p[i - 1] + q[i].size
  <2> HIDE DEF p
  <2> QED
    BY <1>3, <1>5
<1> HIDE DEF p, next
<1> DEFINE T == {i \in 0 .. N : p[i] = c[i]}
<1>7. 0 \in T
  BY <1>2, <1>3, <1>6
<1>8. ASSUME NEW i \in 0 .. N - 1, i \in T PROVE i + 1 \in T
  <2>1. i + 1 \in 1 .. N /\ i + 1 - 1 = i
    BY <1>3
  <2> QED
    BY <1>2, <1>3, <1>6, <1>8, <2>1
<1>9. 0 .. N \subseteq T
  <2> HIDE DEF T
  <2> QED
    BY <1>3, <1>7, <1>8, Climb
<1>10. p[N] = c[N]
  BY <1>3, <1>9
<1> QED
  BY <1>2, <1>10 DEF BytesOf, p

\* The class of an arriving packet exists when the drop looks for a victim, and
\* no class is ever removed.
LEMMA ClassesGrow ==
  ASSUME m_classes \in Seq(Flows), NEW f \in Flows
  PROVE  /\ \E i \in DOMAIN ClassesWith(f) : ClassesWith(f)[i] = f
         /\ \A g \in Flows : (\E i \in DOMAIN m_classes : m_classes[i] = g) =>
              \E i \in DOMAIN ClassesWith(f) : ClassesWith(f)[i] = g
<1>1. CASE \E i \in DOMAIN m_classes : m_classes[i] = f
  BY <1>1 DEF ClassesWith
<1>2. CASE ~ \E i \in DOMAIN m_classes : m_classes[i] = f
  <2>1. ClassesWith(f) = Append(m_classes, f)
    BY <1>2 DEF ClassesWith
  <2>2. /\ Len(m_classes) + 1 \in DOMAIN Append(m_classes, f)
        /\ Append(m_classes, f)[Len(m_classes) + 1] = f
    OBVIOUS
  <2>3. \A i \in DOMAIN m_classes : /\ i \in DOMAIN Append(m_classes, f)
                                    /\ Append(m_classes, f)[i] = m_classes[i]
    OBVIOUS
  <2> QED
    BY <2>1, <2>2, <2>3
<1> QED
  BY <1>1, <1>2

\* An arrival: what it leaves in the queues, and the victim of the drop.
LEMMA EnqueueDrops ==
  ASSUME IInv, ClassInv, NEW f \in Flows, NEW s \in Sizes, Enqueue(f, s)
  PROVE  ClassInv' /\ DropHitsLongest
<1> DEFINE item == [flow |-> f, size |-> s, id |-> root.nTotalReceived + 1]
           b == PacketReceived(root)
           queues == QueuesWith(f, item)
           bytes == BytesWith(f, item)
           counted == IF ChildAccepts(f)
                      THEN PacketEnqueued(b) ELSE DropBeforeEnqueue(b)
<1>1. /\ root \in Base(Item) /\ fifo \in Queues /\ m_nBytes \in [Flows -> Nat]
      /\ \A g \in Flows : BytesOK(fifo[g], m_nBytes[g])
      /\ m_classes \in Seq(Flows)
  BY DEF IInv, TypeOK, Queues
<1>2. item \in Item
  BY <1>1, LimitsAssumption DEF Item, Enqueue, Base
<1>3. /\ counted \in Base(Item)
      /\ counted.nTotalReceived = root.nTotalReceived + 1
      /\ counted.nTotalDroppedAfterDequeue = root.nTotalDroppedAfterDequeue
  BY <1>1, StoreBooks, RefuseBooks
<1>4. /\ queues \in Queues /\ bytes \in [Flows -> Nat]
      /\ queues[f] # <<>>
      /\ \A g \in Flows : g # f => queues[g] = fifo[g]
      /\ \A g \in Flows : BytesOK(queues[g], bytes[g])
  BY <1>1, <1>2, StoredBytes
<1>5. /\ m_classes' = ClassesWith(f)
      /\ IF MustDrop
         THEN \E v \in Flows :
                /\ IsLongest(v, ClassesWith(f), bytes)
                /\ fifo' = [queues EXCEPT ![v] = Tail(@)]
                /\ root' = DropAfterDequeue(PacketDequeued(counted))
         ELSE fifo' = queues /\ root' = counted
  BY <1>2 DEF Enqueue, QueuesWith, BytesWith, DropFromLongestQueue
<1>6. queues = IF ChildAccepts(f) THEN [fifo EXCEPT ![f] = Append(@, item)] ELSE fifo
  BY DEF QueuesWith
<1>7. ASSUME root'.nTotalReceived = root.nTotalReceived + 1, NEW v \in Flows,
             queues[v] # <<>>, fifo' = [queues EXCEPT ![v] = Tail(@)],
             \A g \in Flows : BytesOf(queues[g]) <= BytesOf(queues[v])
      PROVE  TakesFromLongest(f, s, v)
  BY <1>6, <1>7 DEF TakesFromLongest
<1> HIDE DEF item, b, queues, bytes, counted
<1>8. \A g \in Flows : queues[g] # <<>> =>
        \E i \in DOMAIN m_classes' : m_classes'[i] = g
  <2>1. /\ \E i \in DOMAIN ClassesWith(f) : ClassesWith(f)[i] = f
        /\ \A g \in Flows : (\E i \in DOMAIN m_classes : m_classes[i] = g) =>
             \E i \in DOMAIN ClassesWith(f) : ClassesWith(f)[i] = g
    BY <1>1, ClassesGrow
  <2>2. \A g \in Flows : queues[g] # <<>> =>
          g = f \/ \E i \in DOMAIN m_classes : m_classes[i] = g
    BY <1>4 DEF ClassInv
  <2>3. \A g \in Flows : queues[g] # <<>> =>
          \E i \in DOMAIN ClassesWith(f) : ClassesWith(f)[i] = g
    BY <2>1, <2>2, Zenon
  <2> QED
    BY <1>5, <2>3, Zenon
<1>9. CASE ~ MustDrop
  BY <1>3, <1>5, <1>8, <1>9 DEF ClassInv, DropHitsLongest
<1>10. CASE MustDrop
  <2>1. PICK v \in Flows :
          /\ IsLongest(v, ClassesWith(f), bytes)
          /\ fifo' = [queues EXCEPT ![v] = Tail(@)]
          /\ root' = DropAfterDequeue(PacketDequeued(counted))
    BY <1>5, <1>10
  <2>2. queues[v] # <<>>
    BY <1>1, <1>4, <2>1, VictimStores
  <2>3. ClassInv'
    <3>1. \A g \in Flows : fifo'[g] # <<>> => queues[g] # <<>>
      BY <1>4, <2>1, <2>2 DEF Queues
    <3> QED
      BY <1>8, <3>1 DEF ClassInv
  <2>4. \A g \in Flows : bytes[g] <= bytes[v]
    <3> SUFFICES ASSUME NEW g \in Flows PROVE bytes[g] <= bytes[v]
      OBVIOUS
    <3>1. CASE queues[g] # <<>>
      BY <1>5, <1>8, <2>1, <3>1 DEF IsLongest
    <3>2. CASE queues[g] = <<>>
      <4>1. bytes[g] \in Nat /\ bytes[v] \in Nat /\ ~ (bytes[g] > 0)
        BY <1>4, <3>2, BytesPositive, ItemsSized DEF Queues
      <4> QED
        BY <4>1
    <3> QED
      BY <3>1, <3>2
  <2>5. \A g \in Flows : BytesOf(queues[g]) = bytes[g]
    BY <1>4, CountIsSum DEF Queues
  <2>6. root'.nTotalReceived = root.nTotalReceived + 1
    <3>1. CASE counted.m_peeked
      BY <1>3, <2>1, <3>1
      DEF DropAfterDequeue, PacketDequeued, CountDequeued, Base
    <3>2. CASE ~ counted.m_peeked
      BY <1>3, <2>1, <3>2
      DEF DropAfterDequeue, PacketDequeued, CountDequeued, Base
    <3> QED
      BY <3>1, <3>2
  <2>7. TakesFromLongest(f, s, v)
    BY <1>7, <2>1, <2>2, <2>4, <2>5, <2>6
  <2> QED
    BY <2>3, <2>7 DEF DropHitsLongest
<1> QED
  BY <1>9, <1>10

\* No other step counts a drop of a packet that was stored.
LEMMA NextDrops == IInv /\ ClassInv /\ [Next]_vars => ClassInv' /\ [DropHitsLongest]_vars
<1> SUFFICES ASSUME IInv, ClassInv, [Next]_vars PROVE ClassInv' /\ [DropHitsLongest]_vars
  OBVIOUS
<1>1. ASSUME NEW f \in Flows, NEW s \in Sizes, Enqueue(f, s)
      PROVE  ClassInv' /\ DropHitsLongest
  BY <1>1, EnqueueDrops
<1>2. root \in Base(Item) /\ fifo \in [Flows -> Seq(Item)] /\ m_flowList \in Seq(Flows)
  BY DEF IInv, TypeOK
<1>3. CASE DequeueRequeued
  <2>1. UNCHANGED <<fifo, m_classes>>
    BY <1>3 DEF DequeueRequeued
  <2>2. ReleaseRequeued(root).nTotalDroppedAfterDequeue = root.nTotalDroppedAfterDequeue
    BY <1>2 DEF ReleaseRequeued, CountDequeued, Base
  <2> QED
    BY <1>3, <2>1, <2>2 DEF DequeueRequeued, ClassInv, DropHitsLongest
<1>4. ASSUME NEW peek \in BOOLEAN, CallDoDequeue(peek)
      PROVE  ClassInv' /\ DropHitsLongest
  BY <1>2, <1>4 DEF CallDoDequeue, ClassInv, DropHitsLongest, Base
<1>5. CASE ReturnNull
  BY <1>2, <1>5 DEF ReturnNull, KeepPeeked, ClassInv, DropHitsLongest, Base
<1>6. CASE ServeFlow
  <2> DEFINE f == Head(m_flowList)
             x == Head(fifo[f])
             c == PacketDequeued(root)
  <2>1. f \in Flows /\ fifo[f] # <<>>
    BY <1>2, <1>6 DEF ServeFlow
  <2>2. /\ fifo' = [fifo EXCEPT ![f] = Tail(@)] /\ m_classes' = m_classes
        /\ root' = IF root.m_peeked THEN KeepPeeked(c, x) ELSE c
    BY <1>6 DEF ServeFlow
  <2>3. \A g \in Flows : fifo'[g] # <<>> => fifo[g] # <<>>
    BY <1>2, <2>1, <2>2
  <2>4. /\ c.nTotalDroppedAfterDequeue = root.nTotalDroppedAfterDequeue
        /\ KeepPeeked(c, x).nTotalDroppedAfterDequeue = root.nTotalDroppedAfterDequeue
    <3>1. CASE root.m_peeked
      BY <1>2, <3>1 DEF PacketDequeued, KeepPeeked, Base
    <3>2. CASE ~ root.m_peeked
      BY <1>2, <3>2 DEF PacketDequeued, CountDequeued, KeepPeeked, Base
    <3> QED
      BY <3>1, <3>2
  <2> HIDE DEF f, x, c
  <2>5. root'.nTotalDroppedAfterDequeue = root.nTotalDroppedAfterDequeue
    BY <2>2, <2>4
  <2> QED
    BY <2>2, <2>3, <2>5 DEF ClassInv, DropHitsLongest
<1>7. CASE SkipFlow
  BY <1>7 DEF SkipFlow, ClassInv, DropHitsLongest
<1>8. CASE UNCHANGED vars
  BY <1>8 DEF vars, ClassInv
<1> QED
  BY <1>1, <1>3, <1>4, <1>5, <1>6, <1>7, <1>8 DEF Next

\* An overflow drop takes the oldest packet of a flow that really holds the most
\* bytes, for every value of the constants: the count that DropFromLongestQueue
\* reads is the sum of the sizes stored, and a flow it does not look at is empty.
THEOREM DropsFromLongestCorrect == Spec => DropsFromLongest
<1>1. Init => ClassInv
  BY DEF Init, ClassInv
<1> QED
  BY <1>1, InitIInv, NextIInv, NextDrops, PTL DEF Spec, DropsFromLongest
=============================================================================
