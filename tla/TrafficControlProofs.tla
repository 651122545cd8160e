------------------------ MODULE TrafficControlProofs ------------------------
(***************************************************************************)
(* Proofs about TrafficControl for every device, every limit of disc and   *)
(* device, every word size and any number of packets.                      *)
(*                                                                         *)
(* The configuration is a variable that never changes.  What is proved     *)
(* about a device queue is therefore stated with the configuration as a    *)
(* parameter, k.                                                           *)
(***************************************************************************)
EXTENDS TrafficControl, FiniteSetTheorems, WellFoundedInduction, TLAPS

(***************************************************************************)
(* Natural numbers                                                         *)
(***************************************************************************)

\* A set of natural numbers has a smallest element: its elements are compared
\* by the sets of the numbers below them, which are finite.
LEMMA SmallestExists ==
  ASSUME NEW T \in SUBSET Nat, T # {}
  PROVE  \E n \in T : \A m \in T : n <= m
<1> DEFINE R == OpToRel(<, Nat)
<1>1. \E n \in T : \A m \in T : ~ (<<m, n>> \in R)
  BY NatLessThanWellFounded, WFMin, Zenon
<1>2. PICK n \in T : \A m \in T : ~ (<<m, n>> \in R)
  BY <1>1, Zenon
<1>3. R = {p \in Nat \X Nat : p[1] < p[2]}
  BY Zenon DEF OpToRel
<1> HIDE DEF R
<1>4. \A m \in T : <<m, n>> \in Nat \X Nat /\ ~ (m < n)
  BY <1>2, <1>3
<1>5. \A m \in T : n \in Nat /\ m \in Nat /\ ~ (m < n)
  BY <1>4
<1>6. \A m \in T : n <= m
  BY <1>5
<1> QED
  BY <1>6, Zenon

\* Induction on 0 .. n, for the set T of the numbers that have the property.
LEMMA Climb ==
  ASSUME NEW n \in Nat, NEW T, 0 \in T,
         \A k \in 0 .. n - 1 : k \in T => k + 1 \in T
  PROVE  0 .. n \subseteq T
<1> DEFINE out == (0 .. n) \ T
<1> SUFFICES ASSUME out # {} PROVE FALSE
  OBVIOUS
<1>1. out \in SUBSET Nat
  OBVIOUS
<1>2. PICK m \in out : \A k \in out : m <= k
  BY <1>1, SmallestExists, Zenon
<1>3. m \in 1 .. n /\ m - 1 \in 0 .. n - 1
  BY <1>2
<1>4. m - 1 \in T
  BY <1>2, <1>3
<1>5. m - 1 + 1 \in T
  BY <1>3, <1>4, Zenon
<1> QED
  BY <1>2, <1>3, <1>5

(***************************************************************************)
(* Counting packets: q says how many belong to each queue of F             *)
(***************************************************************************)

SlotsIn(F, q) == UNION {{f} \X (1 .. q[f]) : f \in F}

Counted(F, q) == \A f \in F : q[f] \in Nat

\* They are finitely many.
LEMMA SlotsFinite ==
  ASSUME NEW F, IsFiniteSet(F), NEW q, Counted(F, q)
  PROVE  IsFiniteSet(SlotsIn(F, q)) /\ Cardinality(SlotsIn(F, q)) \in Nat
<1> DEFINE part(f) == {f} \X (1 .. q[f])
           parts == {part(f) : f \in F}
           fn == [f \in F |-> part(f)]
<1>1. fn \in Surjection(F, parts)
  BY DEF Surjection
<1>2. IsFiniteSet(parts)
  BY <1>1, FS_Surjection
<1>3. ASSUME NEW f \in F PROVE IsFiniteSet(part(f))
  <2>1. IsFiniteSet(1 .. q[f])
    BY FS_Interval DEF Counted
  <2>2. IsFiniteSet({f})
    BY FS_Singleton
  <2> QED
    BY <2>1, <2>2, FS_Product
<1>4. IsFiniteSet(UNION parts)
  BY <1>2, <1>3, FS_UNION
<1> QED
  BY <1>4, FS_CardinalityType DEF SlotsIn

\* There is one more in r than in q, in queue f.
OneMore(F, f, q, r) ==
  /\ Counted(F, q) /\ f \in F
  /\ r[f] = q[f] + 1
  /\ \A g \in F \ {f} : r[g] = q[g]

\* They are one more in all.
LEMMA CountMore ==
  ASSUME NEW F, IsFiniteSet(F), NEW q, NEW r, NEW f, OneMore(F, f, q, r)
  PROVE  Cardinality(SlotsIn(F, r)) = Cardinality(SlotsIn(F, q)) + 1
<1> DEFINE new == <<f, q[f] + 1>>
<1>1. \A g \in F : r[g] = IF g = f THEN q[g] + 1 ELSE q[g]
  BY DEF OneMore
<1>2. f \in F /\ \A g \in F : q[g] \in Nat
  BY DEF OneMore, Counted
<1>3. SlotsIn(F, r) = SlotsIn(F, q) \cup {new}
  BY <1>1, <1>2 DEF SlotsIn
<1>4. new \notin SlotsIn(F, q)
  BY <1>2 DEF SlotsIn
<1>5. IsFiniteSet(SlotsIn(F, q))
  BY <1>2, SlotsFinite DEF Counted
<1> QED
  BY <1>3, <1>4, <1>5, FS_AddElement

\* With every queue empty nothing is stored.
LEMMA CountEmpty ==
  ASSUME NEW F, NEW q, \A f \in F : q[f] = 0
  PROVE  Cardinality(SlotsIn(F, q)) = 0
<1>1. SlotsIn(F, q) = {}
  BY DEF SlotsIn
<1> QED
  BY <1>1, FS_EmptySet

(***************************************************************************)
(* Packets                                                                 *)
(***************************************************************************)

PacketsOf(k) == [txq : k.txQueues, size : Sizes, id : 1 .. MaxOffered]

\* A packet has a size of 1 to Mtu and is not the null pointer.
LEMMA PacketFacts ==
  ASSUME NEW k \in Configurations
  PROVE  /\ \A p \in PacketsOf(k) : p.size \in 1 .. Mtu /\ p.txq \in k.txQueues
         /\ NoItem \notin PacketsOf(k)
         /\ Mtu \in Nat /\ k.linkHeader \in Nat
BY SizesFitMtu, ConfigurationsAreReal, NoItemIsNull DEF PacketsOf

-----------------------------------------------------------------------------
(* The bytes in a device queue *)

PartialSums(k, s) ==
  LET sum[n \in 0 .. Len(s)] ==
        IF n = 0 THEN 0 ELSE sum[n - 1] + (s[n].size + k.linkHeader)
  IN  sum
Total(k, s) == PartialSums(k, s)[Len(s)]

\* f gives the bytes of each prefix of s.
SumsTo(k, s, f) ==
  /\ f \in [0 .. Len(s) -> Nat]
  /\ f[0] = 0
  /\ \A n \in 1 .. Len(s) : f[n] = f[n - 1] + (s[n].size + k.linkHeader)

\* Queue::m_nBytes, as the model computes it, is the total.
LEMMA BytesAreTotal == ASSUME NEW d PROVE BytesIn(d) = Total(conf, d.queue)
BY Zenon DEF BytesIn, BytesUpTo, Total, PartialSums, Wire, LinkHeader

\* Partial sums exist for every queue ...
LEMMA SumsExist ==
  ASSUME NEW k \in Configurations, NEW s \in Seq(PacketsOf(k))
  PROVE  \E f : SumsTo(k, s, f)
<1> DEFINE N == Len(s)
           w(n) == s[n].size + k.linkHeader
           upTo(m, f) == /\ f \in [0 .. m -> Nat] /\ f[0] = 0
                         /\ \A n \in 1 .. m : f[n] = f[n - 1] + w(n)
           T == {m \in 0 .. N : \E f : upTo(m, f)}
<1>1. N \in Nat /\ \A n \in 1 .. N : w(n) \in Nat
  BY PacketFacts
<1> HIDE DEF w
<1>2. 0 \in T
  <2>1. upTo(0, [i \in 0 .. 0 |-> 0])
    OBVIOUS
  <2> HIDE DEF upTo
  <2> QED
    BY <1>1, <2>1
<1>3. ASSUME NEW m \in 0 .. N - 1, m \in T PROVE m + 1 \in T
  <2>1. PICK f : upTo(m, f)
    BY <1>3
  <2> DEFINE g == [i \in 0 .. m + 1 |-> IF i = m + 1 THEN f[m] + w(m + 1) ELSE f[i]]
  <2>2. m + 1 \in 1 .. N /\ w(m + 1) \in Nat
    BY <1>1
  <2>3. g \in [0 .. m + 1 -> Nat] /\ g[0] = 0
    BY <2>1, <2>2
  <2>4. \A n \in 1 .. m + 1 : g[n] = g[n - 1] + w(n)
    BY <2>1, <2>2
  <2>5. upTo(m + 1, g)
    BY <2>3, <2>4
  <2> HIDE DEF upTo, g
  <2> QED
    BY <2>2, <2>5
<1>4. 0 .. N \subseteq T
  <2> HIDE DEF T
  <2> QED
    BY <1>1, <1>2, <1>3, Climb
<1>5. \E f : upTo(N, f)
  <2> HIDE DEF upTo
  <2>1. N \in 0 .. N
    BY <1>1
  <2> QED
    BY <1>4, <2>1
<1> QED
  BY <1>5 DEF SumsTo, w

\* ... and only one function gives them, the one the model defines.
LEMMA SumsUnique ==
  ASSUME NEW k \in Configurations, NEW s \in Seq(PacketsOf(k)),
         NEW f, SumsTo(k, s, f)
  PROVE  PartialSums(k, s) = f
<1> DEFINE N == Len(s)
           w(n) == s[n].size + k.linkHeader
           next(g) == [n \in 0 .. N |-> IF n = 0 THEN 0 ELSE g[n - 1] + w(n)]
           p == PartialSums(k, s)
<1>1. p = CHOOSE g : g = next(g)
  BY Zenon DEF PartialSums
<1>2. N \in Nat /\ \A n \in 1 .. N : w(n) \in Nat
  BY PacketFacts
<1>3. /\ f \in [0 .. N -> Nat] /\ f[0] = 0
      /\ \A n \in 1 .. N : f[n] = f[n - 1] + w(n)
  BY DEF SumsTo
<1> HIDE DEF w
<1>4. f = next(f)
  BY <1>2, <1>3
<1>5. p = next(p)
  <2> HIDE DEF p, next
  <2> QED
    BY <1>1, <1>4, Zenon
<1>6. /\ DOMAIN p = 0 .. N /\ p[0] = 0
      /\ \A n \in 1 .. N : p[n] = p[n - 1] + w(n)
  <2> HIDE DEF p
  <2> QED
    BY <1>2, <1>5
<1> HIDE DEF p, next
<1> DEFINE T == {n \in 0 .. N : p[n] = f[n]}
<1>7. 0 \in T
  BY <1>2, <1>3, <1>6
<1>8. ASSUME NEW n \in 0 .. N - 1, n \in T PROVE n + 1 \in T
  <2>1. n + 1 \in 1 .. N /\ n + 1 - 1 = n
    BY <1>2
  <2> QED
    BY <1>2, <1>3, <1>6, <1>8, <2>1
<1>9. 0 .. N \subseteq T
  <2> HIDE DEF T
  <2> QED
    BY <1>2, <1>7, <1>8, Climb
<1>10. \A n \in 0 .. N : p[n] = f[n]
  BY <1>9
<1>11. p = [n \in 0 .. N |-> p[n]]
  <2>1. p = [n \in 0 .. N |-> IF n = 0 THEN 0 ELSE p[n - 1] + w(n)]
    BY <1>5 DEF next
  <2> QED
    BY <2>1, Zenon
<1> QED
  BY <1>3, <1>10, <1>11 DEF p

\* The total of a queue follows an enqueue and a dequeue.
LEMMA TotalFacts ==
  ASSUME NEW k \in Configurations, NEW s \in Seq(PacketsOf(k))
  PROVE  /\ Total(k, s) \in Nat
         /\ s = <<>> => Total(k, s) = 0
         /\ \A p \in PacketsOf(k) :
              Total(k, Append(s, p)) = Total(k, s) + (p.size + k.linkHeader)
         /\ s # <<>> =>
              Total(k, Tail(s)) = Total(k, s) - (Head(s).size + k.linkHeader)
<1>1. PICK f : SumsTo(k, s, f)
  BY SumsExist
<1> DEFINE N == Len(s)
           h == k.linkHeader
<1>2. /\ N \in Nat /\ h \in Nat /\ \A n \in 1 .. N : s[n].size \in Nat
      /\ f \in [0 .. N -> Nat] /\ f[0] = 0
      /\ \A n \in 1 .. N : f[n] = f[n - 1] + (s[n].size + h)
  BY <1>1, PacketFacts DEF SumsTo
<1>3. Total(k, s) = f[N]
  BY <1>1, SumsUnique, Zenon DEF Total
<1>4. Total(k, s) \in Nat /\ (s = <<>> => Total(k, s) = 0)
  BY <1>2, <1>3
<1>5. ASSUME NEW p \in PacketsOf(k)
      PROVE  Total(k, Append(s, p)) = Total(k, s) + (p.size + h)
  <2> DEFINE r == Append(s, p)
             g == [n \in 0 .. N + 1 |-> IF n = N + 1 THEN f[N] + (p.size + h) ELSE f[n]]
  <2>1. /\ r \in Seq(PacketsOf(k)) /\ Len(r) = N + 1 /\ r[N + 1] = p
        /\ \A n \in 1 .. N : r[n] = s[n]
    OBVIOUS
  <2>2. p.size \in Nat
    BY PacketFacts
  <2>3. g \in [0 .. N + 1 -> Nat] /\ g[0] = 0 /\ g[N + 1] = f[N] + (p.size + h)
    <3>1. f[N] + (p.size + h) \in Nat
      <4>1. f[N] \in Nat /\ h \in Nat
        BY <1>2, <1>3, <1>4
      <4> QED
        BY <2>2, <4>1
    <3> QED
      BY <1>2, <3>1
  <2>4. \A n \in 1 .. N + 1 : g[n] = g[n - 1] + (r[n].size + h)
    <3> SUFFICES ASSUME NEW n \in 1 .. N + 1
                 PROVE  g[n] = g[n - 1] + (r[n].size + h)
      OBVIOUS
    <3>1. CASE n = N + 1
      BY <1>2, <2>1, <3>1
    <3>2. CASE n # N + 1
      BY <1>2, <2>1, <3>2
    <3> QED
      BY <3>1, <3>2
  <2> HIDE DEF g, r
  <2>5. SumsTo(k, r, g)
    BY <2>1, <2>3, <2>4 DEF SumsTo
  <2>6. PartialSums(k, r) = g
    BY <2>1, <2>5, SumsUnique
  <2>7. Total(k, r) = f[N] + (p.size + h)
    BY <2>1, <2>3, <2>6 DEF Total
  <2> QED
    BY <1>3, <2>7 DEF r
<1>6. ASSUME s # <<>>
      PROVE  Total(k, Tail(s)) = Total(k, s) - (Head(s).size + h)
  <2> DEFINE r == Tail(s)
             g == [n \in 0 .. N - 1 |-> f[n + 1] - f[1]]
  <2>1. /\ r \in Seq(PacketsOf(k)) /\ N \in Nat \ {0} /\ Len(r) = N - 1
        /\ Head(s) = s[1] /\ \A n \in 1 .. N - 1 : r[n] = s[n + 1]
    BY <1>6
  <2>2. f[1] = Head(s).size + h
    BY <1>2, <2>1
  <2> DEFINE T == {n \in 0 .. N : n = 0 \/ f[n] >= f[1]}
  <2>3. ASSUME NEW n \in 0 .. N - 1, n \in T PROVE n + 1 \in T
    <3>1. n + 1 \in 1 .. N /\ f[n + 1] = f[n] + (s[n + 1].size + h)
      BY <1>2
    <3>2. s[n + 1].size + h \in Nat /\ f[n] \in Nat /\ f[1] \in Nat
      BY <1>2, <2>1, SMTT(30)
    <3>3. CASE n = 0
      BY <3>1, <3>2, <3>3
    <3>4. CASE n # 0
      BY <2>3, <3>1, <3>2, <3>4
    <3> QED
      BY <3>3, <3>4
  <2>4. 0 .. N \subseteq T
    <3>1. 0 \in T
      BY <1>2
    <3> HIDE DEF T
    <3> QED
      BY <1>2, <2>3, <3>1, Climb
  <2>5. \A n \in 1 .. N : f[n] >= f[1]
    BY <2>4
  <2>6. g \in [0 .. N - 1 -> Nat] /\ g[0] = 0 /\ g[N - 1] = f[N] - f[1]
    BY <1>2, <2>1, <2>5
  <2>7. \A n \in 1 .. N - 1 : g[n] = g[n - 1] + (r[n].size + h)
    <3> SUFFICES ASSUME NEW n \in 1 .. N - 1
                 PROVE  g[n] = g[n - 1] + (r[n].size + h)
      OBVIOUS
    <3>1. /\ n + 1 \in 1 .. N /\ n \in 1 .. N /\ n - 1 + 1 = n
          /\ n \in 0 .. N - 1 /\ n - 1 \in 0 .. N - 1
      BY <1>2, <2>1
    <3>2. f[n + 1] = f[n] + (r[n].size + h) /\ r[n].size + h \in Nat
      BY <1>2, <2>1, <3>1
    <3>3. f[1] \in Nat /\ f[n] \in Nat
      BY <1>2, <2>1, <3>1
    <3> QED
      BY <3>1, <3>2, <3>3
  <2> HIDE DEF g, r
  <2>8. SumsTo(k, r, g)
    BY <2>1, <2>6, <2>7 DEF SumsTo
  <2>9. PartialSums(k, r) = g
    BY <2>1, <2>8, SumsUnique
  <2>10. Total(k, r) = f[N] - f[1]
    BY <2>1, <2>6, <2>9 DEF Total
  <2> QED
    BY <1>3, <2>2, <2>10 DEF r
<1> QED
  BY <1>4, <1>5, <1>6

-----------------------------------------------------------------------------
(* DynamicQueueLimits: counters that wrap *)

Words == 0 .. Word - 1

\* The conversions between words and integers.
LEMMA WordFacts ==
  /\ Word \in Nat \ {0} /\ MaxObject \in Nat /\ MinLimit \in Nat /\ MaxLimit \in Nat
  /\ MinLimit <= MaxLimit
  /\ Word \div 2 \in Nat /\ 2 * (Word \div 2) = Word
  /\ MaxLimit + MaxObject < Word \div 2
<1>1. Word \in Nat /\ Word % 2 = 0
  BY WordAssumption
<1>2. Word \div 2 \in Nat /\ 2 * (Word \div 2) = Word
  BY <1>1
<1> QED
  BY <1>2, WordAssumption

LEMMA UnsignedFacts ==
  ASSUME NEW x \in Int
  PROVE  /\ Unsigned(x) \in Words
         /\ 0 <= x /\ x < Word => Unsigned(x) = x
         /\ Word <= x /\ x < 2 * Word => Unsigned(x) = x - Word
         /\ -Word <= x /\ x < 0 => Unsigned(x) = x + Word
<1>0. Word \in Nat \ {0}
  BY WordFacts
<1>1. x % Word \in 0 .. Word - 1
  BY <1>0
<1>2. 0 <= x /\ x < Word => x % Word = x
  BY <1>0
<1>3. Word <= x /\ x < 2 * Word => x % Word = x - Word
  BY <1>0
<1>4. -Word <= x /\ x < 0 => x % Word = x + Word
  BY <1>0
<1> QED
  BY <1>1, <1>2, <1>3, <1>4 DEF Unsigned, Words

LEMMA SignedType == ASSUME NEW x \in Int PROVE Signed(x) \in Int
<1>1. Unsigned(x) \in Int
  BY UnsignedFacts, WordFacts DEF Words
<1> QED
  BY <1>1, WordFacts DEF Signed

LEMMA MaxOfTwo == ASSUME NEW a \in Int, NEW b \in Int
                  PROVE  Max({a, b}) = IF a >= b THEN a ELSE b
<1> DEFINE m == IF a >= b THEN a ELSE b
<1>1. m \in {a, b} /\ \A y \in {a, b} : m >= y
  OBVIOUS
<1>2. \A x \in {a, b} : (\A y \in {a, b} : x >= y) => x = m
  OBVIOUS
<1> HIDE DEF m
<1>3. Max({a, b}) = m
  BY <1>1, <1>2 DEF Max
<1> QED
  BY <1>3 DEF m

LEMMA MinOfTwo == ASSUME NEW a \in Int, NEW b \in Int
                  PROVE  Min({a, b}) = IF a <= b THEN a ELSE b
<1> DEFINE m == IF a <= b THEN a ELSE b
<1>1. m \in {a, b} /\ \A y \in {a, b} : m <= y
  OBVIOUS
<1>2. \A x \in {a, b} : (\A y \in {a, b} : x <= y) => x = m
  OBVIOUS
<1> HIDE DEF m
<1>3. Min({a, b}) = m
  BY <1>1, <1>2 DEF Min
<1> QED
  BY <1>3 DEF m

LEMMA PosdiffType ==
  ASSUME NEW a \in Int, NEW b \in Int, NEW c PROVE Posdiff(a, b, c) \in Int
<1> DEFINE d == IF c.wraps THEN Signed(Signed(a) - Signed(b)) ELSE Signed(a) - Signed(b)
<1>1. Signed(a) \in Int /\ Signed(b) \in Int
  BY SignedType
<1>2. Signed(a) - Signed(b) \in Int
  BY <1>1
<1>3. Signed(Signed(a) - Signed(b)) \in Int
  BY <1>2, SignedType
<1>4. d \in Int
  BY <1>2, <1>3
<1>5. Posdiff(a, b, c) = Unsigned(Max({0, d}))
  BY DEF Posdiff
<1> HIDE DEF d
<1>6. Max({0, d}) \in Int
  BY <1>4, MaxOfTwo
<1> QED
  BY <1>5, <1>6, UnsignedFacts, WordFacts DEF Words

\* The adapted limit is an integer, and within its bounds once bounded.
LEMMA BoundedType ==
  ASSUME NEW x \in Int PROVE Bounded(x) \in 0 .. MaxLimit
<1>1. Max({x, MinLimit}) \in Int /\ Max({x, MinLimit}) >= MinLimit
  BY WordFacts, MaxOfTwo
<1>2. Bounded(x) = Min({Max({x, MinLimit}), MaxLimit})
  BY DEF Bounded
<1> QED
  BY <1>1, <1>2, WordFacts, MinOfTwo

\* What a DynamicQueueLimits holds.
Limits == [m_limit : 0 .. MaxLimit, m_numQueued : Words, m_numCompleted : Words,
           m_lastObjCnt : Int, m_prevNumQueued : Int, m_prevLastObjCnt : Int,
           m_prevOvlimit : Int, m_lowestSlack : Int, m_adjLimit : Words]

\* The counters, which wrap, say that b bytes are in flight.
Carries(l, b) == l.m_numQueued - l.m_numCompleted \in {b, b - Word}

\* There was a completion: m_adjLimit is no longer garbage.
Settled(l) == l.m_adjLimit = Unsigned(l.m_limit + l.m_numCompleted)

LEMMA AdaptedType ==
  ASSUME NEW l \in Limits, NEW n \in Int, NEW c
  PROVE  Adapted(l, n, c)[1] \in Int /\ Adapted(l, n, c)[2] \in Int
<1>1. /\ l.m_limit \in Int /\ l.m_prevOvlimit \in Int /\ l.m_numCompleted \in Int
      /\ l.m_prevNumQueued \in Int /\ l.m_lowestSlack \in Int
      /\ l.m_prevLastObjCnt \in Int /\ Word - 1 \in Int
  BY WordFacts DEF Limits, Words
<1>2. Posdiff(l.m_numCompleted + n, l.m_prevNumQueued, c) \in Int
  <2>1. l.m_numCompleted + n \in Int
    BY <1>1
  <2> QED
    BY <1>1, <2>1, PosdiffType
<1>3. Unsigned(l.m_limit + l.m_prevOvlimit
               + Posdiff(l.m_numCompleted + n, l.m_prevNumQueued, c)) \in Int
  <2>1. l.m_limit + l.m_prevOvlimit
         + Posdiff(l.m_numCompleted + n, l.m_prevNumQueued, c) \in Int
    BY <1>1, <1>2
  <2> QED
    BY <2>1, UnsignedFacts, WordFacts DEF Words
<1>4. Slack(l, n, c) \in Int
  <2> DEFINE objs == IF l.m_prevOvlimit = 0 THEN 0
                     ELSE Posdiff(l.m_prevLastObjCnt, l.m_prevOvlimit, c)
             room == Posdiff(l.m_limit + l.m_prevOvlimit, 2 * n, c)
  <2>1. objs \in Int
    BY <1>1, PosdiffType
  <2>2. room \in Int
    <3>1. l.m_limit + l.m_prevOvlimit \in Int /\ 2 * n \in Int
      BY <1>1
    <3> QED
      BY <3>1, PosdiffType
  <2>3. Slack(l, n, c) = Min({l.m_lowestSlack, Max({room, objs})})
    BY DEF Slack
  <2> HIDE DEF objs, room
  <2>4. Max({room, objs}) \in Int
    BY <2>1, <2>2, MaxOfTwo
  <2> QED
    BY <1>1, <2>3, <2>4, MinOfTwo, ZenonT(40)
<1>5. Posdiff(l.m_limit, Slack(l, n, c), c) \in Int
  BY <1>1, <1>4, PosdiffType
<1> QED
  BY <1>1, <1>3, <1>4, <1>5 DEF Adapted

\* Queued: n more bytes are in flight.
LEMMA QueuedFacts ==
  ASSUME NEW l \in Limits, NEW b \in Nat, NEW n \in Nat, Carries(l, b), b + n < Word
  PROVE  /\ Queued(l, n) \in Limits /\ Carries(Queued(l, n), b + n)
         /\ Settled(l) => Settled(Queued(l, n))
         /\ Queued(l, n).m_limit = l.m_limit
<1>1. /\ l.m_numQueued \in Words /\ l.m_numCompleted \in Words /\ l.m_numQueued + n \in Int
      /\ 0 <= l.m_numQueued + n /\ l.m_numQueued + n < 2 * Word
  BY WordFacts DEF Limits, Words
<1> DEFINE u == Unsigned(l.m_numQueued + n)
<1>2. u \in Words /\ u \in {l.m_numQueued + n, l.m_numQueued + n - Word}
  BY <1>1, UnsignedFacts, WordFacts DEF Words
<1>3. Queued(l, n) = [l EXCEPT !.m_lastObjCnt = n, !.m_numQueued = u]
  BY DEF Queued
<1> HIDE DEF u
<1>4. Queued(l, n) \in Limits
  <2>1. n \in Int
    OBVIOUS
  <2> QED
    BY <1>2, <1>3, <2>1, Zenon DEF Limits
<1>5. /\ Queued(l, n).m_numQueued = u /\ Queued(l, n).m_numCompleted = l.m_numCompleted
      /\ Queued(l, n).m_limit = l.m_limit /\ Queued(l, n).m_adjLimit = l.m_adjLimit
  BY <1>3 DEF Limits
<1> DEFINE Q == l.m_numQueued
           C == l.m_numCompleted
<1>6. Q - C = b \/ Q - C = b - Word
  BY DEF Carries
<1>7. Q \in Words /\ C \in Words /\ (u = Q + n \/ u = Q + n - Word)
  BY <1>1, <1>2
<1> HIDE DEF Q, C
<1>8. u - C = b + n \/ u - C = (b + n) - Word
  BY <1>2, <1>6, <1>7, WordFacts DEF Words
<1>9. Carries(Queued(l, n), b + n)
  BY <1>5, <1>8 DEF Carries, C
<1> QED
  BY <1>4, <1>5, <1>9 DEF Settled

\* Completed: n fewer, and the limit is set, whatever it held before.
LEMMA CompletedFacts ==
  ASSUME NEW l \in Limits, NEW b \in Nat, NEW n \in Nat, NEW c,
         Carries(l, b), n <= b, b < Word
  PROVE  /\ Completed(l, n, c) \in Limits /\ Carries(Completed(l, n, c), b - n)
         /\ Settled(Completed(l, n, c))
<1>1. /\ l.m_numQueued \in Words /\ l.m_numCompleted \in Words
      /\ l.m_numCompleted + n \in Int /\ l.m_limit \in Int
      /\ 0 <= l.m_numCompleted + n /\ l.m_numCompleted + n < 2 * Word
  BY WordFacts DEF Limits, Words
<1> DEFINE u == Unsigned(l.m_numCompleted + n)
           a == Adapted(l, n, c)
           lim == Bounded(a[1])
           ov == Posdiff(l.m_numQueued - l.m_numCompleted, l.m_limit, c)
           r == Completed(l, n, c)
<1>2. u \in Words /\ u \in {l.m_numCompleted + n, l.m_numCompleted + n - Word}
  BY <1>1, UnsignedFacts, WordFacts DEF Words
<1>3. a[1] \in Int /\ a[2] \in Int
  BY AdaptedType
<1>4. lim \in 0 .. MaxLimit
  BY <1>3, BoundedType
<1>5. ov \in Int
  <2>1. l.m_numQueued - l.m_numCompleted \in Int
    BY <1>1 DEF Words
  <2> QED
    BY <1>1, <2>1, PosdiffType
<1>6. r = [l EXCEPT !.m_limit = lim, !.m_lowestSlack = a[2],
                    !.m_adjLimit = Unsigned(lim + u),
                    !.m_prevOvlimit = IF lim = l.m_limit THEN ov ELSE 0,
                    !.m_prevLastObjCnt = l.m_lastObjCnt,
                    !.m_numCompleted = u,
                    !.m_prevNumQueued = l.m_numQueued]
  BY DEF Completed
<1> HIDE DEF u, a, lim, ov, r
<1>7. Unsigned(lim + u) \in Words
  <2>1. lim + u \in Int
    BY <1>2, <1>4, WordFacts DEF Words
  <2> QED
    BY <2>1, UnsignedFacts
<1>8. l.m_lastObjCnt \in Int /\ l.m_numQueued \in Int
  BY DEF Limits, Words
<1>9. r \in Limits
  <2> DEFINE o == IF lim = l.m_limit THEN ov ELSE 0
  <2>1. o \in Int
    BY <1>5
  <2> HIDE DEF o
  <2>2. r = [l EXCEPT !.m_limit = lim, !.m_lowestSlack = a[2],
                      !.m_adjLimit = Unsigned(lim + u), !.m_prevOvlimit = o,
                      !.m_prevLastObjCnt = l.m_lastObjCnt,
                      !.m_numCompleted = u, !.m_prevNumQueued = l.m_numQueued]
    BY <1>6, Zenon DEF o
  <2> QED
    BY <1>2, <1>3, <1>4, <1>7, <1>8, <2>1, <2>2, Zenon DEF Limits
<1>10. /\ r.m_numQueued = l.m_numQueued /\ r.m_numCompleted = u
       /\ r.m_limit = lim /\ r.m_adjLimit = Unsigned(lim + u)
  BY <1>6 DEF Limits
<1> DEFINE Q == l.m_numQueued
           C == l.m_numCompleted
<1>11. /\ Q \in Words /\ C \in Words /\ (u = C + n \/ u = C + n - Word)
       /\ Q - C = b \/ Q - C = b - Word
  BY <1>1, <1>2 DEF Carries
<1> HIDE DEF Q, C
<1>12. Q - u = b - n \/ Q - u = b - n - Word
  BY <1>2, <1>11, WordFacts DEF Words
<1>13. Carries(r, b - n)
  BY <1>10, <1>12 DEF Carries, Q
<1> QED
  BY <1>9, <1>10, <1>13 DEF Settled, r

\* What Available and the assertion of Completed read off the counters.
LEMMA AvailableFacts ==
  ASSUME NEW l \in Limits, NEW b \in Nat, Carries(l, b),
         b <= MaxLimit + MaxObject
  PROVE  /\ InFlight(l) = b
         /\ Settled(l) => Available(l) = l.m_limit - b
         /\ Available(l) \in Int
<1> DEFINE Q == l.m_numQueued
           C == l.m_numCompleted
           A == l.m_adjLimit
           L == l.m_limit
           H == Word \div 2
<1>1. /\ Q \in Words /\ C \in Words /\ A \in Words /\ L \in 0 .. MaxLimit
      /\ H \in Nat /\ 2 * H = Word /\ MaxLimit + MaxObject < H /\ Word \in Nat \ {0}
      /\ MaxLimit \in Nat /\ MaxObject \in Nat
  BY WordFacts DEF Limits
<1>2. Q - C \in {b, b - Word}
  BY DEF Carries
<1>3. InFlight(l) = Unsigned(Q - C) /\ Available(l) = Signed(A - Q)
  BY DEF InFlight, Available
<1>4. Settled(l) => A = Unsigned(L + C)
  BY DEF Settled
<1> HIDE DEF Q, C, A, L, H
<1>5. InFlight(l) = b
  <2>1. Q - C \in Int
    BY <1>1 DEF Words
  <2> QED
    BY <1>1, <1>2, <1>3, <2>1, UnsignedFacts DEF Words
<1>6. Available(l) \in Int
  <2>1. A - Q \in Int
    BY <1>1 DEF Words
  <2> QED
    BY <1>3, <2>1, SignedType
<1>7. ASSUME Settled(l) PROVE Available(l) = L - b
  <2>1. A = L + C \/ A = (L + C) - Word
    <3>1. L + C \in Int /\ 0 <= L + C /\ L + C < 2 * Word
      BY <1>1 DEF Words
    <3> DEFINE x == L + C
    <3>2. A = Unsigned(x)
      BY <1>4, <1>7
    <3>3. x \in Int /\ 0 <= x /\ (x < Word \/ (Word <= x /\ x < 2 * Word))
      BY <1>1, <3>1
    <3> HIDE DEF x
    <3>4. Unsigned(x) = x \/ Unsigned(x) = x - Word
      BY <3>3, UnsignedFacts
    <3> QED
      BY <3>2, <3>4 DEF x
  <2> DEFINE u == Unsigned(A - Q)
  <2>2. u \in Words /\ (u = A - Q \/ u = A - Q + Word)
    <3>1. A - Q \in Int /\ -Word <= A - Q /\ A - Q < Word
      BY <1>1 DEF Words
    <3> QED
      BY <3>1, UnsignedFacts, WordFacts
  <2>3. Available(l) = IF u >= H THEN u - Word ELSE u
    BY <1>3 DEF Signed, H
  <2> HIDE DEF u
  <2>4. u = L - b \/ u = L - b + Word
    BY <1>1, <1>2, <2>1, <2>2 DEF Words
  <2> QED
    BY <1>1, <2>2, <2>3, <2>4 DEF Words
<1> QED
  BY <1>5, <1>6, <1>7 DEF L

-----------------------------------------------------------------------------
(* One queue of the device *)

DevOf(k) ==
  [queue : Seq(PacketsOf(k)), busy : BOOLEAN, stoppedByDevice : BOOLEAN,
   stoppedByQueueLimits : BOOLEAN, wakes : 0 .. 2, drops : Nat, limits : Limits]

\* Is there room for a packet of Mtu bytes?
Room(k, s) == IF k.inBytes THEN Total(k, s) + Mtu <= k.devLimit
              ELSE Len(s) + 1 <= k.devLimit

\* Room for the Mtu, if any, is not enough for its link header too.
Gap(k, s) == k.inBytes /\ Total(k, s) + (Mtu + k.linkHeader) > k.devLimit

\* The adaptive limit: the counters agree with the queue, the queue is over the
\* limit while it is stopped for that, and otherwise within the largest one.
LimitsKept(k, d) ==
  LET b == Total(k, d.queue)
  IN  /\ Carries(d.limits, b)
      /\ b <= MaxLimit + (Mtu + k.linkHeader)
      /\ d.busy => Settled(d.limits)
      /\ d.stoppedByQueueLimits => d.queue # <<>> /\ d.limits.m_limit < b
      /\ ~ d.stoppedByQueueLimits => b <= MaxLimit

\* A queue between two events, with its flags and its transmitter.
QueueOK(k, d) ==
  /\ d \in DevOf(k)
  /\ d.drops > 0 => k.inBytes /\ k.linkHeader > 0
  /\ ~ Room(k, d.queue) => d.stoppedByDevice
  /\ d.stoppedByDevice /\ Room(k, d.queue) => d.drops > 0 /\ Gap(k, d.queue)
  /\ ~ d.busy => d.queue = <<>> /\ d.wakes = 0
  /\ IF k.limits THEN LimitsKept(k, d) ELSE ~ d.stoppedByQueueLimits

\* What the configuration provides.
LEMMA ConfFacts ==
  ASSUME NEW k \in Configurations
  PROVE  /\ IsFiniteSet(k.txQueues) /\ k.inBytes \in BOOLEAN /\ k.limits \in BOOLEAN
         /\ k.devLimit \in Nat /\ k.quota \in Nat \ {0} /\ k.linkHeader \in Nat
         /\ Mtu \in Nat /\ Mtu + k.linkHeader <= MaxObject
         /\ k.inBytes => k.devLimit >= Mtu + k.linkHeader
         /\ ~ k.inBytes => k.devLimit >= 1
BY ConfigurationsAreReal, SizesFitMtu

\* Room in terms of the queue; an empty queue has it, and a packet that does not
\* fit where there is room (NetDeviceQueue asks about one of Mtu bytes) is
\* refused for its link header; the queue is then not empty.
LEMMA RoomFacts ==
  ASSUME conf \in Configurations, NEW d, d.queue \in Seq(PacketsOf(conf))
  PROVE  /\ HasRoom(d) <=> Room(conf, d.queue)
         /\ d.queue = <<>> => Room(conf, d.queue) /\ ~ Gap(conf, d.queue)
         /\ Room(conf, d.queue) => \A p \in PacketsOf(conf) :
              Fits(d, Wire(p)) \/ (Gap(conf, d.queue) /\ conf.linkHeader > 0)
         /\ InHeaderGap(d) <=> Room(conf, d.queue) /\ Gap(conf, d.queue)
         /\ d.queue # <<>> /\ ~ Room(conf, Tail(d.queue)) => ~ Room(conf, d.queue)
<1> DEFINE s == d.queue
           b == Total(conf, d.queue)
<1>1. b \in Nat /\ (s = <<>> => b = 0) /\ Len(s) \in Nat
  BY TotalFacts
<1>2. BytesIn(d) = b
  BY BytesAreTotal
<1>3. HasRoom(d) <=> Room(conf, s)
  BY <1>2 DEF HasRoom, Fits, Room
<1>4. s = <<>> => Room(conf, s) /\ ~ Gap(conf, s)
  <2>1. CASE conf.inBytes
    BY <1>1, <2>1, ConfFacts DEF Room, Gap
  <2>2. CASE ~ conf.inBytes
    BY <2>2, ConfFacts DEF Room, Gap
  <2> QED
    BY <2>1, <2>2
<1>5. ASSUME Room(conf, s), NEW p \in PacketsOf(conf), ~ Fits(d, Wire(p))
      PROVE  Gap(conf, s) /\ conf.linkHeader > 0
  <2>1. CASE conf.inBytes
    <3>1. Wire(p) \in Nat /\ Wire(p) <= Mtu + conf.linkHeader
      BY ConfFacts, PacketFacts DEF Wire, LinkHeader
    <3>2. b + Mtu <= conf.devLimit /\ ~ (b + Wire(p) <= conf.devLimit)
      BY <1>2, <1>5, <2>1 DEF Room, Fits
    <3> HIDE DEF b, s
    <3>3. b + (Mtu + conf.linkHeader) > conf.devLimit /\ conf.linkHeader > 0
      BY <1>1, <3>1, <3>2, ConfFacts
    <3> QED
      BY <2>1, <3>3 DEF Gap, b, s
  <2>2. CASE ~ conf.inBytes
    BY <1>5, <2>2 DEF Fits, Room
  <2> QED
    BY <2>1, <2>2
<1>6. ASSUME s # <<>>, Room(conf, s) PROVE Room(conf, Tail(s))
  <2>1. CASE conf.inBytes
    <3>1. Head(s) \in PacketsOf(conf)
      BY <1>6
    <3>2. Head(s).size + conf.linkHeader \in Nat
      BY <3>1, PacketFacts
    <3>3. Total(conf, Tail(s)) = b - (Head(s).size + conf.linkHeader)
      BY <1>6, TotalFacts
    <3>4. b + Mtu <= conf.devLimit
      BY <1>6, <2>1 DEF Room
    <3>5. Total(conf, Tail(s)) + Mtu <= conf.devLimit
      BY <1>1, <3>2, <3>3, <3>4, ConfFacts
    <3> QED
      BY <2>1, <3>5 DEF Room
  <2>2. CASE ~ conf.inBytes
    <3>1. Len(Tail(s)) = Len(s) - 1
      BY <1>6
    <3> QED
      BY <1>1, <1>6, <2>2, <3>1, ConfFacts DEF Room
  <2> QED
    BY <2>1, <2>2
<1>7. InHeaderGap(d) <=> Room(conf, s) /\ Gap(conf, s)
  <2>1. CASE conf.inBytes
    <3>1. Fits(d, Mtu + LinkHeader) <=> b + (Mtu + conf.linkHeader) <= conf.devLimit
      BY <1>2, <2>1 DEF Fits, LinkHeader
    <3> HIDE DEF b, s
    <3>2. ~ (b + (Mtu + conf.linkHeader) <= conf.devLimit)
            <=> b + (Mtu + conf.linkHeader) > conf.devLimit
      BY <1>1, ConfFacts
    <3>3. Gap(conf, s) <=> b + (Mtu + conf.linkHeader) > conf.devLimit
      BY <2>1 DEF Gap, b, s
    <3> QED
      BY <1>3, <3>1, <3>2, <3>3 DEF InHeaderGap
  <2>2. CASE ~ conf.inBytes
    BY <1>3, <2>2 DEF InHeaderGap, HasRoom, Fits, Gap
  <2> QED
    BY <2>1, <2>2
<1> QED
  BY <1>3, <1>4, <1>5, <1>6, <1>7

\* Queue::Enqueue of a packet that fits in a queue that is not stopped.
Enqueued(d, p, e) ==
  /\ e \in DevOf(conf)
  /\ e.queue = Append(d.queue, p) /\ e.busy = d.busy /\ e.wakes = d.wakes
  /\ e.drops = d.drops
  /\ e.stoppedByDevice <=> ~ Room(conf, e.queue)
  /\ ~ conf.limits => ~ e.stoppedByQueueLimits
  /\ conf.limits =>
       /\ Carries(e.limits, Total(conf, e.queue))
       /\ Total(conf, e.queue) <= MaxLimit + (Mtu + conf.linkHeader)
       /\ d.busy => Settled(e.limits)
       /\ e.stoppedByQueueLimits <=> ~ (Available(e.limits) >= 0)

LEMMA EnqueueFacts ==
  ASSUME conf \in Configurations, NEW d, QueueOK(conf, d), ~ IsStopped(d),
         NEW p \in PacketsOf(conf), Fits(d, Wire(p))
  PROVE  Enqueued(d, p, DevEnqueue(d, p))
<1> DEFINE w == Wire(p)
           b == Total(conf, d.queue)
           lim == IfLimited(Queued(d.limits, w), d.limits)
           e1 == [d EXCEPT !.queue = Append(@, p), !.limits = lim]
           e == DevEnqueue(d, p)
<1>1. /\ d \in DevOf(conf) /\ d.queue \in Seq(PacketsOf(conf)) /\ d.limits \in Limits
      /\ ~ d.stoppedByDevice /\ ~ d.stoppedByQueueLimits
  BY DEF QueueOK, DevOf, IsStopped
<1>2. Fits(d, w)
  OBVIOUS
<1>3. w = p.size + conf.linkHeader /\ w \in Nat /\ w <= Mtu + conf.linkHeader
  BY PacketFacts DEF Wire, LinkHeader
<1>4. b \in Nat /\ Total(conf, Append(d.queue, p)) = b + w
  BY <1>1, <1>3, TotalFacts
<1>5. /\ lim \in Limits
      /\ conf.limits => /\ Carries(lim, b + w) /\ b + w <= MaxLimit + (Mtu + conf.linkHeader)
                        /\ d.busy => Settled(lim)
  <2>1. CASE conf.limits
    <3>1. Carries(d.limits, b) /\ b <= MaxLimit /\ (d.busy => Settled(d.limits))
      BY <1>1, <2>1 DEF QueueOK, LimitsKept
    <3>2. b + w <= MaxLimit + (Mtu + conf.linkHeader) /\ b + w < Word
      BY <1>3, <1>4, <3>1, ConfFacts, WordFacts
    <3>3. lim = Queued(d.limits, w)
      BY <2>1 DEF IfLimited, HasLimits
    <3> QED
      BY <1>1, <1>3, <1>4, <3>1, <3>2, <3>3, QueuedFacts
  <2>2. CASE ~ conf.limits
    BY <1>1, <2>2 DEF IfLimited, HasLimits
  <2> QED
    BY <2>1, <2>2
<1>6. e = [e1 EXCEPT !.stoppedByQueueLimits = @ \/ ~ LimitsAllow(e1),
                     !.stoppedByDevice = @ \/ ~ HasRoom(e1)]
  BY <1>2 DEF DevEnqueue
<1>7. /\ e1 \in DevOf(conf) /\ e1.queue = Append(d.queue, p) /\ e1.limits = lim
      /\ e1.busy = d.busy /\ e1.wakes = d.wakes /\ e1.queue \in Seq(PacketsOf(conf))
      /\ e1.drops = d.drops
      /\ e1.stoppedByDevice = d.stoppedByDevice
      /\ e1.stoppedByQueueLimits = d.stoppedByQueueLimits
  <2> HIDE DEF lim
  <2>1. Append(d.queue, p) \in Seq(PacketsOf(conf))
    BY <1>1
  <2> QED
    BY <1>1, <1>5, <2>1, Zenon DEF DevOf
<1> HIDE DEF e1, e, lim, w
<1>8. /\ (d.stoppedByQueueLimits \/ ~ LimitsAllow(e1)) \in BOOLEAN
      /\ (d.stoppedByDevice \/ ~ HasRoom(e1)) \in BOOLEAN
  BY Zenon
<1>9. /\ e \in DevOf(conf) /\ e.queue = e1.queue /\ e.limits = lim
      /\ e.busy = d.busy /\ e.wakes = d.wakes /\ e.drops = d.drops
      /\ e.stoppedByDevice <=> ~ HasRoom(e1)
      /\ e.stoppedByQueueLimits <=> ~ LimitsAllow(e1)
  BY <1>1, <1>6, <1>7, <1>8 DEF DevOf
<1>10. HasRoom(e1) <=> Room(conf, e.queue)
  BY <1>7, <1>9, RoomFacts
<1>11. LimitsAllow(e1) <=> (~ conf.limits \/ Available(e.limits) >= 0)
  BY <1>7, <1>9 DEF LimitsAllow, HasLimits
<1> QED
  BY <1>4, <1>5, <1>7, <1>9, <1>10, <1>11 DEF Enqueued, e

\* ... and of one that does not: it stops the queue, whose transmitter is busy.
LEMMA RefusalFacts ==
  ASSUME conf \in Configurations, NEW d, QueueOK(conf, d), ~ IsStopped(d),
         NEW p \in PacketsOf(conf), ~ Fits(d, Wire(p))
  PROVE  LET e == DevEnqueue(d, p)
         IN  /\ QueueOK(conf, e) /\ e.busy /\ d.busy
             /\ e.queue = d.queue /\ e.drops = d.drops + 1
<1> DEFINE e == DevEnqueue(d, p)
<1>1. /\ d \in DevOf(conf) /\ d.queue \in Seq(PacketsOf(conf)) /\ d.drops \in Nat
      /\ d.busy \in BOOLEAN /\ Room(conf, d.queue)
  BY DEF QueueOK, DevOf, IsStopped
<1>2. Gap(conf, d.queue) /\ conf.linkHeader > 0 /\ conf.inBytes
  BY <1>1, RoomFacts DEF Gap
<1>3. d.busy
  BY <1>1, <1>2, RoomFacts DEF QueueOK
<1>4. e = [d EXCEPT !.drops = d.drops + 1, !.stoppedByDevice = TRUE]
  BY DEF DevEnqueue
<1>5. d.drops + 1 \in Nat /\ d.drops + 1 > 0
  BY <1>1
<1> HIDE DEF e
<1>6. /\ e \in DevOf(conf) /\ e.queue = d.queue /\ e.busy = d.busy /\ e.limits = d.limits
      /\ e.drops = d.drops + 1 /\ e.stoppedByDevice = TRUE
      /\ e.stoppedByQueueLimits = d.stoppedByQueueLimits
  BY <1>1, <1>4, <1>5, Zenon DEF DevOf
<1>7. LimitsKept(conf, d) => LimitsKept(conf, e)
  BY <1>6 DEF LimitsKept
<1>8. QueueOK(conf, e)
  BY <1>2, <1>3, <1>5, <1>6, <1>7 DEF QueueOK
<1> QED
  BY <1>3, <1>6, <1>8 DEF e

\* Queue::Dequeue leaves exact flags, and from a stopped queue either schedules
\* a wake or leaves it stopped.
Dequeued(d, e) ==
  /\ e \in DevOf(conf)
  /\ e.queue = Tail(d.queue) /\ e.busy = d.busy /\ e.drops = d.drops
  /\ e.stoppedByDevice <=> ~ Room(conf, e.queue)
  /\ ~ conf.limits => ~ e.stoppedByQueueLimits
  /\ conf.limits => LimitsKept(conf, e) /\ Settled(e.limits)
  /\ installed /\ IsStopped(d) => e.wakes > 0 \/ IsStopped(e)

LEMMA DequeueFacts ==
  ASSUME conf \in Configurations, installed \in BOOLEAN, NEW d \in DevOf(conf), NEW c,
         d.queue # <<>>, d.wakes = 0,
         ~ Room(conf, d.queue) => d.stoppedByDevice,
         ~ conf.limits => ~ d.stoppedByQueueLimits,
         conf.limits =>
           /\ Carries(d.limits, Total(conf, d.queue))
           /\ Total(conf, d.queue) <= MaxLimit + (Mtu + conf.linkHeader)
           /\ ~ d.stoppedByQueueLimits => Total(conf, Tail(d.queue)) <= MaxLimit
  PROVE  Dequeued(d, DevDequeue(d, c))
<1> DEFINE w == Wire(Head(d.queue))
           b == Total(conf, d.queue)
           lim == IfLimited(Completed(d.limits, w, c), d.limits)
           e1 == Removed(d, c)
           t == Tail(d.queue)
           unlimit == LimitsAllow(e1) /\ d.stoppedByQueueLimits
           wake == HasRoom(e1) /\ d.stoppedByDevice
           wakes == IF ~ installed THEN d.wakes
                    ELSE d.wakes + (IF unlimit THEN 1 ELSE 0) + (IF wake THEN 1 ELSE 0)
           e == DevDequeue(d, c)
<1>1. /\ d.queue \in Seq(PacketsOf(conf)) /\ d.limits \in Limits
      /\ d.stoppedByDevice \in BOOLEAN /\ d.stoppedByQueueLimits \in BOOLEAN
  BY DEF DevOf
<1>2. Head(d.queue) \in PacketsOf(conf) /\ t \in Seq(PacketsOf(conf))
  BY <1>1
<1>3. w = Head(d.queue).size + conf.linkHeader /\ w \in Nat
  BY <1>2, PacketFacts DEF Wire, LinkHeader
<1>4. b \in Nat /\ Total(conf, t) = b - w /\ Total(conf, t) \in Nat
  BY <1>1, <1>2, <1>3, TotalFacts
<1>5. lim \in Limits /\ (conf.limits => Carries(lim, b - w) /\ Settled(lim))
  <2>1. CASE conf.limits
    <3>1. b < Word /\ w <= b
      <4>1. b \in Nat /\ w \in Nat /\ b - w \in Nat /\ b <= MaxLimit + (Mtu + conf.linkHeader)
        BY <1>3, <1>4, <2>1
      <4> HIDE DEF b, w
      <4> QED
        BY <4>1, ConfFacts, WordFacts, SMTT(30)
    <3>2. lim = Completed(d.limits, w, c)
      BY <2>1 DEF IfLimited, HasLimits
    <3> QED
      BY <1>1, <1>3, <1>4, <2>1, <3>1, <3>2, CompletedFacts
  <2>2. CASE ~ conf.limits
    BY <1>1, <2>2 DEF IfLimited, HasLimits
  <2> QED
    BY <2>1, <2>2
<1>6. e1 = [d EXCEPT !.queue = t, !.limits = lim]
  BY DEF Removed
<1>7. e = [e1 EXCEPT !.stoppedByQueueLimits = @ /\ ~ LimitsAllow(e1),
                     !.stoppedByDevice = @ /\ ~ HasRoom(e1), !.wakes = wakes]
  <2>1. e1.wakes = d.wakes
    BY <1>6 DEF DevOf
  <2> QED
    BY <2>1 DEF DevDequeue
<1>8. wakes \in 0 .. 2 /\ (installed /\ (unlimit \/ wake) => wakes > 0)
  <2> HIDE DEF unlimit, wake
  <2> QED
    OBVIOUS
<1> HIDE DEF e1, e, lim, w, t, wakes
<1>9. /\ e1 \in DevOf(conf) /\ e1.queue = t /\ e1.limits = lim /\ e1.busy = d.busy
      /\ e1.drops = d.drops
      /\ e1.stoppedByDevice = d.stoppedByDevice
      /\ e1.stoppedByQueueLimits = d.stoppedByQueueLimits
  BY <1>2, <1>5, <1>6, Zenon DEF DevOf
<1>10. /\ (d.stoppedByQueueLimits /\ ~ LimitsAllow(e1)) \in BOOLEAN
       /\ (d.stoppedByDevice /\ ~ HasRoom(e1)) \in BOOLEAN
  BY Zenon
<1>11. /\ e \in DevOf(conf) /\ e.queue = t /\ e.limits = lim
       /\ e.busy = d.busy /\ e.wakes = wakes /\ e.drops = d.drops
       /\ e.stoppedByDevice <=> d.stoppedByDevice /\ ~ HasRoom(e1)
       /\ e.stoppedByQueueLimits <=> d.stoppedByQueueLimits /\ ~ LimitsAllow(e1)
  BY <1>7, <1>8, <1>9, <1>10 DEF DevOf
<1>12. HasRoom(e1) <=> Room(conf, t)
  BY <1>2, <1>9, RoomFacts
<1>13. e.stoppedByDevice <=> ~ Room(conf, e.queue)
  BY <1>1, <1>11, <1>12, RoomFacts DEF t
<1>14. LimitsAllow(e1) <=> (~ conf.limits \/ Available(lim) >= 0)
  BY <1>9 DEF LimitsAllow, HasLimits
<1>15. conf.limits => LimitsKept(conf, e) /\ Settled(e.limits)
  <2> SUFFICES ASSUME conf.limits PROVE LimitsKept(conf, e) /\ Settled(e.limits)
    OBVIOUS
  <2> DEFINE r == b - w
  <2>1. /\ Total(conf, e.queue) = r /\ r \in Nat /\ r <= MaxLimit + (Mtu + conf.linkHeader)
        /\ r <= MaxLimit + MaxObject
    BY <1>3, <1>4, <1>11, ConfFacts, WordFacts, SMTT(30) DEF t
  <2>2. Carries(lim, r) /\ Settled(lim) /\ lim.m_limit \in 0 .. MaxLimit
    BY <1>5 DEF Limits
  <2> HIDE DEF r
  <2>3. Available(lim) = lim.m_limit - r
    BY <1>5, <2>1, <2>2, AvailableFacts
  <2>4. e.stoppedByQueueLimits => lim.m_limit < r
    BY <1>11, <1>14, <2>1, <2>2, <2>3, WordFacts
  <2>5. e.stoppedByQueueLimits => e.queue # <<>>
    <3>1. e.queue = <<>> => r = 0
      BY <1>2, <1>11, <2>1, TotalFacts
    <3> QED
      BY <2>1, <2>2, <2>4, <3>1, WordFacts
  <2>6. ~ e.stoppedByQueueLimits => r <= MaxLimit
    <3>1. CASE ~ d.stoppedByQueueLimits
      BY <1>11, <2>1, <3>1 DEF t
    <3>2. CASE d.stoppedByQueueLimits
      BY <1>11, <1>14, <2>1, <2>2, <2>3, <3>2, WordFacts
    <3> QED
      BY <3>1, <3>2
  <2> QED
    BY <1>11, <2>1, <2>2, <2>4, <2>5, <2>6 DEF LimitsKept
<1>16. installed /\ IsStopped(d) => e.wakes > 0 \/ IsStopped(e)
  BY <1>8, <1>11 DEF IsStopped
<1>17. ~ conf.limits => ~ e.stoppedByQueueLimits
  BY <1>11
<1> QED
  BY <1>11, <1>13, <1>15, <1>16, <1>17 DEF Dequeued, e, t

\* PointToPointNetDevice::Send: the packet is on the wire if the transmitter was
\* ready, and else queued or refused; the transmitter is busy in every case.
Sent(d, p, e) ==
  /\ QueueOK(conf, e) /\ e.busy
  /\ d.busy => /\ Started(d, e) = 0
               /\ \/ e.queue = Append(d.queue, p) /\ e.drops = d.drops
                  \/ e.queue = d.queue /\ e.drops = d.drops + 1
  /\ ~ d.busy => /\ e.queue = <<>> /\ d.queue = <<>> /\ e.drops = d.drops
                 /\ Started(d, e) = 1

LEMMA SendFacts ==
  ASSUME conf \in Configurations, installed \in BOOLEAN, NEW d, QueueOK(conf, d),
         ~ IsStopped(d), NEW p \in PacketsOf(conf), NEW c
  PROVE  Sent(d, p, DevSend(d, p, c))
<1> DEFINE e == DevEnqueue(d, p)
           f == DevDequeue(e, c)
           r == [f EXCEPT !.busy = TRUE]
<1>2. /\ d \in DevOf(conf) /\ d.queue \in Seq(PacketsOf(conf)) /\ d.busy \in BOOLEAN
      /\ d.drops \in Nat /\ d.drops # d.drops + 1
  BY DEF QueueOK, DevOf
<1>0. CASE ~ Fits(d, Wire(p))
  <2>1. /\ QueueOK(conf, e) /\ e.busy /\ d.busy
        /\ e.queue = d.queue /\ e.drops = d.drops + 1
    BY <1>0, RefusalFacts
  <2> HIDE DEF e
  <2>2. DevSend(d, p, c) = e
    BY <1>2, <2>1 DEF DevSend, e
  <2> QED
    BY <2>1, <2>2 DEF Sent, Started
<1> SUFFICES ASSUME Fits(d, Wire(p)) PROVE Sent(d, p, DevSend(d, p, c))
  BY <1>0
<1>1. Enqueued(d, p, e)
  BY EnqueueFacts
<1>3. /\ e \in DevOf(conf) /\ e.drops = d.drops /\ e.queue = Append(d.queue, p)
      /\ e.busy = d.busy /\ e.wakes = d.wakes /\ e.limits \in Limits
      /\ e.queue \in Seq(PacketsOf(conf)) /\ e.queue # <<>>
      /\ e.stoppedByQueueLimits \in BOOLEAN
  BY <1>1, <1>2 DEF Enqueued, DevOf
<1>4. DevSend(d, p, c) = IF e.busy THEN e ELSE r
  BY <1>2, <1>3 DEF DevSend
<1> HIDE DEF e, f
<1>5. CASE d.busy
  <2>1. conf.limits => LimitsKept(conf, e)
    <3> SUFFICES ASSUME conf.limits PROVE LimitsKept(conf, e)
      OBVIOUS
    <3> DEFINE b == Total(conf, e.queue)
    <3>1. /\ b \in Nat /\ Carries(e.limits, b) /\ b <= MaxLimit + (Mtu + conf.linkHeader)
          /\ Settled(e.limits) /\ e.limits.m_limit \in 0 .. MaxLimit
          /\ e.stoppedByQueueLimits <=> ~ (Available(e.limits) >= 0)
      BY <1>1, <1>3, <1>5, TotalFacts DEF Enqueued, Limits
    <3> HIDE DEF b
    <3>2. b <= MaxLimit + MaxObject
      BY <3>1, ConfFacts, WordFacts
    <3>3. Available(e.limits) = e.limits.m_limit - b
      BY <1>3, <3>1, <3>2, AvailableFacts
    <3>4. e.stoppedByQueueLimits => e.limits.m_limit < b
      BY <3>1, <3>3, WordFacts
    <3>5. ~ e.stoppedByQueueLimits => b <= MaxLimit
      BY <3>1, <3>3, WordFacts
    <3> QED
      BY <1>3, <3>1, <3>4, <3>5 DEF LimitsKept, b
  <2>2. QueueOK(conf, e)
    BY <1>1, <1>3, <1>5, <2>1 DEF QueueOK, Enqueued
  <2> QED
    BY <1>3, <1>4, <1>5, <2>2 DEF Sent, Started
<1>6. CASE ~ d.busy
  <2>1. d.queue = <<>> /\ d.wakes = 0
    BY <1>6 DEF QueueOK
  <2>2. Tail(e.queue) = <<>>
    BY <1>3, <2>1
  <2>3. Total(conf, Tail(e.queue)) <= MaxLimit
    <3>1. Tail(e.queue) \in Seq(PacketsOf(conf))
      BY <1>3
    <3>2. Total(conf, Tail(e.queue)) = 0
      BY <2>2, <3>1, TotalFacts
    <3> QED
      BY <3>2, WordFacts
  <2>4. Dequeued(e, f)
    BY <1>1, <1>3, <2>1, <2>3, DequeueFacts DEF Enqueued, f
  <2>5. f \in DevOf(conf) /\ f.queue = <<>> /\ f.drops = d.drops
    BY <1>3, <2>2, <2>4 DEF Dequeued
  <2>6. /\ r \in DevOf(conf) /\ r.queue = f.queue /\ r.busy = TRUE
        /\ r.stoppedByDevice = f.stoppedByDevice /\ r.limits = f.limits
        /\ r.stoppedByQueueLimits = f.stoppedByQueueLimits /\ r.drops = f.drops
    BY <2>5 DEF DevOf
  <2> HIDE DEF r
  <2>7. r.stoppedByDevice <=> ~ Room(conf, r.queue)
    BY <2>4, <2>6 DEF Dequeued
  <2>8. IF conf.limits THEN LimitsKept(conf, r) ELSE ~ r.stoppedByQueueLimits
    <3>1. CASE conf.limits
      <4>1. LimitsKept(conf, f) /\ Settled(r.limits)
        BY <2>4, <2>6, <3>1 DEF Dequeued
      <4> QED
        BY <2>6, <3>1, <4>1 DEF LimitsKept
    <3>2. CASE ~ conf.limits
      BY <2>4, <2>6, <3>2 DEF Dequeued
    <3> QED
      BY <3>1, <3>2
  <2>9. QueueOK(conf, r)
    BY <2>5, <2>6, <2>7, <2>8 DEF QueueOK
  <2> QED
    BY <1>3, <1>4, <1>6, <2>1, <2>5, <2>6, <2>9 DEF Sent, Started
<1> QED
  BY <1>2, <1>5, <1>6

-----------------------------------------------------------------------------
(* The inductive invariant *)

\* Types; the disc counts what its internal queue holds; a deleted disc is
\* empty.
DataOK ==
  /\ conf \in Configurations /\ installed \in BOOLEAN /\ cut \in BOOLEAN
  /\ disc \in Seq(PacketsOf(conf)) /\ root \in Base(PacketsOf(conf))
  /\ root.m_peeked = FALSE /\ root.m_nPackets = Len(disc)
  /\ ~ installed => disc = <<>> /\ root.m_requeued = NoItem
  /\ offered \in 0 .. MaxOffered /\ lost \in Nat /\ delivered \in Nat

DevOK ==
  /\ dev \in [conf.txQueues -> DevOf(conf)]
  /\ \A q \in conf.txQueues : QueueOK(conf, dev[q])

\* Run goes on only in an installed disc and with quota left.
RunOK ==
  /\ pc \in {"idle", "run", "crashed"} /\ quota \in 0 .. conf.quota
  /\ pc = "run" => quota # 0 /\ installed /\ ~ cut

IInv == DataOK /\ DevOK /\ RunOK /\ BacklogWillRun

\* A stopped queue has a busy transmitter: its next completion will ask again.
LEMMA StoppedIsBusy ==
  ASSUME conf \in Configurations, NEW d, QueueOK(conf, d), IsStopped(d) PROVE d.busy
<1> SUFFICES ASSUME ~ d.busy PROVE FALSE
  BY DEF QueueOK, DevOf
<1>1. d.queue = <<>> /\ d.queue \in Seq(PacketsOf(conf))
  BY DEF QueueOK, DevOf
<1>2. ~ d.stoppedByDevice
  BY <1>1, RoomFacts DEF QueueOK, DevOf
<1>3. ~ d.stoppedByQueueLimits
  <2>1. CASE conf.limits
    BY <1>1, <2>1 DEF QueueOK, LimitsKept
  <2>2. CASE ~ conf.limits
    BY <2>2 DEF QueueOK
  <2> QED
    BY <2>1, <2>2
<1> QED
  BY <1>2, <1>3 DEF IsStopped

\* Replacing one queue by a sound one keeps the device sound.
LEMMA DevUpdate ==
  ASSUME DataOK, DevOK, NEW q \in conf.txQueues, NEW e, QueueOK(conf, e),
         dev' = [dev EXCEPT ![q] = e], conf' = conf
  PROVE  /\ DevOK' /\ dev'[q] = e
         /\ \A r \in conf.txQueues \ {q} : dev'[r] = dev[r]
<1>1. e \in DevOf(conf)
  BY DEF QueueOK
<1>2. dev' \in [conf.txQueues -> DevOf(conf)] /\ dev'[q] = e
  BY <1>1 DEF DevOK
<1>3. \A r \in conf.txQueues \ {q} : dev'[r] = dev[r]
  BY DEF DevOK
<1>4. \A r \in conf.txQueues : QueueOK(conf, dev'[r])
  BY <1>2, <1>3 DEF DevOK
<1> QED
  BY <1>2, <1>3, <1>4 DEF DevOK

\* The base class: what its operators do to the record of the disc.
Counts(P, r, n, item, drops) ==
  /\ r \in Base(P) /\ r.m_peeked = FALSE
  /\ r.m_nPackets = n /\ r.m_requeued = item /\ r.nTotalDroppedBeforeEnqueue = drops

LEMMA BaseFacts ==
  ASSUME NEW P, NEW b, NEW n, NEW i, NEW d, Counts(P, b, n, i, d)
  PROVE  /\ n \in Nat /\ d \in Nat /\ i \in P \cup {NoItem}
         /\ Counts(P, PacketReceived(b), n, i, d)
         /\ Counts(P, DropBeforeEnqueue(b), n, i, d + 1)
         /\ Counts(P, PacketEnqueued(b), n + 1, i, d)
         /\ n > 0 => Counts(P, PacketDequeued(b), n - 1, i, d)
         /\ Counts(P, ReleaseRequeued(b), n, NoItem, d)
         /\ \A x \in P : Counts(P, [b EXCEPT !.m_requeued = x], n, x, d)
<1> USE DEF Counts
<1>1. n \in Nat /\ d \in Nat /\ i \in P \cup {NoItem}
  BY DEF Base
<1>2. b.nTotalReceived + 1 \in Nat /\ b.nTotalEnqueued + 1 \in Nat
      /\ b.nTotalDequeued + 1 \in Nat /\ n + 1 \in Nat /\ d + 1 \in Nat
  BY <1>1 DEF Base
<1>3. Counts(P, PacketReceived(b), n, i, d)
  BY <1>2, Zenon DEF PacketReceived, Base
<1>4. Counts(P, DropBeforeEnqueue(b), n, i, d + 1)
  BY <1>2, Zenon DEF DropBeforeEnqueue, Base
<1>5. Counts(P, PacketEnqueued(b), n + 1, i, d)
  BY <1>2, Zenon DEF PacketEnqueued, Base
<1>6. ASSUME n > 0 PROVE Counts(P, PacketDequeued(b), n - 1, i, d)
  <2>1. n - 1 \in Nat
    BY <1>1, <1>6
  <2>2. PacketDequeued(b) = [b EXCEPT !.m_nPackets = n - 1,
                                      !.nTotalDequeued = b.nTotalDequeued + 1]
    BY DEF PacketDequeued, CountDequeued
  <2> QED
    BY <1>2, <2>1, <2>2, Zenon DEF Base
<1>7. Counts(P, ReleaseRequeued(b), n, NoItem, d)
  <2>1. ReleaseRequeued(b) = [b EXCEPT !.m_requeued = NoItem, !.m_peeked = FALSE]
    BY DEF ReleaseRequeued
  <2> QED
    BY <2>1 DEF Base
<1>8. \A x \in P : Counts(P, [b EXCEPT !.m_requeued = x], n, x, d)
  BY DEF Base
<1> QED
  BY <1>1, <1>3, <1>4, <1>5, <1>6, <1>7, <1>8

LEMMA RootCounts ==
  ASSUME DataOK
  PROVE  Counts(PacketsOf(conf), root, Len(disc), root.m_requeued,
                root.nTotalDroppedBeforeEnqueue)
BY DEF DataOK, Counts

LEMMA InitIInv == Init => IInv
<1> SUFFICES ASSUME Init PROVE IInv
  OBVIOUS
<1>1. conf \in Configurations /\ disc = <<>> /\ root = NewBase /\ pc = "idle"
  BY DEF Init
<1>2. DataOK
  <2>1. root \in Base(PacketsOf(conf)) /\ root.m_peeked = FALSE
        /\ root.m_nPackets = 0 /\ root.m_requeued = NoItem
    BY <1>1 DEF NewBase, Base
  <2>2. disc \in Seq(PacketsOf(conf)) /\ Len(disc) = 0
    BY <1>1
  <2>3. installed = TRUE /\ cut = FALSE /\ offered = 0 /\ lost = 0 /\ delivered = 0
    BY DEF Init
  <2>4. 0 \in 0 .. MaxOffered
    BY DiscStores
  <2> QED
    BY <1>1, <2>1, <2>2, <2>3, <2>4 DEF DataOK
<1>3. DevOK
  <2>1. PICK g \in IfLimited(Garbage, {0}) :
          dev = [q \in TxQueues |->
                   [queue |-> <<>>, busy |-> FALSE, stoppedByDevice |-> FALSE,
                    stoppedByQueueLimits |-> FALSE, wakes |-> 0, drops |-> 0,
                    limits |-> NewLimits(g)]]
    BY DEF Init
  <2> DEFINE d == [queue |-> <<>>, busy |-> FALSE, stoppedByDevice |-> FALSE,
                   stoppedByQueueLimits |-> FALSE, wakes |-> 0, drops |-> 0,
                   limits |-> NewLimits(g)]
  <2>2. g \in Words
    BY DiscStores, WordFacts DEF IfLimited, Words
  <2>3. NewLimits(g) \in Limits /\ Carries(NewLimits(g), 0)
    <3>1. 0 \in Words /\ Word - 1 \in Int /\ 0 \in 0 .. MaxLimit
      BY WordFacts DEF Words
    <3> QED
      BY <2>2, <3>1 DEF NewLimits, Limits, Carries
  <2>4. /\ d \in DevOf(conf) /\ d.queue = <<>> /\ d.limits = NewLimits(g) /\ d.wakes = 0
        /\ d.busy = FALSE /\ d.stoppedByDevice = FALSE /\ d.stoppedByQueueLimits = FALSE
        /\ d.drops = 0
    BY <2>3 DEF DevOf
  <2> HIDE DEF d
  <2>10. d.queue \in Seq(PacketsOf(conf))
    BY <2>4
  <2>5. Room(conf, d.queue)
    BY <1>1, <2>4, <2>10, RoomFacts
  <2>6. Total(conf, d.queue) = 0
    BY <1>1, <2>4, <2>10, TotalFacts
  <2>7. LimitsKept(conf, d)
    BY <1>1, <2>3, <2>4, <2>6, WordFacts, ConfFacts DEF LimitsKept
  <2>8. QueueOK(conf, d)
    BY <2>4, <2>5, <2>7 DEF QueueOK
  <2>9. dev = [q \in conf.txQueues |-> d]
    BY <2>1 DEF d, TxQueues
  <2> QED
    BY <2>4, <2>8, <2>9 DEF DevOK
<1>4. RunOK
  BY <1>1, ConfFacts DEF Init, RunOK
<1>5. BacklogWillRun
  BY <1>1 DEF BacklogWillRun, Backlogged, NewBase
<1> QED
  BY <1>2, <1>3, <1>4, <1>5 DEF IInv

\* A step that hands p to its queue of the device, and touches no other queue.
Passed(p) ==
  /\ Sent(dev[p.txq], p, dev'[p.txq])
  /\ delivered' = delivered + Started(dev[p.txq], dev'[p.txq])
  /\ \A r \in conf.txQueues \ {p.txq} : dev'[r] = dev[r]

\* Transmit to a queue that is not stopped: if Run ends here the disc is empty,
\* the queue is stopped and busy, or the quota is used up.
LEMMA SendStep ==
  ASSUME IInv, pc = "run", NEW p \in PacketsOf(conf), ~ IsStopped(dev[p.txq]),
         NEW b, NEW c, SendToDevice(p, b, c), b.m_requeued = NoItem,
         b.m_nPackets = Len(disc'), disc' \in Seq(PacketsOf(conf)),
         conf' = conf, installed' = installed
  PROVE  /\ DevOK' /\ RunOK' /\ BacklogWillRun' /\ delivered' \in Nat /\ cut' \in BOOLEAN
         /\ root' = b /\ Passed(p)
<1> DEFINE q == p.txq
           d == DevSend(dev[q], p, c)
<1>1. /\ DataOK /\ DevOK /\ RunOK /\ conf \in Configurations /\ installed \in BOOLEAN
      /\ q \in conf.txQueues /\ QueueOK(conf, dev[q]) /\ delivered \in Nat
  BY PacketFacts DEF IInv, DataOK, DevOK
<1>2. Sent(dev[q], p, d)
  BY <1>1, SendFacts
<1>3. /\ dev' = [dev EXCEPT ![q] = d] /\ delivered' = delivered + Started(dev[q], d)
      /\ root' = b
      /\ IF b.m_nPackets = 0 \/ IsStopped(d) THEN RunEnd
         ELSE /\ pc' = IF quota = 1 THEN "idle" ELSE "run"
              /\ quota' = quota - 1
              /\ cut' = (quota = 1)
  BY DEF SendToDevice
<1> HIDE DEF d, q
<1>4. DevOK' /\ dev'[q] = d /\ \A r \in conf.txQueues \ {q} : dev'[r] = dev[r]
  BY <1>1, <1>2, <1>3, DevUpdate DEF Sent
<1>5. d.busy
  BY <1>2 DEF Sent
<1>6. quota \in 1 .. conf.quota /\ installed /\ ~ cut /\ conf.quota \in Nat
  BY <1>1, ConfFacts DEF RunOK
<1>7. Started(dev[q], d) \in Nat
  BY DEF Started
<1>8. RunOK' /\ cut' \in BOOLEAN
  <2>1. CASE b.m_nPackets = 0 \/ IsStopped(d)
    <3>1. pc' = "idle" /\ quota' = 0 /\ cut' = cut /\ cut \in BOOLEAN
      BY <1>1, <1>3, <2>1 DEF RunEnd, DataOK
    <3> QED
      BY <1>6, <3>1 DEF RunOK
  <2>2. CASE ~ (b.m_nPackets = 0 \/ IsStopped(d)) /\ quota = 1
    <3>1. pc' = "idle" /\ quota' = 0 /\ cut' = TRUE
      <4>1. pc' = "idle" /\ quota' = 1 - 1 /\ cut' = (quota = 1)
        BY <1>3, <2>2
      <4>2. cut' = TRUE
        BY <2>2, <4>1, Zenon
      <4> QED
        BY <4>1, <4>2
    <3> QED
      BY <1>6, <3>1 DEF RunOK
  <2>3. CASE ~ (b.m_nPackets = 0 \/ IsStopped(d)) /\ quota # 1
    <3>1. pc' = "run" /\ quota' = quota - 1 /\ cut' = FALSE
      BY <1>3, <2>3
    <3>2. quota - 1 \in 0 .. conf.quota /\ quota - 1 # 0
      BY <1>6, <2>3
    <3> QED
      BY <1>6, <3>1, <3>2 DEF RunOK
  <2> QED
    BY <2>1, <2>2, <2>3
<1>9. BacklogWillRun'
  <2>1. CASE b.m_nPackets = 0
    <3>1. disc' = <<>>
      <4>1. \A s \in Seq(PacketsOf(conf)) : Len(s) = 0 => s = <<>>
        OBVIOUS
      <4> QED
        BY <2>1, <4>1
    <3> QED
      BY <1>3, <3>1 DEF BacklogWillRun, Backlogged
  <2>2. CASE b.m_nPackets # 0 /\ IsStopped(d)
    <3>1. IsStopped(dev'[q]) /\ dev'[q].busy
      BY <1>4, <1>5, <2>2
    <3> QED
      BY <1>1, <1>3, <3>1 DEF BacklogWillRun, WillWake, IsStopped, TxQueues
  <2>3. CASE ~ (b.m_nPackets = 0 \/ IsStopped(d))
    BY <1>3, <2>3 DEF BacklogWillRun
  <2> QED
    BY <2>1, <2>2, <2>3
<1> QED
  BY <1>1, <1>2, <1>3, <1>4, <1>7, <1>8, <1>9 DEF q, Passed

\* Restart hands the requeued packet to the device.
LEMMA RunRequeuedStep ==
  ASSUME IInv, RunRequeued
  PROVE  /\ IInv' /\ root.m_requeued \in PacketsOf(conf) /\ Passed(root.m_requeued)
         /\ root.m_requeued # NoItem /\ root'.m_requeued = NoItem
         /\ root'.nTotalDroppedBeforeEnqueue = root.nTotalDroppedBeforeEnqueue
<1> DEFINE p == root.m_requeued
           b == ReleaseRequeued(root)
<1>1. /\ DataOK /\ conf \in Configurations /\ root \in Base(PacketsOf(conf))
      /\ root.m_peeked = FALSE
  BY DEF IInv, DataOK
<1>2. /\ pc = "run" /\ p # NoItem /\ ~ IsStopped(dev[p.txq])
      /\ UNCHANGED <<conf, installed, disc, offered, lost>>
  BY DEF RunRequeued, MayTakeRequeued
<1>3. PICK c \in LimitOutcomes : SendToDevice(p, b, c)
  BY DEF RunRequeued
<1>4. Counts(PacketsOf(conf), b, Len(disc), NoItem, root.nTotalDroppedBeforeEnqueue)
  BY <1>1, RootCounts, BaseFacts
<1>5. p \in PacketsOf(conf)
  BY <1>1, <1>2 DEF Base
<1> HIDE DEF p, b
<1>6. disc' \in Seq(PacketsOf(conf)) /\ b.m_nPackets = Len(disc') /\ b.m_requeued = NoItem
  BY <1>1, <1>2, <1>4 DEF DataOK, Counts
<1>7. /\ DevOK' /\ RunOK' /\ BacklogWillRun' /\ delivered' \in Nat /\ cut' \in BOOLEAN
      /\ root' = b /\ Passed(p)
  BY <1>2, <1>3, <1>5, <1>6, SendStep
<1>8. DataOK'
  BY <1>1, <1>2, <1>4, <1>6, <1>7 DEF DataOK, Counts
<1>9. IInv'
  BY <1>7, <1>8 DEF IInv
<1> QED
  BY <1>2, <1>4, <1>5, <1>7, <1>9 DEF Counts, p

\* Restart hands the head of the disc to the device or requeues it.
LEMMA RunDequeuedStep ==
  ASSUME IInv, RunDequeued
  PROVE  /\ IInv' /\ disc # <<>> /\ Head(disc) \in PacketsOf(conf)
         /\ root'.nTotalDroppedBeforeEnqueue = root.nTotalDroppedBeforeEnqueue
         /\ \/ Passed(Head(disc)) /\ root'.m_requeued = NoItem
            \/ root'.m_requeued = Head(disc) /\ UNCHANGED dev /\ UNCHANGED delivered
<1> DEFINE p == Head(disc)
           b == PacketDequeued(root)
<1>1. /\ DataOK /\ DevOK /\ RunOK /\ conf \in Configurations
      /\ disc \in Seq(PacketsOf(conf)) /\ root \in Base(PacketsOf(conf))
      /\ root.m_peeked = FALSE /\ root.m_nPackets = Len(disc)
  BY DEF IInv, DataOK
<1>2. /\ pc = "run" /\ disc # <<>> /\ root.m_requeued = NoItem /\ disc' = Tail(disc)
      /\ UNCHANGED <<conf, installed, offered, lost>>
  BY DEF RunDequeued, MayDequeue
<1>3. /\ p \in PacketsOf(conf) /\ disc' \in Seq(PacketsOf(conf))
      /\ Len(disc) \in Nat \ {0} /\ Len(disc') = Len(disc) - 1
  BY <1>1, <1>2
<1>4. Counts(PacketsOf(conf), b, Len(disc'), NoItem, root.nTotalDroppedBeforeEnqueue)
  <2>1. Counts(PacketsOf(conf), root, Len(disc), NoItem, root.nTotalDroppedBeforeEnqueue)
    BY <1>1, <1>2, RootCounts
  <2>2. Len(disc) > 0
    BY <1>3
  <2>3. Counts(PacketsOf(conf), b, Len(disc) - 1, NoItem, root.nTotalDroppedBeforeEnqueue)
    BY <2>1, <2>2, BaseFacts
  <2> QED
    BY <1>3, <2>3
<1>5. b.m_nPackets = Len(disc') /\ b.m_requeued = NoItem
  BY <1>4 DEF Counts
<1>6. /\ p.txq \in conf.txQueues /\ QueueOK(conf, dev[p.txq])
      /\ installed /\ ~ cut /\ pc # "idle"
  BY <1>1, <1>2, <1>3, PacketFacts DEF DevOK, RunOK
<1>7. CASE IsStopped(dev[p.txq])
  <2>1. Requeue(p, b)
    BY <1>7 DEF RunDequeued
  <2> HIDE DEF p, b
  <2>2. root' = [b EXCEPT !.m_requeued = p] /\ pc' = "idle" /\ quota' = 0
        /\ UNCHANGED <<cut, dev, delivered>>
    BY <2>1 DEF Requeue, RunEnd
  <2>3. Counts(PacketsOf(conf), root', Len(disc'), p, root.nTotalDroppedBeforeEnqueue)
    BY <1>3, <1>4, <2>2, BaseFacts
  <2>4. DataOK'
    BY <1>1, <1>2, <1>3, <1>6, <2>2, <2>3 DEF DataOK, Counts
  <2>5. DevOK'
    BY <1>1, <1>2, <2>2 DEF DevOK
  <2>6. RunOK'
    BY <1>1, <1>2, <2>2, ConfFacts DEF RunOK
  <2>7. dev[p.txq].busy
    BY <1>1, <1>6, <1>7, StoppedIsBusy
  <2>8. BacklogWillRun'
    <3>1. root'.m_requeued = p
      BY <2>3 DEF Counts
    <3> QED
      BY <1>2, <1>6, <2>2, <2>7, <3>1, <1>7 DEF BacklogWillRun, WillWake, IsStopped, TxQueues
  <2>9. IInv'
    BY <2>4, <2>5, <2>6, <2>8 DEF IInv
  <2> QED
    BY <1>2, <1>3, <2>2, <2>3, <2>9 DEF Counts, p
<1>8. CASE ~ IsStopped(dev[p.txq])
  <2>1. PICK c \in LimitOutcomes : SendToDevice(p, b, c)
    BY <1>8 DEF RunDequeued
  <2> HIDE DEF p, b
  <2>2. /\ DevOK' /\ RunOK' /\ BacklogWillRun' /\ delivered' \in Nat /\ cut' \in BOOLEAN
        /\ root' = b /\ Passed(p)
    BY <1>2, <1>3, <1>5, <1>8, <2>1, SendStep
  <2>3. DataOK'
    BY <1>1, <1>2, <1>3, <1>4, <1>6, <2>2 DEF DataOK, Counts
  <2>4. IInv'
    BY <2>2, <2>3 DEF IInv
  <2> QED
    BY <1>2, <1>3, <1>4, <2>2, <2>4 DEF Counts, p
<1> QED
  BY <1>7, <1>8

LEMMA RunNothingIInv == ASSUME IInv, RunNothing PROVE IInv'
<1>1. DataOK /\ DevOK /\ RunOK /\ conf \in Configurations
  BY DEF IInv, DataOK
<1>2. /\ pc = "run" /\ ~ MayTakeRequeued /\ ~ MayDequeue /\ pc' = "idle" /\ quota' = 0
      /\ UNCHANGED <<conf, installed, disc, root, dev, cut, offered, lost, delivered>>
  BY DEF RunNothing, RunEnd
<1>3. DataOK' /\ DevOK'
  BY <1>1, <1>2 DEF DataOK, DevOK
<1>4. RunOK'
  BY <1>1, <1>2, ConfFacts DEF RunOK
<1>5. ASSUME NEW q \in conf.txQueues, IsStopped(dev[q]) PROVE WillWake(q)
  BY <1>1, <1>5, StoppedIsBusy DEF DevOK, WillWake
<1>6. CASE root.m_requeued # NoItem
  <2> DEFINE q == root.m_requeued.txq
  <2>1. q \in conf.txQueues
    BY <1>1, <1>6, PacketFacts DEF DataOK, Base
  <2>2. IsStopped(dev[q])
    BY <1>2, <1>6 DEF MayTakeRequeued
  <2>3. WillWake(q)
    BY <1>5, <2>1, <2>2
  <2> QED
    BY <1>2, <1>3, <1>4, <2>1, <2>3 DEF IInv, BacklogWillRun, WillWake, IsStopped, TxQueues
<1>7. CASE root.m_requeued = NoItem /\ disc # <<>>
  <2>1. PICK q \in conf.txQueues : IsStopped(dev[q])
    BY <1>2, <1>7 DEF MayDequeue, TxQueues
  <2>2. WillWake(q)
    BY <1>5, <2>1
  <2> QED
    BY <1>2, <1>3, <1>4, <1>7, <2>1, <2>2 DEF IInv, BacklogWillRun, WillWake, IsStopped, TxQueues
<1>8. CASE root.m_requeued = NoItem /\ disc = <<>>
  BY <1>2, <1>3, <1>4, <1>8 DEF IInv, BacklogWillRun, Backlogged
<1> QED
  BY <1>6, <1>7, <1>8

\* A packet handed to Send is a packet.
LEMMA OfferedPacket ==
  ASSUME IInv, NEW q \in TxQueues, NEW z \in Sizes, offered < MaxOffered
  PROVE  /\ [txq |-> q, size |-> z, id |-> offered + 1] \in PacketsOf(conf)
         /\ offered + 1 \in 0 .. MaxOffered
<1>1. offered \in 0 .. MaxOffered /\ MaxOffered \in Nat
  BY DiscStores DEF IInv, DataOK
<1>2. offered + 1 \in 1 .. MaxOffered
  BY <1>1
<1> QED
  BY <1>2 DEF PacketsOf, TxQueues

\* Send into the disc, which takes the packet or drops it.
LEMMA ThroughDiscStep ==
  ASSUME IInv, NEW q \in TxQueues, NEW z \in Sizes, SendThroughDisc(q, z)
  PROVE  LET p == [txq |-> q, size |-> z, id |-> offered + 1]
             drops == root.nTotalDroppedBeforeEnqueue
         IN  /\ IInv' /\ p \in PacketsOf(conf) /\ root'.m_requeued = root.m_requeued
             /\ \/ disc' = disc /\ root'.nTotalDroppedBeforeEnqueue = drops + 1
                \/ disc' = Append(disc, p) /\ root'.nTotalDroppedBeforeEnqueue = drops
<1> DEFINE p == [txq |-> q, size |-> z, id |-> offered + 1]
<1>1. /\ DataOK /\ DevOK /\ conf \in Configurations /\ disc \in Seq(PacketsOf(conf))
  BY DEF IInv, DataOK
<1>2. /\ offered < MaxOffered /\ installed /\ DiscEnqueue(p) /\ pc' = "run"
      /\ quota' = conf.quota /\ cut' = FALSE /\ offered' = offered + 1
      /\ UNCHANGED <<conf, installed, dev, lost, delivered>>
  BY DEF SendThroughDisc, RunBegin
<1>3. p \in PacketsOf(conf) /\ offered' \in 0 .. MaxOffered
  BY <1>2, OfferedPacket
<1> DEFINE b == PacketReceived(root)
           drops == root.nTotalDroppedBeforeEnqueue
<1>4. Counts(PacketsOf(conf), b, Len(disc), root.m_requeued, drops)
  BY <1>1, RootCounts, BaseFacts
<1> HIDE DEF p, b, drops
<1>5. /\ disc' \in Seq(PacketsOf(conf)) /\ root' \in Base(PacketsOf(conf))
      /\ root'.m_peeked = FALSE /\ root'.m_nPackets = Len(disc')
      /\ root'.m_requeued = root.m_requeued
      /\ \/ disc' = disc /\ root'.nTotalDroppedBeforeEnqueue = drops + 1
         \/ disc' = Append(disc, p) /\ root'.nTotalDroppedBeforeEnqueue = drops
  <2>1. CASE Len(disc) + 1 > DiscLimit
    <3>1. root' = DropBeforeEnqueue(b) /\ disc' = disc
      BY <1>2, <2>1 DEF DiscEnqueue, b
    <3>2. Counts(PacketsOf(conf), root', Len(disc), root.m_requeued, drops + 1)
      BY <1>4, <3>1, BaseFacts
    <3> QED
      BY <1>1, <3>1, <3>2 DEF Counts
  <2>2. CASE ~ (Len(disc) + 1 > DiscLimit)
    <3>1. root' = PacketEnqueued(b) /\ disc' = Append(disc, p)
      BY <1>2, <2>2 DEF DiscEnqueue, b
    <3>2. Counts(PacketsOf(conf), root', Len(disc) + 1, root.m_requeued, drops)
      BY <1>4, <3>1, BaseFacts
    <3>3. disc' \in Seq(PacketsOf(conf)) /\ Len(disc') = Len(disc) + 1
      BY <1>1, <1>3, <3>1
    <3> QED
      BY <3>1, <3>2, <3>3 DEF Counts
  <2> QED
    BY <2>1, <2>2
<1>6. DataOK'
  BY <1>1, <1>2, <1>3, <1>5 DEF DataOK
<1>7. DevOK'
  BY <1>1, <1>2 DEF DevOK
<1>8. RunOK'
  BY <1>1, <1>2, ConfFacts DEF RunOK
<1>9. BacklogWillRun'
  BY <1>2 DEF BacklogWillRun
<1>10. IInv'
  BY <1>6, <1>7, <1>8, <1>9 DEF IInv
<1> QED
  BY <1>3, <1>5, <1>10 DEF p, drops

\* Send without a disc: the packet is lost or goes straight to the device.
LEMMA DirectStep ==
  ASSUME IInv, NEW q \in TxQueues, NEW z \in Sizes, SendDirect(q, z)
  PROVE  LET p == [txq |-> q, size |-> z, id |-> offered + 1]
         IN  /\ IInv' /\ p \in PacketsOf(conf) /\ ~ installed
             /\ \/ UNCHANGED dev /\ UNCHANGED delivered /\ lost' = lost + 1
                \/ Passed(p) /\ UNCHANGED lost
<1> DEFINE p == [txq |-> q, size |-> z, id |-> offered + 1]
<1>1. /\ DataOK /\ DevOK /\ RunOK /\ conf \in Configurations /\ installed \in BOOLEAN
      /\ q \in conf.txQueues /\ QueueOK(conf, dev[q]) /\ lost \in Nat /\ delivered \in Nat
  BY DEF IInv, DataOK, DevOK, TxQueues
<1>2. /\ pc = "idle" /\ offered < MaxOffered /\ ~ installed /\ offered' = offered + 1
      /\ UNCHANGED <<conf, installed, disc, root, pc, quota, cut>>
  BY DEF SendDirect
<1>3. p \in PacketsOf(conf) /\ offered' \in 0 .. MaxOffered
  BY <1>2, OfferedPacket
<1>4. RunOK'
  BY <1>1, <1>2 DEF RunOK
<1>5. BacklogWillRun'
  BY <1>1, <1>2 DEF DataOK, BacklogWillRun, Backlogged
<1>6. CASE IsStopped(dev[q])
  <2>1. lost' = lost + 1 /\ dev' = dev /\ delivered' = delivered
    BY <1>6 DEF SendDirect
  <2> HIDE DEF p
  <2>2. DataOK'
    BY <1>1, <1>2, <1>3, <2>1 DEF DataOK
  <2>3. DevOK'
    BY <1>1, <1>2, <2>1 DEF DevOK
  <2>4. IInv'
    BY <1>4, <1>5, <2>2, <2>3 DEF IInv
  <2> QED
    BY <1>2, <1>3, <2>1, <2>4 DEF p
<1>7. CASE ~ IsStopped(dev[q])
  <2>1. PICK c \in LimitOutcomes :
          /\ dev' = [dev EXCEPT ![q] = DevSend(dev[q], p, c)]
          /\ delivered' = delivered + Started(dev[q], DevSend(dev[q], p, c))
    BY <1>7 DEF SendDirect
  <2> DEFINE d == DevSend(dev[q], p, c)
  <2>2. lost' = lost
    BY <1>7 DEF SendDirect
  <2>3. Sent(dev[q], p, d)
    <3> HIDE DEF p
    <3> QED
      BY <1>1, <1>3, <1>7, SendFacts
  <2> HIDE DEF p, d
  <2>4. DevOK' /\ dev'[q] = d /\ \A r \in conf.txQueues \ {q} : dev'[r] = dev[r]
    BY <1>1, <1>2, <2>1, <2>3, DevUpdate DEF Sent, d
  <2>5. delivered' = delivered + Started(dev[q], d) /\ delivered' \in Nat
    BY <1>1, <2>1 DEF Started, d
  <2>6. DataOK'
    BY <1>1, <1>2, <1>3, <2>2, <2>5 DEF DataOK
  <2>7. IInv'
    BY <1>4, <1>5, <2>4, <2>6 DEF IInv
  <2>8. p.txq = q
    BY DEF p
  <2>9. Passed(p)
    BY <2>3, <2>4, <2>5, <2>8 DEF Passed
  <2> QED
    BY <1>2, <1>3, <2>2, <2>7, <2>9 DEF p
<1> QED
  BY <1>6, <1>7

\* The event that Wake scheduled leaves everything but its own count alone.
LEMMA WakeStep ==
  ASSUME IInv, NEW q \in TxQueues, WakeEvent(q)
  PROVE  /\ IInv'
         /\ \A r \in conf.txQueues :
              dev'[r].queue = dev[r].queue /\ dev'[r].drops = dev[r].drops
<1> DEFINE e == [dev[q] EXCEPT !.wakes = @ - 1]
           d == dev[q]
<1>1. /\ DataOK /\ DevOK /\ RunOK /\ conf \in Configurations /\ installed \in BOOLEAN
      /\ q \in conf.txQueues /\ QueueOK(conf, d) /\ d \in DevOf(conf)
  BY DEF IInv, DataOK, DevOK, TxQueues, QueueOK
<1>2. /\ pc = "idle" /\ d.wakes > 0 /\ dev' = [dev EXCEPT ![q] = e]
      /\ UNCHANGED <<conf, installed, disc, root, offered, lost, delivered>>
      /\ IF installed THEN RunBegin ELSE pc' = "crashed" /\ UNCHANGED <<quota, cut>>
  BY DEF WakeEvent
<1>3. d.wakes - 1 \in 0 .. 2
  BY <1>1, <1>2 DEF DevOf
<1>4. /\ e \in DevOf(conf) /\ e.queue = d.queue /\ e.busy = d.busy /\ e.limits = d.limits
      /\ e.stoppedByDevice = d.stoppedByDevice /\ e.drops = d.drops
      /\ e.stoppedByQueueLimits = d.stoppedByQueueLimits
  BY <1>1, <1>3, Zenon DEF DevOf
<1>5. d.busy
  BY <1>1, <1>2 DEF QueueOK, DevOf
<1> HIDE DEF e, d
<1>6. QueueOK(conf, e)
  <2>1. LimitsKept(conf, d) => LimitsKept(conf, e)
    BY <1>4 DEF LimitsKept
  <2> QED
    BY <1>1, <1>4, <1>5, <2>1 DEF QueueOK
<1>7. DevOK' /\ dev'[q] = e /\ \A r \in conf.txQueues \ {q} : dev'[r] = dev[r]
  BY <1>1, <1>2, <1>6, DevUpdate
<1>8. RunOK' /\ cut' \in BOOLEAN /\ pc' # "idle"
  <2>1. CASE installed
    <3>1. pc' = "run" /\ quota' = conf.quota /\ cut' = FALSE /\ installed' /\ conf' = conf
      BY <1>2, <2>1 DEF RunBegin
    <3>2. conf.quota \in 0 .. conf.quota /\ conf.quota # 0
      BY <1>1, ConfFacts
    <3>3. RunOK'
      BY <3>1, <3>2 DEF RunOK
    <3> QED
      BY <3>1, <3>3
  <2>2. CASE ~ installed
    <3>1. pc' = "crashed" /\ quota' = quota /\ cut' = cut /\ conf' = conf
      BY <1>2, <2>2
    <3> QED
      BY <1>1, <3>1 DEF RunOK, DataOK
  <2> QED
    BY <2>1, <2>2
<1>9. DataOK'
  BY <1>1, <1>2, <1>8 DEF DataOK
<1>10. BacklogWillRun'
  BY <1>8 DEF BacklogWillRun
<1>11. \A r \in conf.txQueues :
         dev'[r].queue = dev[r].queue /\ dev'[r].drops = dev[r].drops
  BY <1>4, <1>7 DEF d
<1> QED
  BY <1>7, <1>8, <1>9, <1>10, <1>11 DEF IInv

\* TransmitComplete: nothing to send, or the head goes on the wire; and if the
\* disc waits for this queue, it still will be woken.
LEMMA TransmitStep ==
  ASSUME IInv, NEW q \in TxQueues, TransmitComplete(q)
  PROVE  /\ IInv' /\ \A r \in conf.txQueues \ {q} : dev'[r] = dev[r]
         /\ dev'[q].drops = dev[q].drops
         /\ \/ /\ dev[q].queue = <<>> /\ dev'[q].queue = <<>> /\ UNCHANGED delivered
            \/ /\ dev[q].queue # <<>> /\ dev'[q].queue = Tail(dev[q].queue)
               /\ delivered' = delivered + 1
<1> DEFINE d == dev[q]
<1>1. /\ DataOK /\ DevOK /\ RunOK /\ conf \in Configurations /\ installed \in BOOLEAN
      /\ q \in conf.txQueues /\ QueueOK(conf, d) /\ d \in DevOf(conf) /\ delivered \in Nat
  BY DEF IInv, DataOK, DevOK, TxQueues, QueueOK
<1>2. /\ pc = "idle" /\ d.busy /\ d.wakes = 0
      /\ UNCHANGED <<conf, installed, disc, root, pc, quota, cut, offered, lost>>
  BY DEF TransmitComplete
<1>3. RunOK'
  BY <1>1, <1>2 DEF RunOK
\* The conclusion, from what becomes of the queue.
<1>4. ASSUME NEW e, QueueOK(conf, e), dev' = [dev EXCEPT ![q] = e], delivered' \in Nat,
             installed /\ IsStopped(d) => e.wakes > 0 \/ IsStopped(e)
      PROVE  /\ IInv' /\ dev'[q] = e /\ \A r \in conf.txQueues \ {q} : dev'[r] = dev[r]
  <2> HIDE DEF d
  <2>1. DevOK' /\ dev'[q] = e /\ \A r \in conf.txQueues \ {q} : dev'[r] = dev[r]
    BY <1>1, <1>2, <1>4, DevUpdate
  <2>2. DataOK'
    BY <1>1, <1>2, <1>4 DEF DataOK
  <2>3. ASSUME NEW r \in conf.txQueues, WillWake(r), installed
        PROVE  dev'[r].wakes > 0 \/ (IsStopped(dev'[r]) /\ dev'[r].busy)
    <3>1. CASE r # q
      BY <2>1, <2>3, <3>1 DEF WillWake
    <3>2. CASE r = q
      <4>1. IsStopped(d)
        BY <1>1, <1>2, <2>3, <3>2 DEF WillWake, d
      <4>2. e.wakes > 0 \/ IsStopped(e)
        BY <1>4, <2>3, <4>1
      <4>3. IsStopped(e) => e.busy
        BY <1>1, <1>4, StoppedIsBusy
      <4> QED
        BY <2>1, <3>2, <4>2, <4>3
    <3> QED
      BY <3>1, <3>2
  <2>4. BacklogWillRun'
    <3> SUFFICES ASSUME Backlogged, ~ cut
                 PROVE  BacklogWillRun'
      BY <1>2 DEF BacklogWillRun, Backlogged
    <3>1. installed
      BY <1>1 DEF Backlogged, DataOK
    <3>2. PICK r \in conf.txQueues : WillWake(r)
      BY <1>2 DEF IInv, BacklogWillRun, TxQueues
    <3>3. root.m_requeued # NoItem =>
            WillWake(root.m_requeued.txq) /\ root.m_requeued.txq \in conf.txQueues
      BY <1>1, <1>2, PacketFacts DEF IInv, BacklogWillRun, DataOK, Base
    <3>4. dev'[r].wakes > 0 \/ (IsStopped(dev'[r]) /\ dev'[r].busy)
      BY <2>3, <3>1, <3>2
    <3>5. root.m_requeued # NoItem =>
            LET t == root.m_requeued.txq
            IN  dev'[t].wakes > 0 \/ (IsStopped(dev'[t]) /\ dev'[t].busy)
      BY <2>3, <3>1, <3>3
    <3> QED
      BY <1>2, <3>2, <3>4, <3>5 DEF BacklogWillRun, WillWake, IsStopped, TxQueues
  <2> QED
    BY <1>3, <2>1, <2>2, <2>4 DEF IInv
<1>5. CASE d.queue = <<>>
  <2> DEFINE e == [d EXCEPT !.busy = FALSE]
  <2>1. dev' = [dev EXCEPT ![q] = e] /\ delivered' = delivered
    BY <1>5 DEF TransmitComplete
  <2> HIDE DEF d
  <2>2. /\ e \in DevOf(conf) /\ e.queue = d.queue /\ e.busy = FALSE /\ e.limits = d.limits
        /\ e.stoppedByDevice = d.stoppedByDevice /\ e.wakes = d.wakes /\ e.drops = d.drops
        /\ e.stoppedByQueueLimits = d.stoppedByQueueLimits
    BY <1>1, Zenon DEF DevOf
  <2> HIDE DEF e
  <2>3. QueueOK(conf, e)
    <3>1. LimitsKept(conf, d) => LimitsKept(conf, e)
      BY <2>2 DEF LimitsKept
    <3> QED
      BY <1>1, <1>2, <1>5, <2>2, <3>1 DEF QueueOK
  <2>4. IsStopped(d) => IsStopped(e)
    BY <2>2 DEF IsStopped
  <2>5. IInv' /\ dev'[q] = e /\ \A r \in conf.txQueues \ {q} : dev'[r] = dev[r]
    BY <1>1, <1>4, <2>1, <2>3, <2>4
  <2> QED
    BY <1>5, <2>1, <2>2, <2>5 DEF d
<1>6. CASE d.queue # <<>>
  <2>1. PICK c \in LimitOutcomes : dev' = [dev EXCEPT ![q] = DevDequeue(d, c)]
    BY <1>6 DEF TransmitComplete
  <2>2. delivered' = delivered + 1 /\ delivered' \in Nat
    BY <1>1, <1>6 DEF TransmitComplete
  <2> DEFINE e == DevDequeue(d, c)
  <2> HIDE DEF d
  <2>3. conf.limits =>
          /\ Carries(d.limits, Total(conf, d.queue))
          /\ Total(conf, d.queue) <= MaxLimit + (Mtu + conf.linkHeader)
          /\ ~ d.stoppedByQueueLimits => Total(conf, Tail(d.queue)) <= MaxLimit
    <3> SUFFICES ASSUME conf.limits
                 PROVE  /\ Carries(d.limits, Total(conf, d.queue))
                        /\ Total(conf, d.queue) <= MaxLimit + (Mtu + conf.linkHeader)
                        /\ ~ d.stoppedByQueueLimits => Total(conf, Tail(d.queue)) <= MaxLimit
      OBVIOUS
    <3>1. LimitsKept(conf, d)
      BY <1>1 DEF QueueOK
    <3>2. d.queue \in Seq(PacketsOf(conf)) /\ Head(d.queue) \in PacketsOf(conf)
      BY <1>1, <1>6 DEF DevOf
    <3>3. /\ Total(conf, Tail(d.queue))
               = Total(conf, d.queue) - (Head(d.queue).size + conf.linkHeader)
          /\ Total(conf, d.queue) \in Nat
      BY <1>1, <1>6, <3>2, TotalFacts
    <3>4. Head(d.queue).size + conf.linkHeader \in Nat
      BY <1>1, <3>2, PacketFacts
    <3>5. Total(conf, Tail(d.queue)) <= Total(conf, d.queue)
      BY <3>3, <3>4
    <3>6. Total(conf, Tail(d.queue)) \in Int
      BY <3>3, <3>4
    <3> QED
      BY <3>1, <3>3, <3>5, <3>6, WordFacts DEF LimitsKept
  <2>4. Dequeued(d, e)
    BY <1>1, <1>2, <1>6, <2>3, DequeueFacts DEF QueueOK
  <2> HIDE DEF e
  <2>5. QueueOK(conf, e)
    BY <1>1, <1>2, <2>4 DEF QueueOK, Dequeued
  <2>6. IInv' /\ dev'[q] = e /\ \A r \in conf.txQueues \ {q} : dev'[r] = dev[r]
    BY <1>4, <2>1, <2>2, <2>4, <2>5 DEF Dequeued, e
  <2> QED
    BY <1>6, <2>2, <2>4, <2>6 DEF Dequeued, d
<1> QED
  BY <1>5, <1>6

LEMMA DeleteRootIInv == ASSUME IInv, DeleteRoot PROVE IInv'
<1>1. /\ DataOK /\ DevOK /\ RunOK /\ conf \in Configurations
  BY DEF IInv, DataOK
<1>2. /\ pc = "idle" /\ installed' = FALSE /\ disc' = <<>> /\ root' = NewBase
      /\ cut' = FALSE /\ UNCHANGED <<conf, dev, pc, quota, offered, delivered>>
      /\ lost' = lost + root.nTotalDroppedBeforeEnqueue + Len(disc)
                  + (IF root.m_requeued = NoItem THEN 0 ELSE 1)
  BY DEF DeleteRoot
<1>3. lost' \in Nat
  <2>1. lost \in Nat /\ root.nTotalDroppedBeforeEnqueue \in Nat /\ Len(disc) \in Nat
    BY <1>1 DEF DataOK, Base
  <2> QED
    BY <1>2, <2>1
<1>4. /\ root' \in Base(PacketsOf(conf)) /\ root'.m_peeked = FALSE
      /\ root'.m_nPackets = 0 /\ root'.m_requeued = NoItem
  BY <1>2 DEF NewBase, Base
<1>5. disc' \in Seq(PacketsOf(conf)) /\ Len(disc') = 0
  BY <1>2
<1>6. DataOK'
  BY <1>1, <1>2, <1>3, <1>4, <1>5 DEF DataOK
<1>7. DevOK'
  BY <1>1, <1>2 DEF DevOK
<1>8. RunOK'
  BY <1>1, <1>2 DEF RunOK
<1>9. BacklogWillRun'
  BY <1>2, <1>4 DEF BacklogWillRun, Backlogged
<1> QED
  BY <1>6, <1>7, <1>8, <1>9 DEF IInv

LEMMA NextIInv == IInv /\ [Next]_vars => IInv'
<1> SUFFICES ASSUME IInv, [Next]_vars PROVE IInv'
  OBVIOUS
<1>1. ASSUME NEW q \in TxQueues, NEW z \in Sizes, SendThroughDisc(q, z) PROVE IInv'
  BY <1>1, ThroughDiscStep
<1>2. ASSUME NEW q \in TxQueues, NEW z \in Sizes, SendDirect(q, z) PROVE IInv'
  BY <1>2, DirectStep
<1>3. ASSUME NEW q \in TxQueues, WakeEvent(q) PROVE IInv'
  BY <1>3, WakeStep
<1>4. ASSUME NEW q \in TxQueues, TransmitComplete(q) PROVE IInv'
  BY <1>4, TransmitStep
<1>5. CASE RunRequeued
  BY <1>5, RunRequeuedStep
<1>6. CASE RunDequeued
  BY <1>6, RunDequeuedStep
<1>7. CASE RunNothing
  BY <1>7, RunNothingIInv
<1>8. CASE DeleteRoot
  BY <1>8, DeleteRootIInv
<1>9. CASE UNCHANGED vars
  BY <1>9 DEF vars, IInv, DataOK, DevOK, RunOK, BacklogWillRun, Backlogged, WillWake,
              IsStopped, TxQueues
<1> QED
  BY <1>1, <1>2, <1>3, <1>4, <1>5, <1>6, <1>7, <1>8, <1>9 DEF Next

\* What the invariant says in the words of the model.
LEMMA SoundHere == IInv => FlowControlSound
<1> SUFFICES ASSUME IInv PROVE FlowControlSound
  OBVIOUS
<1>1. /\ DataOK /\ DevOK /\ RunOK /\ conf \in Configurations /\ TxQueues = conf.txQueues
      /\ Packets = PacketsOf(conf)
  BY DEF IInv, DataOK, TxQueues, Packets, PacketsOf
<1>2. ASSUME NEW q \in conf.txQueues
      PROVE  /\ QueueOK(conf, dev[q]) /\ dev[q].queue \in Seq(PacketsOf(conf))
             /\ dev[q].wakes \in 0 .. 2 /\ dev[q].drops \in Nat /\ dev[q].limits \in Limits
  BY <1>1 DEF DevOK, QueueOK, DevOf
<1>3. TypeOK
  <2>1. /\ installed \in BOOLEAN /\ disc \in Seq(Packets) /\ root \in Base(Packets)
        /\ {offered, lost, delivered} \subseteq Nat
    BY <1>1 DEF DataOK
  <2>2. pc \in {"idle", "run", "crashed"} /\ quota \in 0 .. conf.quota
    BY <1>1 DEF RunOK
  <2> QED
    BY <1>1, <1>2, <2>1, <2>2 DEF TypeOK
<1>4. DropsOnlyByHeader
  BY <1>1, <1>2 DEF DropsOnlyByHeader, QueueOK, LinkHeader
<1>5. ASSUME NEW q \in conf.txQueues, conf.limits
      PROVE  LET d == dev[q]
             IN  /\ InFlight(d.limits) = BytesIn(d) /\ d.limits.m_limit \in 0 .. MaxLimit
                 /\ BytesIn(d) <= MaxLimit + (Mtu + conf.linkHeader)
                 /\ d.stoppedByQueueLimits => Available(d.limits) < 0 /\ d.queue # <<>>
  <2> DEFINE d == dev[q]
             b == Total(conf, d.queue)
  <2>1. LimitsKept(conf, d) /\ d.limits \in Limits /\ d.queue \in Seq(PacketsOf(conf))
    BY <1>2, <1>5 DEF QueueOK
  <2>2. b \in Nat /\ BytesIn(d) = b
    BY <1>1, <2>1, TotalFacts, BytesAreTotal
  <2>3. /\ Carries(d.limits, b) /\ b <= MaxLimit + (Mtu + conf.linkHeader)
        /\ d.busy => Settled(d.limits)
        /\ d.stoppedByQueueLimits => d.queue # <<>> /\ d.limits.m_limit < b
    BY <2>1 DEF LimitsKept
  <2>4. d.stoppedByQueueLimits => d.busy
    BY <1>1, <1>2, StoppedIsBusy DEF IsStopped
  <2> HIDE DEF b, d
  <2>5. b <= MaxLimit + MaxObject
    BY <1>1, <2>2, <2>3, ConfFacts, WordFacts
  <2>6. InFlight(d.limits) = b /\ (Settled(d.limits) => Available(d.limits) = d.limits.m_limit - b)
    BY <2>1, <2>2, <2>3, <2>5, AvailableFacts
  <2>7. d.limits.m_limit \in 0 .. MaxLimit
    BY <2>1 DEF Limits
  <2>8. d.stoppedByQueueLimits => Available(d.limits) < 0
    BY <2>2, <2>3, <2>4, <2>6, <2>7, WordFacts
  <2> QED
    BY <2>2, <2>3, <2>6, <2>7, <2>8 DEF d
<1>6. StopFlagExact
  <2> SUFFICES ASSUME NEW q \in conf.txQueues
               PROVE  /\ ~ HasRoom(dev[q]) => dev[q].stoppedByDevice
                      /\ dev[q].stoppedByDevice /\ HasRoom(dev[q]) =>
                           /\ dev[q].drops > 0 /\ InHeaderGap(dev[q])
                           /\ dev[q].busy /\ dev[q].queue # <<>>
                      /\ dev[q].stoppedByQueueLimits =>
                           Available(dev[q].limits) < 0 /\ dev[q].queue # <<>>
    BY <1>1 DEF StopFlagExact
  <2>1. /\ ~ HasRoom(dev[q]) => dev[q].stoppedByDevice
        /\ dev[q].stoppedByDevice /\ HasRoom(dev[q]) =>
             /\ dev[q].drops > 0 /\ InHeaderGap(dev[q])
             /\ dev[q].busy /\ dev[q].queue # <<>>
    <3> DEFINE d == dev[q]
    <3>1. QueueOK(conf, d) /\ d.queue \in Seq(PacketsOf(conf))
      BY <1>2
    <3> HIDE DEF d
    <3>2. ~ HasRoom(d) => d.stoppedByDevice
      BY <1>1, <3>1, RoomFacts DEF QueueOK
    <3>3. ASSUME d.stoppedByDevice, HasRoom(d)
          PROVE  d.drops > 0 /\ InHeaderGap(d) /\ d.queue # <<>>
      BY <1>1, <3>1, <3>3, RoomFacts DEF QueueOK
    <3>4. d.stoppedByDevice => d.busy
      BY <1>1, <3>1, StoppedIsBusy DEF IsStopped
    <3> QED
      BY <3>2, <3>3, <3>4 DEF d
  <2>2. CASE conf.limits
    BY <1>5, <2>1, <2>2
  <2>3. CASE ~ conf.limits
    BY <1>2, <2>1, <2>3 DEF QueueOK
  <2> QED
    BY <2>2, <2>3
<1>7. LimitsHold
  <2>1. MaxLimit + (Mtu + conf.linkHeader) = MaxLimit + Mtu + LinkHeader
    BY <1>1, ConfFacts, WordFacts DEF LinkHeader
  <2> QED
    BY <1>1, <1>5, <2>1 DEF LimitsHold, HasLimits
<1> QED
  BY <1>3, <1>4, <1>6, <1>7 DEF FlowControlSound

-----------------------------------------------------------------------------
(* Flow control and wakeups *)

\* Flow control between disc and device, for every device and every interleaving
\* of Send, wake events and TransmitComplete: the device queue refuses a packet
\* only for the link header that NetDeviceQueue leaves out, its flags otherwise
\* say exactly whether there is room, and DynamicQueueLimits keeps count across
\* the wrap of its counters.
THEOREM FlowControlCorrect == Spec => []FlowControlSound
<1>1. Init => IInv
  BY InitIInv
<1>2. IInv /\ [Next]_vars => IInv'
  BY NextIInv
<1>3. IInv => FlowControlSound
  BY SoundHere
<1> QED
  BY <1>1, <1>2, <1>3, PTL DEF Spec

\* No wakeup is lost: whenever QueueDisc::Run has returned and left packets, a
\* wake is scheduled or a stopped queue's transmitter is busy, for every device,
\* unless the Run used up its quota.
THEOREM BacklogCorrect == Spec => []BacklogWillRun
<1>1. Init => IInv
  BY InitIInv
<1>2. IInv /\ [Next]_vars => IInv'
  BY NextIInv
<1>3. IInv => BacklogWillRun
  BY DEF IInv
<1> QED
  BY <1>1, <1>2, <1>3, PTL DEF Spec

-----------------------------------------------------------------------------
(* Packets are conserved *)

\* The packets in the device queues of d and those they refused.
Occupies(d) == Len(d.queue) + d.drops
InQueues(k, d) == Cardinality(SlotsIn(k.txQueues, [q \in k.txQueues |-> Occupies(d[q])]))

CountInv ==
  offered = root.nTotalDroppedBeforeEnqueue + lost + delivered + Len(disc)
              + (IF root.m_requeued = NoItem THEN 0 ELSE 1) + InQueues(conf, dev)

\* Their number, and how it follows the queue q.
LEMMA QueueCount ==
  ASSUME NEW k \in Configurations, NEW d \in [k.txQueues -> DevOf(k)],
         NEW e \in [k.txQueues -> DevOf(k)], NEW q \in k.txQueues,
         \A r \in k.txQueues \ {q} : e[r].queue = d[r].queue /\ e[r].drops = d[r].drops
  PROVE  /\ InQueues(k, d) \in Nat
         /\ Occupies(e[q]) = Occupies(d[q]) => InQueues(k, e) = InQueues(k, d)
         /\ Occupies(e[q]) = Occupies(d[q]) + 1 => InQueues(k, e) = InQueues(k, d) + 1
         /\ Occupies(d[q]) = Occupies(e[q]) + 1 => InQueues(k, d) = InQueues(k, e) + 1
<1> DEFINE F == k.txQueues
           x == [r \in F |-> Occupies(d[r])]
           y == [r \in F |-> Occupies(e[r])]
<1>1. IsFiniteSet(F)
  BY ConfFacts
<1>2. /\ \A r \in F : x[r] \in Nat /\ y[r] \in Nat
      /\ \A r \in F \ {q} : y[r] = x[r]
      /\ x[q] = Occupies(d[q]) /\ y[q] = Occupies(e[q])
  BY DEF DevOf, Occupies
<1>3. InQueues(k, d) = Cardinality(SlotsIn(F, x)) /\ InQueues(k, e) = Cardinality(SlotsIn(F, y))
  BY DEF InQueues
<1> HIDE DEF x, y, F
<1>4. Counted(F, x) /\ Counted(F, y)
  BY <1>2 DEF Counted
<1>5. q \in F
  BY DEF F
<1>6. ASSUME y[q] = x[q] PROVE SlotsIn(F, x) = SlotsIn(F, y)
  <2>1. \A r \in F : y[r] = x[r]
    BY <1>2, <1>6
  <2> QED
    BY <2>1 DEF SlotsIn
<1>7. y[q] = x[q] + 1 => OneMore(F, q, x, y)
  BY <1>2, <1>4, <1>5 DEF OneMore
<1>8. x[q] = y[q] + 1 => OneMore(F, q, y, x)
  BY <1>2, <1>4, <1>5 DEF OneMore
<1>9. Cardinality(SlotsIn(F, x)) \in Nat
  BY <1>1, <1>4, SlotsFinite
<1> QED
  BY <1>1, <1>2, <1>3, <1>6, <1>7, <1>8, <1>9, CountMore

\* A packet passed to the device is in its queue, refused or on the wire.
LEMMA PassedCount ==
  ASSUME IInv, DevOK', conf' = conf, NEW p \in PacketsOf(conf), Passed(p)
  PROVE  /\ delivered' + InQueues(conf, dev') = delivered + InQueues(conf, dev) + 1
         /\ InQueues(conf, dev') \in Nat
<1> DEFINE q == p.txq
           d == dev[q]
           e == dev'[q]
<1>1. /\ conf \in Configurations /\ dev \in [conf.txQueues -> DevOf(conf)]
      /\ dev' \in [conf.txQueues -> DevOf(conf)] /\ q \in conf.txQueues
      /\ delivered \in Nat
  BY PacketFacts DEF IInv, DataOK, DevOK
<1>2. /\ Sent(d, p, e) /\ delivered' = delivered + Started(d, e)
      /\ \A r \in conf.txQueues \ {q} :
           dev'[r].queue = dev[r].queue /\ dev'[r].drops = dev[r].drops
  BY DEF Passed
<1>3. /\ d.queue \in Seq(PacketsOf(conf)) /\ d.busy \in BOOLEAN /\ d.drops \in Nat
      /\ InQueues(conf, dev) \in Nat /\ InQueues(conf, dev') \in Nat
  BY <1>1, <1>2, QueueCount DEF DevOf
<1>4. CASE d.busy
  <2>1. Occupies(e) = Occupies(d) + 1 /\ Started(d, e) = 0
    <3>1. /\ Started(d, e) = 0
          /\ \/ e.queue = Append(d.queue, p) /\ e.drops = d.drops
             \/ e.queue = d.queue /\ e.drops = d.drops + 1
      BY <1>2, <1>4 DEF Sent
    <3>2. Len(Append(d.queue, p)) = Len(d.queue) + 1 /\ Len(d.queue) \in Nat
      BY <1>3
    <3>3. CASE e.queue = Append(d.queue, p) /\ e.drops = d.drops
      <4>1. Len(e.queue) = Len(d.queue) + 1
        BY <3>2, <3>3
      <4> QED
        BY <1>3, <3>1, <3>2, <3>3, <4>1 DEF Occupies
    <3>4. CASE e.queue = d.queue /\ e.drops = d.drops + 1
      BY <1>3, <3>1, <3>2, <3>4 DEF Occupies
    <3> QED
      BY <3>1, <3>3, <3>4
  <2>2. InQueues(conf, dev') = InQueues(conf, dev) + 1
    BY <1>1, <1>2, <2>1, QueueCount
  <2> QED
    BY <1>1, <1>2, <1>3, <2>1, <2>2
<1>5. CASE ~ d.busy
  <2>1. Occupies(e) = Occupies(d) /\ Started(d, e) = 1
    BY <1>2, <1>3, <1>5 DEF Sent, Occupies
  <2>2. InQueues(conf, dev') = InQueues(conf, dev)
    BY <1>1, <1>2, <2>1, QueueCount
  <2> QED
    BY <1>1, <1>2, <1>3, <2>1, <2>2
<1> QED
  BY <1>3, <1>4, <1>5

\* No packet is lost or duplicated by any step.
LEMMA NextCount == IInv /\ CountInv /\ [Next]_vars => CountInv'
<1> SUFFICES ASSUME IInv, CountInv, [Next]_vars PROVE CountInv'
  OBVIOUS
<1> DEFINE drops == root.nTotalDroppedBeforeEnqueue
           n == Len(disc)
           aside == IF root.m_requeued = NoItem THEN 0 ELSE 1
           m == InQueues(conf, dev)
<1>1. /\ IInv' /\ conf' = conf /\ conf \in Configurations
      /\ drops \in Nat /\ lost \in Nat /\ delivered \in Nat /\ n \in Nat /\ aside \in Nat
      /\ dev \in [conf.txQueues -> DevOf(conf)] /\ dev' \in [conf.txQueues -> DevOf(conf)]
      /\ DevOK' /\ disc \in Seq(PacketsOf(conf))
  <2>1. IInv'
    BY NextIInv
  <2>2. conf' = conf
    BY DEF Next, vars, SendThroughDisc, SendDirect, WakeEvent, TransmitComplete,
           RunRequeued, RunDequeued, RunNothing, DeleteRoot
  <2> QED
    BY <2>1, <2>2 DEF IInv, DataOK, DevOK, Base
<1>2. offered = drops + lost + delivered + n + aside + m
  BY DEF CountInv
<1>3. ASSUME NEW q \in conf.txQueues PROVE m \in Nat
  BY <1>1, <1>3, QueueCount
<1>4. CASE UNCHANGED vars
  BY <1>4 DEF vars, CountInv
<1>5. ASSUME NEW q \in TxQueues, NEW z \in Sizes, SendThroughDisc(q, z) PROVE CountInv'
  <2> DEFINE p == [txq |-> q, size |-> z, id |-> offered + 1]
  <2>1. /\ root'.m_requeued = root.m_requeued
        /\ \/ disc' = disc /\ root'.nTotalDroppedBeforeEnqueue = drops + 1
           \/ disc' = Append(disc, p) /\ root'.nTotalDroppedBeforeEnqueue = drops
    BY <1>5, ThroughDiscStep
  <2>2. offered' = offered + 1 /\ lost' = lost /\ delivered' = delivered /\ dev' = dev
    BY <1>5 DEF SendThroughDisc
  <2>3. m \in Nat
    BY <1>3 DEF TxQueues
  <2> HIDE DEF m
  <2>4. InQueues(conf', dev') = m
    BY <1>1, <2>2 DEF m
  <2>5. Len(Append(disc, p)) = n + 1
    BY <1>1
  <2> HIDE DEF p, drops, n
  <2>6. CASE disc' = disc /\ root'.nTotalDroppedBeforeEnqueue = drops + 1
    BY <1>1, <1>2, <2>1, <2>2, <2>3, <2>4, <2>6 DEF CountInv, n
  <2>7. CASE disc' = Append(disc, p) /\ root'.nTotalDroppedBeforeEnqueue = drops
    BY <1>1, <1>2, <2>1, <2>2, <2>3, <2>4, <2>5, <2>7, SMTT(30) DEF CountInv
  <2> QED
    BY <2>1, <2>6, <2>7
<1>6. ASSUME NEW q \in TxQueues, NEW z \in Sizes, SendDirect(q, z) PROVE CountInv'
  <2> DEFINE p == [txq |-> q, size |-> z, id |-> offered + 1]
  <2>1. /\ p \in PacketsOf(conf)
        /\ \/ UNCHANGED dev /\ UNCHANGED delivered /\ lost' = lost + 1
           \/ Passed(p) /\ UNCHANGED lost
    BY <1>6, DirectStep
  <2>2. offered' = offered + 1 /\ disc' = disc /\ root' = root
    BY <1>6 DEF SendDirect
  <2>3. m \in Nat
    BY <1>3 DEF TxQueues
  <2> HIDE DEF p
  <2>4. CASE UNCHANGED dev /\ UNCHANGED delivered /\ lost' = lost + 1
    <3>1. InQueues(conf', dev') = m
      BY <1>1, <2>4
    <3> HIDE DEF m, drops, n, aside
    <3>2. offered + 1 = drops + (lost + 1) + delivered + n + aside + m
      BY <1>1, <1>2, <2>3
    <3> QED
      BY <2>2, <2>4, <3>1, <3>2 DEF CountInv, drops, n, aside
  <2>5. CASE Passed(p) /\ UNCHANGED lost
    <3>1. delivered' + InQueues(conf, dev') = delivered + m + 1 /\ InQueues(conf, dev') \in Nat
      BY <1>1, <2>1, <2>5, PassedCount
    <3> DEFINE m2 == InQueues(conf, dev')
    <3>2. delivered' \in Nat /\ InQueues(conf', dev') = m2
      BY <1>1 DEF IInv, DataOK
    <3>3. delivered' + m2 = delivered + m + 1 /\ m2 \in Nat
      BY <3>1
    <3> HIDE DEF m, m2, drops, n, aside
    <3>4. offered + 1 = drops + lost + delivered' + n + aside + m2
      <4>1. \A c2, k2 \in Nat : c2 + k2 = delivered + m + 1
              => offered + 1 = drops + lost + c2 + n + aside + k2
        BY <1>1, <1>2, <2>3
      <4>2. delivered' \in Nat /\ m2 \in Nat /\ delivered' + m2 = delivered + m + 1
        BY <3>2, <3>3
      <4> QED
        BY <4>1, <4>2, Zenon
    <3> QED
      BY <2>2, <2>5, <3>2, <3>4 DEF CountInv, drops, n, aside
  <2> QED
    BY <2>1, <2>4, <2>5
<1>7. ASSUME NEW q \in TxQueues, WakeEvent(q) PROVE CountInv'
  <2>1. \A r \in conf.txQueues : dev'[r].queue = dev[r].queue /\ dev'[r].drops = dev[r].drops
    BY <1>7, WakeStep
  <2>4. q \in conf.txQueues /\ Occupies(dev'[q]) = Occupies(dev[q])
    BY <2>1 DEF Occupies, TxQueues
  <2>2. InQueues(conf, dev') = m
    BY <1>1, <2>1, <2>4, QueueCount
  <2>3. UNCHANGED <<disc, root, offered, lost, delivered>>
    BY <1>7 DEF WakeEvent
  <2> QED
    BY <1>1, <2>2, <2>3 DEF CountInv
<1>8. ASSUME NEW q \in TxQueues, TransmitComplete(q) PROVE CountInv'
  <2>1. /\ \A r \in conf.txQueues \ {q} : dev'[r] = dev[r]
        /\ dev'[q].drops = dev[q].drops
        /\ \/ /\ dev[q].queue = <<>> /\ dev'[q].queue = <<>> /\ UNCHANGED delivered
           \/ /\ dev[q].queue # <<>> /\ dev'[q].queue = Tail(dev[q].queue)
              /\ delivered' = delivered + 1
    BY <1>8, TransmitStep
  <2>2. q \in conf.txQueues /\ dev[q].queue \in Seq(PacketsOf(conf)) /\ dev[q].drops \in Nat
    BY <1>1 DEF TxQueues, DevOf
  <2>3. UNCHANGED <<disc, root, offered, lost>>
    BY <1>8 DEF TransmitComplete
  <2>4. CASE dev[q].queue = <<>> /\ dev'[q].queue = <<>> /\ UNCHANGED delivered
    <3>2. Occupies(dev'[q]) = Occupies(dev[q])
      BY <2>1, <2>4 DEF Occupies
    <3>1. InQueues(conf, dev') = m
      BY <1>1, <2>1, <2>2, <3>2, QueueCount
    <3> QED
      BY <1>1, <2>3, <2>4, <3>1 DEF CountInv
  <2>5. CASE /\ dev[q].queue # <<>> /\ dev'[q].queue = Tail(dev[q].queue)
             /\ delivered' = delivered + 1
    <3>0. Len(dev[q].queue) = Len(dev'[q].queue) + 1 /\ Len(dev'[q].queue) \in Nat
      BY <2>2, <2>5
    <3>1. Occupies(dev[q]) = Occupies(dev'[q]) + 1
      BY <2>1, <2>2, <3>0 DEF Occupies
    <3> DEFINE m2 == InQueues(conf, dev')
    <3>2. m2 \in Nat /\ m = m2 + 1 /\ InQueues(conf', dev') = m2
      BY <1>1, <2>1, <2>2, <3>1, QueueCount
    <3> HIDE DEF m, m2, drops, n, aside
    <3>3. offered = drops + lost + (delivered + 1) + n + aside + m2
      <4>1. /\ drops \in Nat /\ lost \in Nat /\ delivered \in Nat /\ n \in Nat
            /\ aside \in Nat /\ m2 \in Nat
            /\ offered = drops + lost + delivered + n + aside + (m2 + 1)
        BY <1>1, <1>2, <3>2
      <4> QED
        BY <4>1
    <3> QED
      BY <2>3, <2>5, <3>2, <3>3 DEF CountInv, drops, n, aside
  <2> QED
    BY <2>1, <2>4, <2>5
<1>9. CASE RunRequeued
  <2> DEFINE p == root.m_requeued
  <2>1. /\ p \in PacketsOf(conf) /\ Passed(p) /\ p # NoItem /\ root'.m_requeued = NoItem
        /\ root'.nTotalDroppedBeforeEnqueue = drops
    BY <1>9, RunRequeuedStep
  <2>2. disc' = disc /\ offered' = offered /\ lost' = lost
    BY <1>9 DEF RunRequeued
  <2>3. delivered' + InQueues(conf, dev') = delivered + m + 1 /\ InQueues(conf, dev') \in Nat
    BY <1>1, <2>1, PassedCount
  <2>4. m \in Nat
    BY <1>1, <1>3, <2>1, PacketFacts
  <2> DEFINE m2 == InQueues(conf, dev')
  <2>5. delivered' \in Nat /\ InQueues(conf', dev') = m2
    BY <1>1 DEF IInv, DataOK
  <2>6. aside = 1
    BY <2>1
  <2>7. delivered' + m2 = delivered + m + 1 /\ m2 \in Nat
    BY <2>3
  <2> HIDE DEF m, m2, drops, aside, n
  <2>8. offered = drops + lost + delivered' + n + 0 + m2
    <3>1. offered = drops + lost + delivered + n + 1 + m
      BY <1>2, <2>6
    <3>2. drops \in Nat /\ lost \in Nat /\ delivered \in Nat /\ n \in Nat
      BY <1>1
    <3>3. delivered' \in Nat /\ m2 \in Nat /\ m \in Nat
      BY <2>4, <2>5, <2>7
    <3>4. \A c2, k2 \in Nat : c2 + k2 = delivered + m + 1
            => offered = drops + lost + c2 + n + 0 + k2
      BY <2>4, <3>1, <3>2
    <3>5. delivered' + m2 = delivered + m + 1
      BY <2>7
    <3> QED
      BY <3>3, <3>4, <3>5, Zenon
  <2> QED
    BY <2>1, <2>2, <2>5, <2>8 DEF CountInv, n
<1>10. CASE RunDequeued
  <2> DEFINE p == Head(disc)
  <2>1. /\ disc # <<>> /\ p \in PacketsOf(conf)
        /\ root'.nTotalDroppedBeforeEnqueue = drops
        /\ \/ Passed(p) /\ root'.m_requeued = NoItem
           \/ root'.m_requeued = p /\ UNCHANGED dev /\ UNCHANGED delivered
    BY <1>10, RunDequeuedStep
  <2>2. /\ disc' = Tail(disc) /\ offered' = offered /\ lost' = lost
        /\ root.m_requeued = NoItem
    BY <1>10 DEF RunDequeued, MayDequeue
  <2>3. Len(disc') \in Nat /\ n = Len(disc') + 1
    BY <1>1, <2>1, <2>2
  <2>4. m \in Nat
    BY <1>1, <1>3, <2>1, PacketFacts
  <2>5. aside = 0
    BY <2>2
  <2> HIDE DEF drops, aside, n
  <2>6. CASE Passed(p) /\ root'.m_requeued = NoItem
    <3>1. delivered' + InQueues(conf, dev') = delivered + m + 1 /\ InQueues(conf, dev') \in Nat
      BY <1>1, <2>1, <2>6, PassedCount
    <3> DEFINE m2 == InQueues(conf, dev')
    <3>2. delivered' \in Nat /\ InQueues(conf', dev') = m2
      BY <1>1 DEF IInv, DataOK
    <3>3. delivered' + m2 = delivered + m + 1 /\ m2 \in Nat
      BY <3>1
    <3> HIDE DEF m, m2
    <3>4. offered = drops + lost + delivered' + Len(disc') + 0 + m2
      <4>1. offered = drops + lost + delivered + (Len(disc') + 1) + 0 + m
        BY <1>2, <2>3, <2>5
      <4>2. drops \in Nat /\ lost \in Nat /\ delivered \in Nat
        BY <1>1
      <4>3. \A c2, k2 \in Nat : c2 + k2 = delivered + m + 1
              => offered = drops + lost + c2 + Len(disc') + 0 + k2
        BY <2>3, <2>4, <4>1, <4>2
      <4>4. delivered' \in Nat /\ m2 \in Nat /\ delivered' + m2 = delivered + m + 1
        BY <3>2, <3>3
      <4> QED
        BY <4>3, <4>4, Zenon
    <3> QED
      BY <2>1, <2>2, <2>6, <3>2, <3>4 DEF CountInv
  <2>7. CASE root'.m_requeued = p /\ UNCHANGED dev /\ UNCHANGED delivered
    <3>1. root'.m_requeued # NoItem
      BY <1>1, <2>1, <2>7, PacketFacts
    <3>2. InQueues(conf', dev') = m
      BY <1>1, <2>7
    <3> HIDE DEF m
    <3> QED
      BY <1>1, <1>2, <2>1, <2>2, <2>3, <2>4, <2>5, <2>7, <3>1, <3>2 DEF CountInv
  <2> QED
    BY <2>1, <2>6, <2>7
<1>11. CASE RunNothing
  BY <1>11 DEF RunNothing, CountInv
<1>12. CASE DeleteRoot
  <2>1. /\ root' = NewBase /\ disc' = <<>> /\ UNCHANGED <<offered, delivered, dev, conf>>
        /\ lost' = lost + drops + n + aside
    BY <1>12 DEF DeleteRoot
  <2>2. /\ root'.nTotalDroppedBeforeEnqueue = 0 /\ root'.m_requeued = NoItem
        /\ Len(disc') = 0
    BY <2>1 DEF NewBase
  <2>3. lost' \in Nat
    BY <1>1 DEF IInv, DataOK
  <2>4. m \in Nat
    <3>1. Counted(conf.txQueues, [q \in conf.txQueues |-> Occupies(dev[q])])
      BY <1>1 DEF Counted, DevOf, Occupies
    <3> QED
      BY <1>1, <3>1, SlotsFinite, ConfFacts DEF InQueues
  <2> HIDE DEF drops, n, aside
  <2>5. offered = 0 + lost' + delivered + 0 + 0 + m
    <3> HIDE DEF m
    <3> QED
      BY <1>1, <1>2, <2>1, <2>4
  <2>6. InQueues(conf', dev') = m
    BY <2>1
  <2> HIDE DEF m
  <2> QED
    BY <2>1, <2>2, <2>5, <2>6 DEF CountInv
<1> QED
  BY <1>4, <1>5, <1>6, <1>7, <1>8, <1>9, <1>10, <1>11, <1>12 DEF Next

-----------------------------------------------------------------------------
(* The order of packets *)

Increasing(s) == \A i, j \in 1 .. Len(s) : i < j => s[i].id < s[j].id

\* A queue of the device holds packets of its own, offered in this order among
\* the first n and before those of W, which wait in the disc.
Lined(q, s, n, W) ==
  /\ \A i \in 1 .. Len(s) : s[i].txq = q /\ s[i].id <= n
  /\ Increasing(s)
  /\ \A i \in 1 .. Len(s), w \in W : w.txq = q => s[i].id < w.id

\* What waits in the disc, a requeued packet included.
Members(s) == {s[i] : i \in 1 .. Len(s)}
Requeued == IF root.m_requeued = NoItem THEN {} ELSE {root.m_requeued}
Waiting == Members(disc) \cup Requeued

\* Packets are numbered as they are offered, and wait in that order.
OrderInv ==
  /\ Increasing(disc)
  /\ \A w \in Waiting : w.id <= offered
  /\ \A r \in Requeued, w \in Members(disc) : r.id < w.id
  /\ \A q \in conf.txQueues : Lined(q, dev[q].queue, offered, Waiting)

\* The queue after its first packet left.
LEMMA LineTail ==
  ASSUME NEW k \in Configurations, NEW s \in Seq(PacketsOf(k)), s # <<>>
  PROVE  /\ Increasing(s) => Increasing(Tail(s))
         /\ \A q, n, W : Lined(q, s, n, W) => Lined(q, Tail(s), n, W)
<1>1. /\ Len(Tail(s)) = Len(s) - 1 /\ Len(s) \in Nat \ {0}
      /\ \A i \in 1 .. Len(Tail(s)) : Tail(s)[i] = s[i + 1]
  OBVIOUS
<1>2. \A i \in 1 .. Len(Tail(s)) : i + 1 \in 1 .. Len(s)
  BY <1>1
<1>3. Increasing(s) => Increasing(Tail(s))
  <2> SUFFICES ASSUME Increasing(s),
                      NEW i \in 1 .. Len(Tail(s)), NEW j \in 1 .. Len(Tail(s)), i < j
               PROVE  Tail(s)[i].id < Tail(s)[j].id
    BY DEF Increasing
  <2>1. i + 1 < j + 1 /\ i + 1 \in 1 .. Len(s) /\ j + 1 \in 1 .. Len(s)
    BY <1>1, <1>2
  <2>2. s[i + 1].id < s[j + 1].id
    BY <2>1 DEF Increasing
  <2> QED
    BY <1>1, <2>2
<1>4. ASSUME NEW q, NEW n, NEW W, Lined(q, s, n, W) PROVE Lined(q, Tail(s), n, W)
  <2>1. \A i \in 1 .. Len(Tail(s)) : Tail(s)[i].txq = q /\ Tail(s)[i].id <= n
    BY <1>1, <1>2, <1>4 DEF Lined
  <2>2. \A i \in 1 .. Len(Tail(s)), w \in W : w.txq = q => Tail(s)[i].id < w.id
    BY <1>1, <1>2, <1>4 DEF Lined
  <2> QED
    BY <1>3, <1>4, <2>1, <2>2 DEF Lined
<1> QED
  BY <1>3, <1>4

\* The queue after p joined it.
LEMMA LineAppend ==
  ASSUME NEW k \in Configurations, NEW s \in Seq(PacketsOf(k)), NEW p \in PacketsOf(k)
  PROVE  /\ Increasing(s) /\ (\A i \in 1 .. Len(s) : s[i].id < p.id)
              => Increasing(Append(s, p))
         /\ \A n, W, X : /\ Lined(p.txq, s, n, W) /\ p \in W /\ p.id <= n /\ X \subseteq W
                         /\ \A w \in X : w.txq = p.txq => p.id < w.id
                         => Lined(p.txq, Append(s, p), n, X)
<1> DEFINE a == Append(s, p)
<1>1. /\ Len(a) = Len(s) + 1 /\ Len(s) \in Nat /\ a[Len(s) + 1] = p
      /\ \A i \in 1 .. Len(s) : a[i] = s[i]
  OBVIOUS
<1> HIDE DEF a
<1>2. ASSUME Increasing(s), \A i \in 1 .. Len(s) : s[i].id < p.id PROVE Increasing(a)
  <2> SUFFICES ASSUME NEW i \in 1 .. Len(a), NEW j \in 1 .. Len(a), i < j
               PROVE  a[i].id < a[j].id
    BY DEF Increasing
  <2>1. i \in 1 .. Len(s) /\ (j \in 1 .. Len(s) \/ j = Len(s) + 1)
    BY <1>1
  <2> QED
    BY <1>1, <1>2, <2>1 DEF Increasing
<1>3. ASSUME NEW n, NEW W, NEW X, Lined(p.txq, s, n, W), p \in W, p.id <= n, X \subseteq W,
             \A w \in X : w.txq = p.txq => p.id < w.id
      PROVE  Lined(p.txq, a, n, X)
  <2>1. \A i \in 1 .. Len(a) : i \in 1 .. Len(s) \/ i = Len(s) + 1
    BY <1>1
  <2>2. \A i \in 1 .. Len(a) : a[i].txq = p.txq /\ a[i].id <= n
    BY <1>1, <1>3, <2>1 DEF Lined
  <2>3. Increasing(a)
    BY <1>2, <1>3 DEF Lined
  <2>4. \A i \in 1 .. Len(a), w \in X : w.txq = p.txq => a[i].id < w.id
    BY <1>1, <1>3, <2>1 DEF Lined
  <2> QED
    BY <2>2, <2>3, <2>4 DEF Lined
<1> QED
  BY <1>2, <1>3 DEF a

\* A packet offered later waits behind all of them.
LEMMA LineLater ==
  ASSUME NEW k \in Configurations, NEW s \in Seq(PacketsOf(k)), NEW q, NEW n \in Nat, NEW W,
         NEW X, Lined(q, s, n, W), \A w \in X : w \in W \/ w.id = n + 1
  PROVE  Lined(q, s, n + 1, X)
<1>1. \A i \in 1 .. Len(s) : s[i].id \in Nat
  <2>1. \A i \in 1 .. Len(s) : s[i] \in PacketsOf(k)
    OBVIOUS
  <2> QED
    BY <2>1, DiscStores DEF PacketsOf
<1>2. \A i \in 1 .. Len(s) : s[i].txq = q /\ s[i].id <= n + 1
  BY <1>1 DEF Lined
<1>3. \A i \in 1 .. Len(s), w \in X : w.txq = q => s[i].id < w.id
  BY <1>1 DEF Lined
<1> QED
  BY <1>2, <1>3 DEF Lined

\* Passing p, the first to wait for its queue.
LEMMA PassedLines ==
  ASSUME IInv, NEW p \in PacketsOf(conf), Passed(p), NEW n, NEW W, NEW X,
         \A q \in conf.txQueues : Lined(q, dev[q].queue, n, W),
         p \in W, p.id <= n, X \subseteq W,
         \A w \in X : w.txq = p.txq => p.id < w.id
  PROVE  \A q \in conf.txQueues : Lined(q, dev'[q].queue, n, X)
<1>1. /\ conf \in Configurations /\ p.txq \in conf.txQueues
      /\ \A q \in conf.txQueues : dev[q].queue \in Seq(PacketsOf(conf))
  BY PacketFacts DEF IInv, DataOK, DevOK, DevOf
<1>2. ASSUME NEW q \in conf.txQueues \ {p.txq} PROVE Lined(q, dev'[q].queue, n, X)
  <2>1. dev'[q] = dev[q] /\ Lined(q, dev[q].queue, n, W)
    BY DEF Passed
  <2> QED
    BY <2>1 DEF Lined
<1>3. Lined(p.txq, dev'[p.txq].queue, n, X)
  <2> DEFINE s == dev[p.txq].queue
             t == dev'[p.txq].queue
  <2>1. (t = Append(s, p)) \/ t = <<>> \/ t = s
    BY DEF Passed, Sent
  <2>2. Lined(p.txq, s, n, W) /\ s \in Seq(PacketsOf(conf))
    BY <1>1
  <2> HIDE DEF s, t
  <2>3. ASSUME t = Append(s, p) PROVE Lined(p.txq, t, n, X)
    <3>1. Lined(p.txq, Append(s, p), n, X)
      BY <1>1, <2>2, LineAppend
    <3> QED
      BY <2>3, <3>1
  <2>4. ASSUME t = <<>> PROVE Lined(p.txq, t, n, X)
    BY <2>4 DEF Lined, Increasing
  <2>6. ASSUME t = s PROVE Lined(p.txq, t, n, X)
    BY <2>2, <2>6 DEF Lined
  <2>5. Lined(p.txq, t, n, X)
    BY <2>1, <2>3, <2>4, <2>6
  <2> QED
    BY <2>5 DEF t
<1> QED
  BY <1>2, <1>3

\* What a queue holds after a packet joined it or its first one left.
LEMMA MembersFacts ==
  ASSUME NEW k \in Configurations, NEW s \in Seq(PacketsOf(k))
  PROVE  /\ Members(s) \subseteq PacketsOf(k)
         /\ \A w \in Members(s) : w.id \in Nat
         /\ \A p \in PacketsOf(k) : Members(Append(s, p)) = Members(s) \cup {p}
         /\ s # <<>> => /\ Head(s) \in Members(s)
                        /\ Members(Tail(s)) \subseteq Members(s)
                        /\ Increasing(s) => \A w \in Members(Tail(s)) : Head(s).id < w.id
<1>1. Members(s) \subseteq PacketsOf(k)
  BY DEF Members
<1>2. \A w \in Members(s) : w.id \in Nat
  BY <1>1, DiscStores DEF PacketsOf
<1>3. ASSUME NEW p \in PacketsOf(k) PROVE Members(Append(s, p)) = Members(s) \cup {p}
  <2>1. /\ Len(Append(s, p)) = Len(s) + 1 /\ Len(s) \in Nat /\ Append(s, p)[Len(s) + 1] = p
        /\ \A i \in 1 .. Len(s) : Append(s, p)[i] = s[i]
    OBVIOUS
  <2>2. \A i : i \in 1 .. Len(s) + 1 <=> i \in 1 .. Len(s) \/ i = Len(s) + 1
    BY <2>1
  <2> QED
    BY <2>1, <2>2, Zenon DEF Members
<1>4. ASSUME s # <<>>
      PROVE  /\ Head(s) \in Members(s)
             /\ Members(Tail(s)) \subseteq Members(s)
             /\ Increasing(s) => \A w \in Members(Tail(s)) : Head(s).id < w.id
  <2>1. /\ Len(Tail(s)) = Len(s) - 1 /\ Len(s) \in Nat \ {0}
        /\ \A i \in 1 .. Len(Tail(s)) : Tail(s)[i] = s[i + 1]
        /\ Head(s) = s[1]
    BY <1>4
  <2>2. /\ \A i \in 1 .. Len(Tail(s)) : i + 1 \in 1 .. Len(s) /\ 1 < i + 1
        /\ 1 \in 1 .. Len(s)
    BY <2>1
  <2>3. Head(s) \in Members(s)
    BY <2>1, <2>2, Zenon DEF Members
  <2>4. \A w \in Members(Tail(s)) : \E i \in 1 .. Len(s) : 1 < i /\ w = s[i]
    BY <2>1, <2>2, Zenon DEF Members
  <2> QED
    BY <2>1, <2>2, <2>3, <2>4 DEF Members, Increasing
<1> QED
  BY <1>1, <1>2, <1>3, <1>4

\* Packets keep their order in every step.
LEMMA NextOrder == IInv /\ OrderInv /\ [Next]_vars => OrderInv'
<1> SUFFICES ASSUME IInv, OrderInv, [Next]_vars PROVE OrderInv'
  OBVIOUS
<1>1. /\ conf \in Configurations /\ disc \in Seq(PacketsOf(conf)) /\ conf' = conf
      /\ \A q \in conf.txQueues : dev[q].queue \in Seq(PacketsOf(conf))
      /\ offered \in Nat /\ root.m_requeued \in PacketsOf(conf) \cup {NoItem}
      /\ ~ installed => disc = <<>> /\ root.m_requeued = NoItem
  <2>1. conf' = conf
    BY DEF Next, vars, SendThroughDisc, SendDirect, WakeEvent, TransmitComplete,
           RunRequeued, RunDequeued, RunNothing, DeleteRoot
  <2> QED
    BY <2>1, DiscStores DEF IInv, DataOK, DevOK, DevOf, Base
<1>2. /\ Increasing(disc)
      /\ \A w \in Waiting : w.id <= offered
      /\ \A r \in Requeued, w \in Members(disc) : r.id < w.id
      /\ \A q \in conf.txQueues : Lined(q, dev[q].queue, offered, Waiting)
  BY DEF OrderInv
<1>3. Waiting \subseteq PacketsOf(conf) /\ \A w \in Waiting : w.id \in Nat
  <2>1. Waiting \subseteq PacketsOf(conf)
    BY <1>1, MembersFacts DEF Waiting, Requeued
  <2> QED
    BY <2>1, DiscStores DEF PacketsOf
<1>4. CASE UNCHANGED vars
  BY <1>4 DEF vars, OrderInv, Waiting, Requeued
<1>5. ASSUME NEW q \in TxQueues, NEW z \in Sizes, SendThroughDisc(q, z) PROVE OrderInv'
  <2> DEFINE p == [txq |-> q, size |-> z, id |-> offered + 1]
  <2>1. /\ p \in PacketsOf(conf) /\ root'.m_requeued = root.m_requeued
        /\ disc' = disc \/ disc' = Append(disc, p)
    BY <1>5, ThroughDiscStep
  <2>2. offered' = offered + 1 /\ dev' = dev
    BY <1>5 DEF SendThroughDisc
  <2>3. p.id = offered + 1
    OBVIOUS
  <2> HIDE DEF p
  <2>4. Requeued' = Requeued
    BY <2>1 DEF Requeued
  <2>5. Members(disc') \subseteq Members(disc) \cup {p}
    <3>1. Members(Append(disc, p)) = Members(disc) \cup {p}
      BY <1>1, <2>1, MembersFacts
    <3> QED
      BY <2>1, <3>1
  <2>6. Increasing(disc')
    <3>1. \A i \in 1 .. Len(disc) : disc[i].id < p.id
      BY <1>1, <1>2, <1>3, <2>3 DEF Waiting, Members
    <3> QED
      BY <1>1, <1>2, <2>1, <3>1, LineAppend
  <2>7. \A w \in Waiting' : w \in Waiting \/ w.id = offered + 1
    BY <2>3, <2>4, <2>5 DEF Waiting
  <2>8. \A w \in Waiting' : w.id <= offered'
    BY <1>1, <1>2, <1>3, <2>2, <2>7
  <2>9. \A r \in Requeued', w \in Members(disc') : r.id < w.id
    BY <1>1, <1>2, <1>3, <2>3, <2>4, <2>5 DEF Waiting
  <2>10. \A r \in conf.txQueues : Lined(r, dev[r].queue, offered + 1, Waiting')
    BY <1>1, <1>2, <2>7, LineLater
  <2> QED
    BY <1>1, <2>2, <2>6, <2>8, <2>9, <2>10 DEF OrderInv
<1>6. ASSUME NEW q \in TxQueues, NEW z \in Sizes, SendDirect(q, z) PROVE OrderInv'
  <2> DEFINE p == [txq |-> q, size |-> z, id |-> offered + 1]
  <2>1. /\ p \in PacketsOf(conf) /\ ~ installed /\ (UNCHANGED dev \/ Passed(p))
    BY <1>6, DirectStep
  <2>2. offered' = offered + 1 /\ disc' = disc /\ root' = root
    BY <1>6 DEF SendDirect
  <2>3. disc' = <<>> /\ Requeued' = {} /\ Members(disc') = {} /\ Waiting' = {}
    BY <1>1, <2>1, <2>2 DEF Requeued, Members, Waiting
  <2>4. p.id = offered + 1 /\ p.id <= offered + 1
    BY <1>1
  <2> HIDE DEF p
  <2>5. \A r \in conf.txQueues : Lined(r, dev[r].queue, offered + 1, {p})
    BY <1>1, <1>2, <2>4, LineLater
  <2>6. \A r \in conf.txQueues : Lined(r, dev'[r].queue, offered + 1, {})
    <3>1. CASE UNCHANGED dev
      BY <2>5, <3>1 DEF Lined
    <3>2. CASE Passed(p)
      BY <2>1, <2>4, <2>5, <3>2, PassedLines
    <3> QED
      BY <2>1, <3>1, <3>2
  <2> QED
    BY <1>1, <1>2, <2>2, <2>3, <2>6 DEF OrderInv
<1>7. ASSUME NEW q \in TxQueues, WakeEvent(q) PROVE OrderInv'
  <2>1. \A r \in conf.txQueues : dev'[r].queue = dev[r].queue
    BY <1>7, WakeStep
  <2>2. UNCHANGED <<disc, root, offered>>
    BY <1>7 DEF WakeEvent
  <2> QED
    BY <1>1, <1>2, <2>1, <2>2 DEF OrderInv, Waiting, Requeued
<1>8. ASSUME NEW q \in TxQueues, TransmitComplete(q) PROVE OrderInv'
  <2>1. /\ \A r \in conf.txQueues \ {q} : dev'[r] = dev[r]
        /\ \/ dev'[q].queue = dev[q].queue
           \/ dev[q].queue # <<>> /\ dev'[q].queue = Tail(dev[q].queue)
    BY <1>8, TransmitStep
  <2>2. UNCHANGED <<disc, root, offered>> /\ q \in conf.txQueues
    BY <1>8 DEF TransmitComplete, TxQueues
  <2>3. Lined(q, dev'[q].queue, offered, Waiting)
    BY <1>1, <1>2, <2>1, <2>2, LineTail
  <2>4. \A r \in conf.txQueues : Lined(r, dev'[r].queue, offered, Waiting)
    BY <1>2, <2>1, <2>3
  <2>5. Requeued' = Requeued /\ Waiting' = Waiting
    BY <2>2 DEF Requeued, Waiting
  <2> QED
    BY <1>1, <1>2, <2>2, <2>4, <2>5 DEF OrderInv
<1>9. CASE RunRequeued
  <2> DEFINE p == root.m_requeued
  <2>1. p \in PacketsOf(conf) /\ Passed(p) /\ p # NoItem /\ root'.m_requeued = NoItem
    BY <1>9, RunRequeuedStep
  <2>2. disc' = disc /\ offered' = offered
    BY <1>9 DEF RunRequeued
  <2>3. Requeued = {p} /\ Requeued' = {} /\ Waiting' = Members(disc)
        /\ Waiting = Members(disc) \cup {p}
    BY <2>1, <2>2 DEF Requeued, Waiting
  <2> HIDE DEF p
  <2>4. \A w \in Members(disc) : w.txq = p.txq => p.id < w.id
    BY <1>2, <2>3
  <2>5. \A r \in conf.txQueues : Lined(r, dev'[r].queue, offered, Members(disc))
    <3>1. p \in Waiting /\ p.id <= offered /\ Members(disc) \subseteq Waiting
      BY <1>2, <2>3
    <3> QED
      BY <1>2, <2>1, <2>4, <3>1, PassedLines
  <2> QED
    BY <1>1, <1>2, <2>2, <2>3, <2>5 DEF OrderInv
<1>10. CASE RunDequeued
  <2> DEFINE p == Head(disc)
  <2>1. /\ disc # <<>> /\ p \in PacketsOf(conf)
        /\ \/ Passed(p) /\ root'.m_requeued = NoItem
           \/ root'.m_requeued = p /\ UNCHANGED dev
    BY <1>10, RunDequeuedStep
  <2>2. disc' = Tail(disc) /\ offered' = offered /\ root.m_requeued = NoItem
    BY <1>10 DEF RunDequeued, MayDequeue
  <2>3. /\ Increasing(disc') /\ p \in Members(disc) /\ Members(disc') \subseteq Members(disc)
        /\ \A w \in Members(disc') : p.id < w.id
    BY <1>1, <1>2, <2>1, <2>2, LineTail, MembersFacts
  <2>4. Waiting = Members(disc)
    BY <2>2 DEF Waiting, Requeued
  <2>5. p # NoItem
    BY <1>1, <2>1, PacketFacts
  <2> HIDE DEF p
  <2>6. CASE Passed(p) /\ root'.m_requeued = NoItem
    <3>1. Requeued' = {} /\ Waiting' = Members(disc')
      BY <2>6 DEF Requeued, Waiting
    <3>2. \A r \in conf.txQueues : Lined(r, dev'[r].queue, offered, Members(disc'))
      BY <1>2, <2>1, <2>3, <2>4, <2>6, PassedLines
    <3> QED
      BY <1>1, <1>2, <2>2, <2>3, <2>4, <3>1, <3>2 DEF OrderInv
  <2>7. CASE root'.m_requeued = p /\ UNCHANGED dev
    <3>1. Requeued' = {p} /\ Waiting' = Members(disc') \cup {p}
      BY <2>5, <2>7 DEF Requeued, Waiting
    <3>2. Waiting' \subseteq Waiting
      BY <2>3, <2>4, <3>1
    <3>3. \A r \in conf.txQueues : Lined(r, dev'[r].queue, offered, Waiting')
      BY <1>2, <2>7, <3>2 DEF Lined
    <3> QED
      BY <1>1, <1>2, <2>2, <2>3, <3>1, <3>2, <3>3 DEF OrderInv
  <2> QED
    BY <2>1, <2>6, <2>7
<1>11. CASE RunNothing
  BY <1>11 DEF RunNothing, OrderInv, Waiting, Requeued
<1>12. CASE DeleteRoot
  <2>1. root' = NewBase /\ disc' = <<>> /\ UNCHANGED <<offered, dev, conf>>
    BY <1>12 DEF DeleteRoot
  <2>2. root'.m_requeued = NoItem /\ Members(disc') = {} /\ Increasing(disc')
    BY <2>1 DEF NewBase, Members, Increasing
  <2>3. Requeued' = {} /\ Waiting' = {}
    BY <2>2 DEF Requeued, Waiting
  <2>4. \A r \in conf.txQueues : Lined(r, dev[r].queue, offered, {})
    BY <1>2 DEF Lined
  <2> QED
    BY <2>1, <2>2, <2>3, <2>4 DEF OrderInv
<1> QED
  BY <1>4, <1>5, <1>6, <1>7, <1>8, <1>9, <1>10, <1>11, <1>12 DEF Next

-----------------------------------------------------------------------------
(* PacketsSafe *)

LEMMA InitPackets == Init => CountInv /\ OrderInv
<1> SUFFICES ASSUME Init PROVE CountInv /\ OrderInv
  OBVIOUS
<1> DEFINE f == [q \in conf.txQueues |-> Occupies(dev[q])]
<1>1. /\ disc = <<>> /\ root = NewBase /\ offered = 0 /\ lost = 0 /\ delivered = 0
      /\ \A q \in conf.txQueues : dev[q].queue = <<>> /\ dev[q].drops = 0
  BY DEF Init, TxQueues
<1>2. /\ root.m_requeued = NoItem /\ root.nTotalDroppedBeforeEnqueue = 0 /\ Len(disc) = 0
  BY <1>1 DEF NewBase
<1>3. InQueues(conf, dev) = 0
  <2>1. \A q \in conf.txQueues : f[q] = 0
    BY <1>1 DEF Occupies
  <2> QED
    BY <2>1, CountEmpty DEF InQueues
<1>4. CountInv
  BY <1>1, <1>2, <1>3 DEF CountInv
<1>5. Waiting = {} /\ Requeued = {} /\ Members(disc) = {} /\ Increasing(disc)
  BY <1>1, <1>2 DEF Waiting, Requeued, Members, Increasing
<1>6. \A q \in conf.txQueues : Lined(q, dev[q].queue, offered, Waiting)
  BY <1>1, <1>5 DEF Lined, Increasing
<1> QED
  BY <1>4, <1>5, <1>6 DEF OrderInv

\* What the invariant counts is what the property counts.
LEMMA ConservedHere == IInv /\ CountInv => PacketsConserved
<1> SUFFICES ASSUME IInv, CountInv PROVE PacketsConserved
  OBVIOUS
<1> DEFINE f == [q \in conf.txQueues |-> Occupies(dev[q])]
<1>1. root.m_nPackets = Len(disc)
  BY DEF IInv, DataOK
<1>2. \A q \in conf.txQueues : Len(dev[q].queue) + dev[q].drops = f[q]
  BY DEF Occupies
<1>3. AtDevice = SlotsIn(conf.txQueues, f)
  BY <1>2 DEF AtDevice, SlotsIn, TxQueues
<1> HIDE DEF f
<1>4. Cardinality(AtDevice) = InQueues(conf, dev)
  BY <1>3 DEF InQueues, f
<1> QED
  BY <1>1, <1>4 DEF CountInv, PacketsConserved

\* Where two lines one behind the other have their packets.
LEMMA Behind ==
  ASSUME NEW P, NEW x \in Seq(P), NEW y \in Seq(P)
  PROVE  /\ x \o y \in Seq(P) /\ Len(x \o y) = Len(x) + Len(y)
         /\ \A i \in 1 .. Len(x) : (x \o y)[i] = x[i]
         /\ \A i \in Len(x) + 1 .. Len(x) + Len(y) : (x \o y)[i] = y[i - Len(x)]
OBVIOUS

\* The queue of the device, then the requeued packet, then the disc.
LEMMA OrderedHere == IInv /\ OrderInv => OrderPreserved
<1> SUFFICES ASSUME IInv, OrderInv, NEW q \in conf.txQueues
             PROVE  LET line == dev[q].queue \o Aside \o disc
                        mine == {i \in DOMAIN line : line[i].txq = q}
                    IN  /\ DOMAIN dev[q].queue \subseteq mine
                        /\ \A i, j \in mine : i < j => line[i].id < line[j].id
  BY DEF OrderPreserved, TxQueues
<1> DEFINE s == dev[q].queue
           a == Aside
           line == s \o a \o disc
           mine == {i \in DOMAIN line : line[i].txq = q}
           n == Len(s)
           m == Len(a)
           P == PacketsOf(conf)
<1>1. /\ conf \in Configurations /\ disc \in Seq(P) /\ s \in Seq(P)
      /\ root.m_requeued \in P \cup {NoItem}
  BY DEF IInv, DataOK, DevOK, DevOf, Base
<1>2. /\ a \in Seq(P) /\ m \in {0, 1} /\ (m = 1 => Requeued = {a[1]})
  BY <1>1 DEF Aside, Requeued
<1>3. /\ Increasing(disc) /\ Lined(q, s, offered, Waiting)
      /\ \A r \in Requeued, w \in Members(disc) : r.id < w.id
      /\ Waiting = Members(disc) \cup Requeued
  BY DEF OrderInv, Waiting
<1>4. /\ n \in Nat /\ m \in Nat /\ Len(disc) \in Nat
      /\ DOMAIN line = 1 .. n + m + Len(disc) /\ DOMAIN s = 1 .. n
  BY <1>1, <1>2
<1>5. /\ \A i \in 1 .. n : line[i] = s[i]
      /\ \A i \in n + 1 .. n + m : line[i] = a[i - n]
      /\ \A i \in n + m + 1 .. n + m + Len(disc) : line[i] = disc[i - n - m]
  <2> DEFINE h == s \o a
  <2>1. /\ h \in Seq(P) /\ Len(h) = n + m
        /\ \A i \in 1 .. n : h[i] = s[i]
        /\ \A i \in n + 1 .. n + m : h[i] = a[i - n]
    BY <1>1, <1>2, Behind
  <2>2. line = h \o disc
    OBVIOUS
  <2> HIDE DEF h, line, s, a, n, m, P
  <2>3. /\ \A i \in 1 .. n + m : line[i] = h[i]
        /\ \A i \in n + m + 1 .. n + m + Len(disc) : line[i] = disc[i - (n + m)]
    BY <1>1, <2>1, <2>2, Behind
  <2>4. /\ \A i \in 1 .. n : i \in 1 .. n + m
        /\ \A i \in n + 1 .. n + m : i \in 1 .. n + m
        /\ \A i \in n + m + 1 .. n + m + Len(disc) : i - (n + m) = i - n - m
    BY <1>4
  <2> QED
    BY <2>1, <2>3, <2>4
<1> HIDE DEF s, a, line, n, m
<1>6. DOMAIN s \subseteq mine
  BY <1>3, <1>4, <1>5 DEF Lined, n
<1>7. ASSUME NEW i \in mine, NEW j \in mine, i < j PROVE line[i].id < line[j].id
  <2>1. /\ i \in 1 .. n + m + Len(disc) /\ j \in 1 .. n + m + Len(disc)
        /\ line[i].txq = q /\ line[j].txq = q
    BY <1>4
  <2>2. CASE i \in 1 .. n /\ j \in 1 .. n
    BY <1>3, <1>5, <1>7, <2>2 DEF Lined, Increasing, n
  <2>3. CASE i \in 1 .. n /\ j \in n + 1 .. n + m
    <3>1. m = 1 /\ j - n = 1
      BY <1>2, <1>4, <2>3
    <3>2. line[j] \in Waiting /\ line[i] = s[i]
      BY <1>2, <1>3, <1>5, <2>3, <3>1
    <3> QED
      BY <1>3, <2>1, <2>3, <3>2 DEF Lined, n
  <2>4. CASE i \in 1 .. n /\ j \in n + m + 1 .. n + m + Len(disc)
    <3>1. j - n - m \in 1 .. Len(disc) /\ line[j] = disc[j - n - m]
      BY <1>4, <1>5, <2>4
    <3>2. line[j] \in Waiting /\ line[i] = s[i]
      BY <1>3, <1>5, <2>4, <3>1 DEF Members
    <3> QED
      BY <1>3, <2>1, <2>4, <3>2 DEF Lined, n
  <2>5. CASE i \in n + 1 .. n + m /\ j \in n + m + 1 .. n + m + Len(disc)
    <3>1. j - n - m \in 1 .. Len(disc) /\ line[j] = disc[j - n - m]
      BY <1>4, <1>5, <2>5
    <3>2. m = 1 /\ i - n = 1 /\ line[i] = a[i - n]
      BY <1>2, <1>4, <1>5, <2>5
    <3>3. line[i] \in Requeued /\ line[j] \in Members(disc)
      BY <1>2, <3>1, <3>2 DEF Members
    <3> QED
      BY <1>3, <3>3
  <2>6. CASE i \in n + m + 1 .. n + m + Len(disc) /\ j \in n + m + 1 .. n + m + Len(disc)
    <3>1. /\ i - n - m \in 1 .. Len(disc) /\ j - n - m \in 1 .. Len(disc)
          /\ i - n - m < j - n - m
      BY <1>4, <1>7, <2>6
    <3>2. line[i] = disc[i - n - m] /\ line[j] = disc[j - n - m]
      BY <1>5, <2>6
    <3> QED
      BY <1>3, <3>1, <3>2 DEF Increasing
  <2>7. ~ (i \in n + 1 .. n + m /\ j \in n + 1 .. n + m)
    BY <1>2, <1>4, <1>7
  <2>8. \A x \in 1 .. n + m + Len(disc) :
          \/ x \in 1 .. n \/ x \in n + 1 .. n + m
          \/ x \in n + m + 1 .. n + m + Len(disc)
    BY <1>4
  <2>9. \/ i \in 1 .. n \/ ~ j \in 1 .. n
    BY <1>4, <1>7, <2>1
  <2>10. \/ ~ i \in n + m + 1 .. n + m + Len(disc) \/ j \in n + m + 1 .. n + m + Len(disc)
    BY <1>4, <1>7, <2>1
  <2> QED
    BY <2>1, <2>2, <2>3, <2>4, <2>5, <2>6, <2>7, <2>8, <2>9, <2>10, Zenon
<1> QED
  BY <1>6, <1>7 DEF s, a, line

\* No packet is lost, duplicated or overtaken between TrafficControlLayer::Send
\* and the wire, whatever the number of transmission queues, the limits, and the
\* interleaving of sends, wakes, transmissions and the deletion of the disc.
THEOREM PacketsSafeCorrect == Spec => []PacketsSafe
<1>1. Init => IInv /\ CountInv /\ OrderInv
  BY InitIInv, InitPackets
<1>2. IInv /\ CountInv /\ OrderInv /\ [Next]_vars => (IInv /\ CountInv /\ OrderInv)'
  BY NextIInv, NextCount, NextOrder
<1>3. IInv /\ CountInv /\ OrderInv => PacketsSafe
  BY ConservedHere, OrderedHere DEF PacketsSafe
<1> QED
  BY <1>1, <1>2, <1>3, PTL DEF Spec
=============================================================================
