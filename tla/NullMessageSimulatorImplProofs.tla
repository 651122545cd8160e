------------------- MODULE NullMessageSimulatorImplProofs -------------------
(***************************************************************************)
(* Proofs about NullMessageSimulatorImpl.  What concerns time holds as     *)
(* long as no two channels of a bundle have transmitted at the same time.  *)
(***************************************************************************)
EXTENDS NullMessageSimulatorImpl, SequenceTheorems,
        FiniteSetTheorems, WellFoundedInduction, TLAPS

(***************************************************************************)
(* Natural numbers                                                         *)
(***************************************************************************)

\* A set of natural numbers has a smallest element: its elements are compared
\* by the sets of the numbers below them, which are finite.
LEMMA SmallestExists ==
  ASSUME NEW T \in SUBSET Nat, T # {}
  PROVE  \E n \in T : \A m \in T : n <= m
<1> DEFINE R == OpToRel(<, Nat)
<1>1. \E n \in T : \A m \in T : ~ (<<m, n>> \in R)
  BY NatLessThanWellFounded, WFMin, Zenon
<1>2. PICK n \in T : \A m \in T : ~ (<<m, n>> \in R)
  BY <1>1, Zenon
<1>3. R = {p \in Nat \X Nat : p[1] < p[2]}
  BY Zenon DEF OpToRel
<1> HIDE DEF R
<1>4. \A m \in T : <<m, n>> \in Nat \X Nat /\ ~ (m < n)
  BY <1>2, <1>3
<1>5. \A m \in T : n \in Nat /\ m \in Nat /\ ~ (m < n)
  BY <1>4
<1>6. \A m \in T : n <= m
  BY <1>5
<1> QED
  BY <1>6, Zenon

-----------------------------------------------------------------------------
(* The inductive invariant *)

Kinds == {"app", "complete", "null", "cancelled", "stop"}
EventRecords == [ts : Nat, kind : Kinds, to : Ranks, ch : Channels \cup {0}]
Messages == [ts : Nat, g : Nat]

\* The variables have the shapes that the operators on them take for granted.
Shape ==
  /\ program \in Programs
  /\ events \in [Ranks -> Seq(EventRecords)]
  /\ now \in [Ranks -> Nat]
  /\ safe \in [Ranks -> Nat]
  /\ guarantee \in [Ranks -> [Ranks -> Nat]]
  /\ stop \in [Ranks -> BOOLEAN]
  /\ busy \subseteq Ranks \X Ranks \X Channels
  /\ net \in [Ranks -> [Ranks -> Seq(Messages)]]
  /\ pc \in [Ranks -> {"loop", "event", "poll", "done"}]

\* The list of a rank whose time is t is in the order of execution, has nothing
\* in the past, and holds the stop, at the time end, if it is due.
InOrder(list) == \A i, j \in DOMAIN list : i < j => list[i].ts <= list[j].ts
Good(list, t, end) ==
  /\ InOrder(list)
  /\ \A i \in DOMAIN list : list[i].ts >= t
  /\ \A i \in DOMAIN list : list[i].kind = "stop" => list[i].ts = end
HoldsStop(list) == \E i \in DOMAIN list : list[i].kind = "stop"
Lists ==
  \A r \in Ranks : Good(events[r], now[r], StopTime) /\ (~ stop[r] => HoldsStop(events[r]))

\* The scheduled stop is where a rank ends that has not been stopped before.
Ends ==
  \A r \in Ranks :
    /\ now[r] <= StopTime
    /\ stop[r] /\ ~ HoldsStop(events[r]) => now[r] = StopTime
    /\ pc[r] = "done" /\ ~ stop[r] =>
         /\ Neighbours(r) = {}
         /\ \A i \in DOMAIN events[r] : events[r][i].ts >= StopTime

\* One null message is scheduled for every bundle, no further ahead than a pause,
\* and no other.
IsNull(e, s) == e.kind = "null" /\ e.to = s
NoNull(list, s) == \A i \in DOMAIN list : ~ IsNull(list[i], s)
OneNull(list, s) ==
  /\ \E i \in DOMAIN list : IsNull(list[i], s)
  /\ \A i, j \in DOMAIN list : IsNull(list[i], s) /\ IsNull(list[j], s) => i = j
NullBy(list, s, latest) == \A i \in DOMAIN list : IsNull(list[i], s) => list[i].ts <= latest
NullsFor(list, S) == \A i \in DOMAIN list : list[i].kind = "null" => list[i].to \in S
NullsDue ==
  \A r \in Ranks :
    /\ NullsFor(events[r], Neighbours(r))
    /\ \A s \in Neighbours(r) :
         OneNull(events[r], s) /\ NullBy(events[r], s, now[r] + Pause(delay[{r, s}]))

\* A rank is never beyond its safe time, nor the safe time beyond what the
\* neighbours have guaranteed.
SafeSound ==
  \A r \in Ranks :
    /\ now[r] <= safe[r]
    /\ \A s \in Neighbours(r) : safe[r] <= guarantee[r][s]
    /\ Neighbours(r) = {} => safe[r] <= StopTime

\* Only neighbours exchange messages.
OnlyNeighbours == \A s, r \in Ranks : net[s][r] # <<>> => r \in Neighbours(s)

\* The messages under way, behind a guarantee g0 that has arrived, keep it and
\* each other's.
GuaranteeAt(ms, g0, i) == IF i = 0 THEN g0 ELSE ms[i].g
Chain(ms, g0) ==
  \A i \in 0 .. Len(ms) : \A j \in i + 1 .. Len(ms) :
    /\ ms[j].g >= GuaranteeAt(ms, g0, i)
    /\ ms[j].ts # 0 => ms[j].ts >= GuaranteeAt(ms, g0, i)
Chains == \A s, r \in Ranks : Chain(net[s][r], guarantee[r][s])

\* The last of them, the latest promise.
LastOf(ms, g0) == GuaranteeAt(ms, g0, Len(ms))
Promise(r, s) == LastOf(net[r][s], guarantee[s][r])

\* Why a rank will keep the promise g it made to s over the delay d: the time
\* has come (t is the time of the rank); or it went with a packet, and a device
\* that could send another one is busy until then (on the channels of cs), and
\* no null message is due before; or it went with a null message, and nothing
\* else is due (list), or can arrive (f is the safe time), before then.
Come(g, d, t) == g <= t + d
Busy(g, d, s, list, cs) ==
  /\ cs # {}
  /\ \A i \in DOMAIN list :
       list[i].kind \in {"complete", "null"} /\ list[i].to = s => g <= list[i].ts + d
Quiet(g, d, s, list, f, p) ==
  /\ p # "event"
  /\ g <= f + d
  /\ \A i \in DOMAIN list : ~ IsNull(list[i], s) => g <= list[i].ts + d
Using(r, s) == {c \in Channels : <<r, s, c>> \in busy}
Keeps(r, s) ==
  \/ Come(Promise(r, s), delay[{r, s}], now[r])
  \/ Busy(Promise(r, s), delay[{r, s}], s, events[r], Using(r, s))
  \/ Quiet(Promise(r, s), delay[{r, s}], s, events[r], safe[r], pc[r])
PromisesHold == \A r \in Ranks : \A s \in Neighbours(r) : Keeps(r, s)

IInv ==
  /\ Shape /\ Lists /\ Ends /\ NullsDue /\ SafeSound
  /\ OnlyNeighbours /\ Chains /\ PromisesHold


-----------------------------------------------------------------------------
(* The list of events *)

\* The elements of a list are events.
LEMMA ElementsTyped ==
  ASSUME NEW list \in Seq(EventRecords), NEW i \in DOMAIN list
  PROVE  /\ list[i] \in EventRecords
         /\ list[i].ts \in Nat /\ list[i].kind \in Kinds /\ list[i].to \in Ranks
<1>1. list[i] \in EventRecords
  OBVIOUS
<1> QED
  BY <1>1 DEF EventRecords

\* The events due no later than a time are the first ones of the list.
LEMMA DuePrefix ==
  ASSUME NEW list \in Seq(EventRecords), InOrder(list), NEW t \in Nat
  PROVE  \E n \in 0 .. Len(list) :
           /\ \A i \in DOMAIN list : list[i].ts <= t <=> i <= n
           /\ Cardinality({i \in DOMAIN list : list[i].ts <= t}) = n
<1> DEFINE T == {n \in 0 .. Len(list) : \A i \in DOMAIN list : i > n => list[i].ts > t}
<1>1. Len(list) \in Nat /\ DOMAIN list = 1 .. Len(list)
  OBVIOUS
<1>2. \A i \in DOMAIN list : list[i].ts \in Nat
  BY ElementsTyped
<1>3. Len(list) \in T /\ T \in SUBSET Nat
  BY <1>1
<1>4. PICK n \in T : \A m \in T : n <= m
  BY <1>3, SmallestExists, Zenon
<1>5. \A i \in DOMAIN list : list[i].ts <= t <=> i <= n
  <2> SUFFICES ASSUME NEW i \in DOMAIN list PROVE list[i].ts <= t <=> i <= n
    OBVIOUS
  <2>1. CASE i > n
    BY <1>1, <1>2, <2>1
  <2>2. CASE i <= n
    <3>1. n >= 1 /\ n - 1 \in 0 .. Len(list) /\ n \in DOMAIN list
      BY <1>1, <2>2
    <3>2. n - 1 \notin T
      BY <1>1, <1>4, <3>1
    <3>3. PICK j \in DOMAIN list : j > n - 1 /\ ~ (list[j].ts > t)
      BY <3>1, <3>2
    <3>4. j = n
      BY <1>1, <3>3
    <3>5. list[i].ts <= list[n].ts
      BY <1>1, <1>2, <2>2, <3>1 DEF InOrder
    <3> QED
      BY <1>2, <2>2, <3>1, <3>3, <3>4, <3>5
  <2> QED
    BY <1>1, <2>1, <2>2
<1>6. {i \in DOMAIN list : list[i].ts <= t} = 1 .. n
  BY <1>1, <1>5
<1>7. Cardinality(1 .. n) = n
  BY FS_Interval
<1> QED
  BY <1>5, <1>6, <1>7

\* Insert puts an event in at its place and moves the later ones by one.
LEMMA InsertPlace ==
  ASSUME NEW list \in Seq(EventRecords), InOrder(list), NEW e \in EventRecords
  PROVE  /\ Insert(list, e) \in Seq(EventRecords)
         /\ Len(Insert(list, e)) = Len(list) + 1
         /\ InOrder(Insert(list, e))
         /\ \E k \in 1 .. Len(list) + 1 :
              \A i \in 1 .. Len(list) + 1 :
                Insert(list, e)[i] = IF i < k THEN list[i]
                                     ELSE IF i = k THEN e ELSE list[i - 1]
<1>1. Len(list) \in Nat /\ DOMAIN list = 1 .. Len(list) /\ e.ts \in Nat
  BY DEF EventRecords
<1>2. PICK n \in 0 .. Len(list) :
        /\ \A i \in DOMAIN list : list[i].ts <= e.ts <=> i <= n
        /\ Cardinality({i \in DOMAIN list : list[i].ts <= e.ts}) = n
  BY <1>1, DuePrefix
<1> DEFINE k == 1 + n
           front == SubSeq(list, 1, k - 1)
           back == SubSeq(list, k, Len(list))
           l == front \o <<e>> \o back
<1>3. Insert(list, e) = l
  BY <1>2 DEF Insert, InsertAt
<1>4. front \in Seq(EventRecords) /\ Len(front) = n /\ \A i \in 1 .. n : front[i] = list[i]
  BY <1>1
<1>5. back \in Seq(EventRecords) /\ Len(back) = Len(list) - n
      /\ \A i \in 1 .. Len(list) - n : back[i] = list[i + n]
  <2>1. back = SubSeq(list, n + 1, Len(list)) /\ n + 1 \in 1 .. Len(list) + 1
    BY <1>1
  <2>2. Len(back) = Len(list) - (n + 1) + 1 /\ back \in Seq(EventRecords)
        /\ \A i \in 1 .. Len(list) - (n + 1) + 1 : back[i] = list[(n + 1) + i - 1]
    <3>1. \A i \in n + 1 .. Len(list) : list[i] \in EventRecords
      BY <1>1
    <3>2. /\ back \in Seq(EventRecords)
          /\ Len(back) = IF n + 1 <= Len(list) THEN Len(list) - (n + 1) + 1 ELSE 0
          /\ \A i \in 1 .. Len(list) - (n + 1) + 1 : back[i] = list[(n + 1) + i - 1]
      BY <1>1, <2>1, <3>1, SubSeqProperties
    <3>3. n \in Nat /\ n <= Len(list)
      BY <1>1
    <3>4. CASE n + 1 <= Len(list)
      BY <3>2, <3>4
    <3>5. CASE n = Len(list)
      <4>1. ~ (n + 1 <= Len(list)) /\ Len(list) - (n + 1) + 1 = 0
        BY <3>3, <3>5
      <4> QED
        BY <3>2, <4>1
    <3>6. \A a, b \in Nat : a <= b => a + 1 <= b \/ a = b
      OBVIOUS
    <3>7. n + 1 <= Len(list) \/ n = Len(list)
      BY <1>1, <3>3, <3>6, Zenon
    <3> QED
      BY <3>4, <3>5, <3>7, Zenon
  <2>3. Len(list) - (n + 1) + 1 = Len(list) - n
        /\ \A i \in 1 .. Len(list) - n : (n + 1) + i - 1 = i + n
    BY <1>1
  <2> HIDE DEF back
  <2> QED
    BY <2>2, <2>3
<1> HIDE DEF front, back
<1>6. l \in Seq(EventRecords) /\ Len(l) = Len(list) + 1
  BY <1>1, <1>4, <1>5
<1>7. \A i \in 1 .. Len(list) + 1 :
        l[i] = IF i < k THEN list[i] ELSE IF i = k THEN e ELSE list[i - 1]
  <2> SUFFICES ASSUME NEW i \in 1 .. Len(list) + 1
               PROVE  l[i] = IF i < k THEN list[i] ELSE IF i = k THEN e ELSE list[i - 1]
    OBVIOUS
  <2>1. k \in Int /\ i \in Int
    BY <1>1
  <2>2. ASSUME i < k PROVE l[i] = list[i]
    <3>1. i \in 1 .. n
      BY <1>1, <2>2
    <3>2. l[i] = front[i]
      BY <1>1, <1>4, <1>5, <3>1
    <3> QED
      BY <1>4, <3>1, <3>2
  <2>3. ASSUME i = k PROVE l[i] = e
    <3>1. Len(front \o <<e>>) = k /\ front \o <<e>> \in Seq(EventRecords)
          /\ (front \o <<e>>)[k] = e /\ k \in 1 .. Len(front \o <<e>>)
      BY <1>1, <1>4
    <3>2. l[k] = (front \o <<e>>)[k]
      BY <1>5, <3>1
    <3> QED
      BY <2>3, <3>1, <3>2
  <2>4. ASSUME i > k PROVE l[i] = list[i - 1]
    <3>1. i - k \in 1 .. Len(list) - n /\ i - k + n = i - 1
      BY <1>1, <2>4
    <3>2. l[i] = back[i - k]
      BY <1>1, <1>4, <1>5, <2>4
    <3> QED
      BY <1>5, <3>1, <3>2
  <2> HIDE DEF l, k
  <2> QED
    BY <2>1, <2>2, <2>3, <2>4
<1> HIDE DEF l
<1>8. \A i \in DOMAIN list : list[i].ts \in Nat
  BY ElementsTyped
<1>9. InOrder(l)
  <2> SUFFICES ASSUME NEW i \in 1 .. Len(list) + 1, NEW j \in 1 .. Len(list) + 1, i < j
               PROVE  l[i].ts <= l[j].ts
    BY <1>6 DEF InOrder
  <2>1. CASE j < k
    BY <1>1, <1>7, <2>1 DEF InOrder
  <2>2. CASE j = k
    BY <1>1, <1>2, <1>7, <2>2
  <2>3. CASE j > k
    <3>1. l[j] = list[j - 1] /\ j - 1 \in DOMAIN list /\ ~ (j - 1 <= n)
      BY <1>1, <1>7, <2>3
    <3>2. e.ts <= list[j - 1].ts
      BY <1>1, <1>2, <1>8, <3>1
    <3>3. CASE i < k
      BY <1>1, <1>7, <2>3, <3>1, <3>3, SMTT(30) DEF InOrder
    <3>4. CASE i = k
      BY <1>7, <3>1, <3>2, <3>4
    <3>5. CASE i > k
      BY <1>1, <1>7, <2>3, <3>1, <3>5, SMTT(30) DEF InOrder
    <3> QED
      BY <3>3, <3>4, <3>5
  <2> QED
    BY <2>1, <2>2, <2>3
<1>10. k \in 1 .. Len(list) + 1
  BY <1>1
<1> HIDE DEF k
<1> QED
  BY <1>3, <1>6, <1>7, <1>9, <1>10

\* Its elements are the event and those there were.
LEMMA InsertElements ==
  ASSUME NEW list \in Seq(EventRecords), InOrder(list), NEW e \in EventRecords
  PROVE  /\ Insert(list, e) \in Seq(EventRecords) /\ InOrder(Insert(list, e))
         /\ Insert(list, e) # <<>>
         /\ \A i \in DOMAIN Insert(list, e) :
              Insert(list, e)[i] = e \/ \E j \in DOMAIN list : Insert(list, e)[i] = list[j]
         /\ \A j \in DOMAIN list : \E i \in DOMAIN Insert(list, e) : Insert(list, e)[i] = list[j]
         /\ \E i \in DOMAIN Insert(list, e) : Insert(list, e)[i] = e
<1> DEFINE l == Insert(list, e)
           n == Len(list)
<1>1. l \in Seq(EventRecords) /\ Len(l) = n + 1 /\ InOrder(l)
  BY InsertPlace
<1>2. PICK k \in 1 .. n + 1 : \A i \in 1 .. n + 1 :
        l[i] = IF i < k THEN list[i] ELSE IF i = k THEN e ELSE list[i - 1]
  BY InsertPlace
<1> HIDE DEF l
<1>3. n \in Nat /\ DOMAIN list = 1 .. n /\ DOMAIN l = 1 .. n + 1
  BY <1>1
<1> HIDE DEF n
<1>4. \A i \in DOMAIN l : l[i] = e \/ \E j \in DOMAIN list : l[i] = list[j]
  <2> SUFFICES ASSUME NEW i \in DOMAIN l PROVE l[i] = e \/ \E j \in DOMAIN list : l[i] = list[j]
    OBVIOUS
  <2>1. CASE i < k
    BY <1>2, <1>3, <2>1
  <2>2. CASE i = k
    BY <1>2, <1>3, <2>2
  <2>3. CASE i > k
    <3>1. i - 1 \in DOMAIN list /\ l[i] = list[i - 1]
      BY <1>2, <1>3, <2>3
    <3> QED
      BY <3>1
  <2> QED
    BY <1>3, <2>1, <2>2, <2>3
<1>5. \A j \in DOMAIN list : \E i \in DOMAIN l : l[i] = list[j]
  <2> SUFFICES ASSUME NEW j \in DOMAIN list PROVE \E i \in DOMAIN l : l[i] = list[j]
    OBVIOUS
  <2>1. CASE j < k
    <3>1. j \in DOMAIN l /\ l[j] = list[j]
      BY <1>2, <1>3, <2>1
    <3> QED
      BY <3>1
  <2>2. CASE ~ (j < k)
    <3>1. j + 1 \in DOMAIN l /\ l[j + 1] = list[j + 1 - 1] /\ j + 1 - 1 = j
      BY <1>2, <1>3, <2>2
    <3> QED
      BY <3>1
  <2> QED
    BY <2>1, <2>2
<1>6. k \in DOMAIN l /\ l[k] = e
  BY <1>2, <1>3
<1>7. l # <<>>
  BY <1>3, <1>6
<1> QED
  BY <1>1, <1>4, <1>5, <1>6, <1>7 DEF l

\* An event that is not the null message of a bundle leaves that one the only
\* one, ...
LEMMA InsertOther ==
  ASSUME NEW list \in Seq(EventRecords), InOrder(list), NEW e \in EventRecords,
         NEW s, OneNull(list, s), ~ IsNull(e, s)
  PROVE  OneNull(Insert(list, e), s)
<1> DEFINE l == Insert(list, e)
           n == Len(list)
<1>1. l \in Seq(EventRecords) /\ Len(l) = n + 1
  BY InsertPlace
<1>2. PICK k \in 1 .. n + 1 : \A i \in 1 .. n + 1 :
        l[i] = IF i < k THEN list[i] ELSE IF i = k THEN e ELSE list[i - 1]
  BY InsertPlace
<1>3. \E i \in DOMAIN l : IsNull(l[i], s)
  BY InsertElements DEF OneNull
<1> HIDE DEF l
<1>4. n \in Nat /\ DOMAIN list = 1 .. n /\ DOMAIN l = 1 .. n + 1
  BY <1>1
<1> HIDE DEF n
<1> DEFINE from(i) == IF i < k THEN i ELSE i - 1
<1>5. \A i \in DOMAIN l : IsNull(l[i], s) => i # k /\ from(i) \in DOMAIN list /\ l[i] = list[from(i)]
  BY <1>2, <1>4
<1>6. ASSUME NEW i \in DOMAIN l, NEW j \in DOMAIN l, IsNull(l[i], s), IsNull(l[j], s)
      PROVE  i = j
  <2>1. from(i) = from(j) /\ i # k /\ j # k
    BY <1>5, <1>6 DEF OneNull
  <2> QED
    BY <1>4, <2>1
<1> QED
  BY <1>3, <1>6 DEF OneNull, l

\* ... and one that is becomes the only one.
LEMMA InsertNull ==
  ASSUME NEW list \in Seq(EventRecords), InOrder(list), NEW e \in EventRecords,
         NEW s, NoNull(list, s), IsNull(e, s)
  PROVE  OneNull(Insert(list, e), s)
<1> DEFINE l == Insert(list, e)
           n == Len(list)
<1>1. l \in Seq(EventRecords) /\ Len(l) = n + 1
  BY InsertPlace
<1>2. PICK k \in 1 .. n + 1 : \A i \in 1 .. n + 1 :
        l[i] = IF i < k THEN list[i] ELSE IF i = k THEN e ELSE list[i - 1]
  BY InsertPlace
<1> HIDE DEF l
<1>3. n \in Nat /\ DOMAIN list = 1 .. n /\ DOMAIN l = 1 .. n + 1
  BY <1>1
<1> HIDE DEF n
<1>4. \A i \in DOMAIN l : i # k => ~ IsNull(l[i], s)
  BY <1>2, <1>3, SMTT(30) DEF NoNull
<1>5. k \in DOMAIN l /\ l[k] = e
  BY <1>2, <1>3
<1> QED
  BY <1>4, <1>5 DEF OneNull, l


\* Without its first event, the list keeps the order.
LEMMA TailElements ==
  ASSUME NEW list \in Seq(EventRecords), InOrder(list), list # <<>>
  PROVE  /\ Tail(list) \in Seq(EventRecords) /\ InOrder(Tail(list))
         /\ 1 \in DOMAIN list
         /\ \A i \in DOMAIN Tail(list) :
              i + 1 \in DOMAIN list /\ i + 1 # 1 /\ Tail(list)[i] = list[i + 1]
         /\ \A j \in DOMAIN list \ {1} : \E i \in DOMAIN Tail(list) : Tail(list)[i] = list[j]
         /\ \A i \in DOMAIN list : list[1].ts <= list[i].ts
         /\ \A i \in DOMAIN Tail(list) : list[1].ts <= Tail(list)[i].ts
<1> DEFINE n == Len(list)
           l == Tail(list)
<1>1. n \in Nat /\ n # 0 /\ DOMAIN list = 1 .. n
  OBVIOUS
<1>2. l \in Seq(EventRecords) /\ Len(l) = n - 1 /\ DOMAIN l = 1 .. n - 1
      /\ \A i \in 1 .. n - 1 : l[i] = list[i + 1]
  BY <1>1
<1> HIDE DEF l, n
<1>3. \A i \in DOMAIN l : i + 1 \in DOMAIN list /\ i + 1 # 1 /\ l[i] = list[i + 1]
  BY <1>1, <1>2
<1>4. 1 \in DOMAIN list
  BY <1>1
<1>5. \A i \in DOMAIN list : list[1].ts <= list[i].ts
  <2> SUFFICES ASSUME NEW i \in DOMAIN list PROVE list[1].ts <= list[i].ts
    OBVIOUS
  <2>1. list[1].ts \in Nat
    BY <1>4, ElementsTyped
  <2>2. CASE i = 1
    BY <2>1, <2>2
  <2>3. CASE i # 1
    BY <1>1, <2>3 DEF InOrder
  <2> QED
    BY <2>2, <2>3
<1>6. InOrder(l)
  <2> SUFFICES ASSUME NEW i \in DOMAIN l, NEW j \in DOMAIN l, i < j PROVE l[i].ts <= l[j].ts
    BY DEF InOrder
  <2>1. i + 1 < j + 1
    BY <1>1, <1>2
  <2> QED
    BY <1>3, <2>1 DEF InOrder
<1>7. \A j \in DOMAIN list \ {1} : \E i \in DOMAIN l : l[i] = list[j]
  <2> SUFFICES ASSUME NEW j \in DOMAIN list, j # 1 PROVE \E i \in DOMAIN l : l[i] = list[j]
    OBVIOUS
  <2>1. j - 1 \in DOMAIN l /\ l[j - 1] = list[j - 1 + 1] /\ j - 1 + 1 = j
    BY <1>1, <1>2
  <2> QED
    BY <2>1
<1>8. \A i \in DOMAIN l : list[1].ts <= l[i].ts
  BY <1>3, <1>5
<1> QED
  BY <1>2, <1>3, <1>4, <1>5, <1>6, <1>7, <1>8 DEF l

\* The null message of a bundle is still the only one when the event gone was
\* another, ...
LEMMA TailOther ==
  ASSUME NEW list \in Seq(EventRecords), InOrder(list), list # <<>>,
         NEW s, OneNull(list, s), ~ IsNull(list[1], s)
  PROVE  OneNull(Tail(list), s)
<1> DEFINE l == Tail(list)
<1>1. /\ \A i \in DOMAIN l : i + 1 \in DOMAIN list /\ i + 1 # 1 /\ l[i] = list[i + 1]
      /\ \A j \in DOMAIN list \ {1} : \E i \in DOMAIN l : l[i] = list[j]
      /\ l \in Seq(EventRecords)
  BY TailElements
<1> HIDE DEF l
<1>2. DOMAIN l \subseteq Int
  BY <1>1
<1>3. \E i \in DOMAIN l : IsNull(l[i], s)
  BY <1>1 DEF OneNull
<1>4. ASSUME NEW i \in DOMAIN l, NEW j \in DOMAIN l, IsNull(l[i], s), IsNull(l[j], s)
      PROVE  i = j
  <2>1. i + 1 = j + 1
    BY <1>1, <1>4 DEF OneNull
  <2> QED
    BY <1>2, <2>1
<1> QED
  BY <1>3, <1>4 DEF OneNull, l

\* ... and is gone when it was that.
LEMMA TailNull ==
  ASSUME NEW list \in Seq(EventRecords), InOrder(list), list # <<>>,
         NEW s, OneNull(list, s), IsNull(list[1], s)
  PROVE  NoNull(Tail(list), s)
BY TailElements DEF NoNull, OneNull

\* Cancelling the null message of a bundle leaves none, ...
LEMMA CancelledElements ==
  ASSUME NEW list \in Seq(EventRecords), InOrder(list), NEW s
  PROVE  /\ Cancelled(list, s) \in Seq(EventRecords) /\ InOrder(Cancelled(list, s))
         /\ DOMAIN Cancelled(list, s) = DOMAIN list
         /\ \A i \in DOMAIN list :
              /\ Cancelled(list, s)[i].ts = list[i].ts
              /\ Cancelled(list, s)[i].to = list[i].to
              /\ Cancelled(list, s)[i].kind = IF IsNull(list[i], s) THEN "cancelled" ELSE list[i].kind
<1> DEFINE l == Cancelled(list, s)
<1>1. DOMAIN l = DOMAIN list /\ DOMAIN list = 1 .. Len(list) /\ Len(list) \in Nat
  BY DEF Cancelled
<1>2. ASSUME NEW i \in DOMAIN list
      PROVE  /\ l[i] \in EventRecords
             /\ l[i].ts = list[i].ts /\ l[i].to = list[i].to
             /\ l[i].kind = IF IsNull(list[i], s) THEN "cancelled" ELSE list[i].kind
  <2>1. list[i] \in EventRecords
    BY ElementsTyped
  <2>2. CASE IsNull(list[i], s)
    <3>1. l[i] = [list[i] EXCEPT !.kind = "cancelled"]
      BY <2>2 DEF Cancelled, IsNull
    <3> QED
      BY <2>1, <2>2, <3>1 DEF EventRecords, Kinds
  <2>3. CASE ~ IsNull(list[i], s)
    <3>1. l[i] = list[i]
      BY <2>3 DEF Cancelled, IsNull
    <3> QED
      BY <2>1, <2>3, <3>1
  <2> QED
    BY <2>2, <2>3
<1>3. l \in Seq(EventRecords)
  <2>1. l = [i \in 1 .. Len(list) |-> l[i]]
    BY <1>1 DEF Cancelled
  <2>2. \A i \in 1 .. Len(list) : l[i] \in EventRecords
    BY <1>1, <1>2
  <2> HIDE DEF l
  <2> QED
    BY <1>1, <2>1, <2>2
<1>4. InOrder(l)
  BY <1>1, <1>2 DEF InOrder
<1> QED
  BY <1>1, <1>2, <1>3, <1>4

\* ... and the others as they are.
LEMMA CancelledNulls ==
  ASSUME NEW list \in Seq(EventRecords), InOrder(list), NEW s
  PROVE  /\ NoNull(Cancelled(list, s), s)
         /\ \A t : t # s /\ OneNull(list, t) => OneNull(Cancelled(list, s), t)
<1> DEFINE l == Cancelled(list, s)
<1>1. /\ DOMAIN l = DOMAIN list
      /\ \A i \in DOMAIN list :
           /\ l[i].to = list[i].to
           /\ l[i].kind = IF IsNull(list[i], s) THEN "cancelled" ELSE list[i].kind
  BY CancelledElements
<1> HIDE DEF l
<1>2. NoNull(l, s)
  BY <1>1 DEF NoNull, IsNull
<1>3. ASSUME NEW t, t # s, NEW i \in DOMAIN l PROVE IsNull(l[i], t) <=> IsNull(list[i], t)
  BY <1>1, <1>3 DEF IsNull
<1>4. \A t : t # s /\ OneNull(list, t) => OneNull(l, t)
  BY <1>1, <1>3 DEF OneNull
<1> QED
  BY <1>2, <1>4 DEF l


\* A list stays good when an event that is not in the past is inserted, ...
LEMMA InsertGood ==
  ASSUME NEW list \in Seq(EventRecords), NEW t \in Nat, NEW end \in Nat,
         Good(list, t, end), NEW e \in EventRecords, e.ts >= t, e.kind # "stop"
  PROVE  /\ Good(Insert(list, e), t, end)
         /\ HoldsStop(list) => HoldsStop(Insert(list, e))
<1>1. InOrder(list)
  BY DEF Good
<1>2. /\ InOrder(Insert(list, e))
      /\ \A i \in DOMAIN Insert(list, e) :
           Insert(list, e)[i] = e \/ \E j \in DOMAIN list : Insert(list, e)[i] = list[j]
      /\ \A j \in DOMAIN list : \E i \in DOMAIN Insert(list, e) : Insert(list, e)[i] = list[j]
  BY <1>1, InsertElements
<1>3. \A i \in DOMAIN Insert(list, e) : Insert(list, e)[i].ts >= t
  BY <1>2 DEF Good
<1>4. \A i \in DOMAIN Insert(list, e) :
        Insert(list, e)[i].kind = "stop" => Insert(list, e)[i].ts = end
  BY <1>2 DEF Good
<1>5. HoldsStop(list) => HoldsStop(Insert(list, e))
  BY <1>2 DEF HoldsStop
<1> QED
  BY <1>2, <1>3, <1>4, <1>5 DEF Good

\* ... and when the time moves to its first event, which leaves it.
LEMMA TailGood ==
  ASSUME NEW list \in Seq(EventRecords), NEW t \in Nat, NEW end \in Nat,
         Good(list, t, end), list # <<>>
  PROVE  /\ Good(Tail(list), list[1].ts, end) /\ list[1].ts >= t
         /\ HoldsStop(list) => list[1].ts <= end
         /\ HoldsStop(list) /\ list[1].kind # "stop" => HoldsStop(Tail(list)) /\ Tail(list) # <<>>
<1> DEFINE l == Tail(list)
<1>1. InOrder(list)
  BY DEF Good
<1>2. /\ l \in Seq(EventRecords) /\ InOrder(l)
      /\ 1 \in DOMAIN list
      /\ \A i \in DOMAIN l : i + 1 \in DOMAIN list /\ i + 1 # 1 /\ l[i] = list[i + 1]
      /\ \A j \in DOMAIN list \ {1} : \E i \in DOMAIN l : l[i] = list[j]
      /\ \A i \in DOMAIN list : list[1].ts <= list[i].ts
      /\ \A i \in DOMAIN l : list[1].ts <= l[i].ts
  BY <1>1, TailElements
<1> HIDE DEF l
<1>3. list[1].ts \in Nat /\ \A i \in DOMAIN l : l[i].ts \in Nat
  BY <1>2, ElementsTyped
<1>4. Good(l, list[1].ts, end)
  <2>1. \A i \in DOMAIN l : l[i].ts >= list[1].ts
    BY <1>2, <1>3
  <2>2. \A i \in DOMAIN l : l[i].kind = "stop" => l[i].ts = end
    BY <1>2 DEF Good
  <2> QED
    BY <1>2, <2>1, <2>2 DEF Good
<1>5. list[1].ts >= t
  BY <1>2 DEF Good
<1>6. HoldsStop(list) => list[1].ts <= end
  BY <1>2 DEF Good, HoldsStop
<1>7. ASSUME HoldsStop(list), list[1].kind # "stop" PROVE HoldsStop(l) /\ l # <<>>
  <2>1. PICK i \in DOMAIN l : l[i].kind = "stop"
    BY <1>2, <1>7 DEF HoldsStop
  <2>2. l # <<>>
    BY <1>2, <2>1
  <2> QED
    BY <2>1, <2>2 DEF HoldsStop
<1> QED
  BY <1>4, <1>5, <1>6, <1>7 DEF l

\* Cancelling an event does not matter to that.
LEMMA CancelledGood ==
  ASSUME NEW list \in Seq(EventRecords), NEW t \in Nat, NEW end \in Nat,
         Good(list, t, end), NEW s
  PROVE  /\ Good(Cancelled(list, s), t, end)
         /\ HoldsStop(list) => HoldsStop(Cancelled(list, s))
<1> DEFINE l == Cancelled(list, s)
<1>1. /\ InOrder(l) /\ DOMAIN l = DOMAIN list
      /\ \A i \in DOMAIN list :
           /\ l[i].ts = list[i].ts
           /\ l[i].kind = IF IsNull(list[i], s) THEN "cancelled" ELSE list[i].kind
  BY CancelledElements DEF Good
<1> HIDE DEF l
<1>2. \A i \in DOMAIN l : l[i].kind = "stop" <=> list[i].kind = "stop"
  BY <1>1 DEF IsNull
<1> QED
  BY <1>1, <1>2 DEF Good, HoldsStop, l

-----------------------------------------------------------------------------
(* The messages *)

\* A message that honours the last promise can follow, ...
LEMMA ChainAppend ==
  ASSUME NEW ms \in Seq(Messages), NEW g0 \in Nat, Chain(ms, g0), NEW m \in Messages,
         m.g >= LastOf(ms, g0), m.ts # 0 => m.ts >= LastOf(ms, g0)
  PROVE  /\ Append(ms, m) \in Seq(Messages)
         /\ Chain(Append(ms, m), g0)
         /\ LastOf(Append(ms, m), g0) = m.g
<1> DEFINE n == Len(ms)
           l == Append(ms, m)
<1>1. n \in Nat /\ DOMAIN ms = 1 .. n
  OBVIOUS
<1>2. l \in Seq(Messages) /\ Len(l) = n + 1 /\ l[n + 1] = m /\ \A i \in 1 .. n : l[i] = ms[i]
  OBVIOUS
<1>3. \A i \in 1 .. n : ms[i].g \in Nat /\ ms[i].ts \in Nat
  <2>1. \A i \in 1 .. n : ms[i] \in Messages
    OBVIOUS
  <2> QED
    BY <2>1 DEF Messages
<1>4. m.g \in Nat /\ m.ts \in Nat
  BY DEF Messages
<1> HIDE DEF l, n
<1>5. \A i \in 0 .. n : GuaranteeAt(l, g0, i) = GuaranteeAt(ms, g0, i)
  BY <1>1, <1>2 DEF GuaranteeAt
<1>6. \A i \in 0 .. n : GuaranteeAt(ms, g0, i) \in Nat /\ GuaranteeAt(ms, g0, i) <= LastOf(ms, g0)
  <2> SUFFICES ASSUME NEW i \in 0 .. n
               PROVE  GuaranteeAt(ms, g0, i) \in Nat /\ GuaranteeAt(ms, g0, i) <= LastOf(ms, g0)
    OBVIOUS
  <2>1. GuaranteeAt(ms, g0, i) \in Nat
    BY <1>1, <1>3 DEF GuaranteeAt
  <2>2. CASE i = n
    BY <2>1, <2>2 DEF LastOf, n
  <2>3. CASE i < n
    <3>1. n \in i + 1 .. n /\ LastOf(ms, g0) = ms[n].g
      BY <1>1, <2>3 DEF LastOf, n, GuaranteeAt
    <3>2. ms[n].g >= GuaranteeAt(ms, g0, i)
      BY <3>1 DEF Chain, n
    <3> QED
      BY <1>1, <1>3, <2>1, <3>1, <3>2
  <2> QED
    BY <1>1, <2>2, <2>3
<1>7. LastOf(ms, g0) \in Nat
  BY <1>1, <1>6 DEF LastOf, n
<1>8. Chain(l, g0)
  <2> SUFFICES ASSUME NEW i \in 0 .. n + 1, NEW j \in i + 1 .. n + 1
               PROVE  /\ l[j].g >= GuaranteeAt(l, g0, i)
                      /\ l[j].ts # 0 => l[j].ts >= GuaranteeAt(l, g0, i)
    BY <1>2 DEF Chain
  <2>1. i \in 0 .. n /\ j \in 1 .. n + 1
    BY <1>1
  <2>2. CASE j = n + 1
    BY <1>2, <1>4, <1>5, <1>6, <1>7, <2>1, <2>2
  <2>3. CASE j \in i + 1 .. n
    <3>1. l[j] = ms[j]
      BY <1>1, <1>2, <2>1, <2>3
    <3>2. ms[j].g >= GuaranteeAt(ms, g0, i) /\ (ms[j].ts # 0 => ms[j].ts >= GuaranteeAt(ms, g0, i))
      BY <2>1, <2>3 DEF Chain, n
    <3> QED
      BY <1>5, <2>1, <3>1, <3>2
  <2> QED
    BY <1>1, <2>2, <2>3
<1>9. LastOf(l, g0) = m.g
  BY <1>1, <1>2 DEF LastOf, GuaranteeAt
<1> QED
  BY <1>2, <1>8, <1>9 DEF l

\* ... the first message honours the guarantee that has arrived and takes its
\* place, and the last promise is the same.
LEMMA ChainTail ==
  ASSUME NEW ms \in Seq(Messages), NEW g0 \in Nat, Chain(ms, g0), ms # <<>>
  PROVE  /\ Tail(ms) \in Seq(Messages) /\ Head(ms) \in Messages
         /\ Head(ms).g \in Nat /\ Head(ms).ts \in Nat
         /\ Head(ms).g >= g0 /\ (Head(ms).ts # 0 => Head(ms).ts >= g0)
         /\ Chain(Tail(ms), Head(ms).g)
         /\ LastOf(Tail(ms), Head(ms).g) = LastOf(ms, g0)
<1> DEFINE n == Len(ms)
           l == Tail(ms)
           h == Head(ms)
<1>1. n \in Nat /\ n # 0 /\ DOMAIN ms = 1 .. n
  OBVIOUS
<1>2. l \in Seq(Messages) /\ Len(l) = n - 1 /\ (\A i \in 1 .. n - 1 : l[i] = ms[i + 1])
      /\ h = ms[1]
  BY <1>1
<1>3. h \in Messages
  BY <1>1
<1>4. h.g \in Nat /\ h.ts \in Nat
  BY <1>3 DEF Messages
<1> HIDE DEF l, n, h
<1>5. h.g >= g0 /\ (h.ts # 0 => h.ts >= g0)
  <2>1. 0 \in 0 .. Len(ms) /\ 1 \in 0 + 1 .. Len(ms) /\ GuaranteeAt(ms, g0, 0) = g0
    BY <1>1 DEF n, GuaranteeAt
  <2>2. ms[1].g >= GuaranteeAt(ms, g0, 0) /\ (ms[1].ts # 0 => ms[1].ts >= GuaranteeAt(ms, g0, 0))
    BY <2>1 DEF Chain
  <2> QED
    BY <1>2, <2>1, <2>2
<1>6. \A i \in 0 .. n - 1 : GuaranteeAt(l, h.g, i) = GuaranteeAt(ms, g0, i + 1)
  BY <1>1, <1>2 DEF GuaranteeAt
<1>7. Chain(l, h.g)
  <2> SUFFICES ASSUME NEW i \in 0 .. n - 1, NEW j \in i + 1 .. n - 1
               PROVE  /\ l[j].g >= GuaranteeAt(l, h.g, i)
                      /\ l[j].ts # 0 => l[j].ts >= GuaranteeAt(l, h.g, i)
    BY <1>2 DEF Chain
  <2>1. i + 1 \in 0 .. Len(ms) /\ j + 1 \in (i + 1) + 1 .. Len(ms) /\ l[j] = ms[j + 1]
    BY <1>1, <1>2 DEF n
  <2>2. /\ ms[j + 1].g >= GuaranteeAt(ms, g0, i + 1)
        /\ ms[j + 1].ts # 0 => ms[j + 1].ts >= GuaranteeAt(ms, g0, i + 1)
    BY <2>1 DEF Chain
  <2> QED
    BY <1>6, <2>1, <2>2
<1>8. LastOf(l, h.g) = LastOf(ms, g0)
  <2>1. n - 1 \in 0 .. n - 1 /\ n - 1 + 1 = n
    BY <1>1
  <2> QED
    BY <1>2, <1>6, <2>1 DEF LastOf, n
<1> QED
  BY <1>2, <1>3, <1>4, <1>5, <1>7, <1>8 DEF l, h


-----------------------------------------------------------------------------
(* Times *)

\* The smaller of two times, as in CalculateGuaranteeTime.
LEMMA MinOfTwo ==
  ASSUME NEW a \in Nat, NEW b \in Nat
  PROVE  /\ Min({a, b}) \in Nat /\ Min({a, b}) <= a /\ Min({a, b}) <= b
         /\ \A c \in Nat : c <= a /\ c <= b => c <= Min({a, b})
<1>1. \E x \in {a, b} : \A y \in {a, b} : x <= y
  OBVIOUS
<1>2. Min({a, b}) \in {a, b} /\ \A y \in {a, b} : Min({a, b}) <= y
  BY <1>1 DEF Min
<1> QED
  BY <1>2

\* The delay of a bundle is the smallest of those of its channels.
LEMMA BundleDelay ==
  ASSUME program \in Programs, NEW l \in DOMAIN delay
  PROVE  /\ delay[l] \in Nat /\ l \subseteq program.ranks
         /\ \A c \in channels(l) : program.delay[l][c] \in Nat /\ program.delay[l][c] >= delay[l]
<1> DEFINE T == {program.delay[l][c] : c \in channels(l)}
<1>1. l \in DOMAIN program.delay
  BY DEF delay
<1>2. /\ l \subseteq program.ranks /\ DOMAIN program.delay[l] # {}
      /\ \A c \in DOMAIN program.delay[l] : program.delay[l][c] \in Nat \ {0}
  <2>1. \A k \in DOMAIN program.delay :
          /\ k \subseteq program.ranks /\ DOMAIN program.delay[k] \in (SUBSET Channels) \ {{}}
          /\ \A c \in DOMAIN program.delay[k] : program.delay[k][c] \in Nat \ {0}
    BY ProgramsAssumption, Zenon
  <2>2. /\ l \subseteq program.ranks /\ DOMAIN program.delay[l] \in (SUBSET Channels) \ {{}}
        /\ \A c \in DOMAIN program.delay[l] : program.delay[l][c] \in Nat \ {0}
    BY <1>1, <2>1, Zenon
  <2>3. DOMAIN program.delay[l] # {}
    BY <2>2
  <2> QED
    BY <2>2, <2>3, Zenon
<1>3. T \in SUBSET Nat /\ T # {}
  BY <1>2 DEF channels
<1>4. \E n \in T : \A m \in T : n <= m
  BY <1>3, SmallestExists
<1>5. Min(T) \in T /\ \A m \in T : Min(T) <= m
  BY <1>4, Zenon DEF Min
<1>6. delay[l] = Min(T)
  BY <1>1 DEF delay
<1>7. \A c \in channels(l) : program.delay[l][c] \in T
  OBVIOUS
<1> HIDE DEF T
<1> QED
  BY <1>2, <1>3, <1>5, <1>6, <1>7

\* What a program provides.
LEMMA ProgramFacts ==
  ASSUME Shape
  PROVE  /\ StopTime \in Nat /\ StopTime # 0
         /\ \A r \in Ranks : \A s \in Neighbours(r) :
              /\ s \in Ranks /\ r \in Neighbours(s) /\ s # r /\ {s, r} = {r, s}
              /\ delay[{r, s}] \in Nat /\ Pause(delay[{r, s}]) \in Nat
              /\ \A c \in channels({r, s}) :
                   program.delay[{r, s}][c] \in Nat /\ program.delay[{r, s}][c] >= delay[{r, s}]
              /\ r \in program.ranks
<1>1. program \in Programs
  BY DEF Shape
<1>2. program.tune \in 1 .. 100 /\ StopTime \in Nat \ {0}
  BY <1>1, ProgramsAssumption DEF StopTime
<1>3. \A x \in Nat : (program.tune * x + 50) \div 100 \in Nat
  BY <1>2
<1>4. ASSUME NEW r \in Ranks, NEW s \in Neighbours(r)
      PROVE  /\ s \in Ranks /\ r \in Neighbours(s) /\ s # r /\ {s, r} = {r, s}
             /\ delay[{r, s}] \in Nat /\ Pause(delay[{r, s}]) \in Nat
             /\ \A c \in channels({r, s}) :
                  program.delay[{r, s}][c] \in Nat /\ program.delay[{r, s}][c] >= delay[{r, s}]
             /\ r \in program.ranks
  <2>1. s \in Ranks /\ {r, s} \in DOMAIN delay /\ s # r /\ {s, r} = {r, s}
    BY DEF Neighbours
  <2>2. r \in Neighbours(s)
    BY <2>1 DEF Neighbours
  <2>3. /\ delay[{r, s}] \in Nat /\ {r, s} \subseteq program.ranks
        /\ \A c \in channels({r, s}) :
             program.delay[{r, s}][c] \in Nat /\ program.delay[{r, s}][c] >= delay[{r, s}]
    BY <1>1, <2>1, BundleDelay
  <2> QED
    BY <1>3, <2>1, <2>2, <2>3 DEF Pause
<1> QED
  BY <1>2, <1>4

\* The safe time is the smallest of the guarantees.
LEMMA SafeTimeFacts ==
  ASSUME Shape, NEW r \in Ranks, NEW g \in [Ranks -> Nat]
  PROVE  /\ SafeTime(r, g) \in Nat
         /\ \A s \in Neighbours(r) : SafeTime(r, g) <= g[s]
         /\ Neighbours(r) = {} => SafeTime(r, g) = StopTime
         /\ \A a \in Nat : Neighbours(r) # {} /\ (\A s \in Neighbours(r) : a <= g[s])
                             => a <= SafeTime(r, g)
<1>1. CASE Neighbours(r) = {}
  BY <1>1, ProgramFacts DEF SafeTime
<1>2. CASE Neighbours(r) # {}
  <2> DEFINE T == {g[s] : s \in Neighbours(r)}
  <2>1. T \in SUBSET Nat /\ T # {}
    BY <1>2 DEF Neighbours
  <2>2. \E n \in T : \A m \in T : n <= m
    BY <2>1, SmallestExists
  <2>3. Min(T) \in T /\ \A m \in T : Min(T) <= m
    BY <2>2, Zenon DEF Min
  <2>4. SafeTime(r, g) = Min(T)
    BY <1>2 DEF SafeTime
  <2> QED
    BY <1>2, <2>1, <2>3, <2>4
<1> QED
  BY <1>1, <1>2

-----------------------------------------------------------------------------
(* Keeping a promise *)

\* The event that is executed next is not the null message of the bundle: then
\* the time has come, or the device stays busy.
LEMMA KeepExecute ==
  ASSUME NEW list \in Seq(EventRecords), InOrder(list), list # <<>>,
         NEW g \in Nat, NEW d \in Nat, NEW s, NEW t \in Nat, NEW f, NEW p, NEW cs, NEW cs2,
         list[1].ts >= t, ~ IsNull(list[1], s),
         cs2 = cs \/ (list[1].kind = "complete" /\ list[1].to = s),
         Come(g, d, t) \/ Busy(g, d, s, list, cs) \/ Quiet(g, d, s, list, f, p)
  PROVE  Come(g, d, list[1].ts) \/ Busy(g, d, s, Tail(list), cs2)
<1>1. /\ 1 \in DOMAIN list
      /\ \A i \in DOMAIN Tail(list) : i + 1 \in DOMAIN list /\ Tail(list)[i] = list[i + 1]
  BY TailElements
<1>2. list[1].ts \in Nat
  BY <1>1, ElementsTyped
<1>3. CASE Come(g, d, t)
  BY <1>2, <1>3 DEF Come
<1>4. CASE Quiet(g, d, s, list, f, p)
  BY <1>1, <1>4 DEF Come, Quiet
<1>5. CASE Busy(g, d, s, list, cs)
  <2>1. CASE list[1].kind = "complete" /\ list[1].to = s
    BY <1>1, <1>5, <2>1 DEF Come, Busy
  <2>2. CASE cs2 = cs
    BY <1>1, <1>5, <2>2 DEF Busy
  <2> QED
    BY <2>1, <2>2
<1> QED
  BY <1>3, <1>4, <1>5

\* An event that cannot send to s does no harm to a device that is busy.
LEMMA BusyInsert ==
  ASSUME NEW list \in Seq(EventRecords), InOrder(list), NEW e \in EventRecords,
         NEW g, NEW d, NEW s, NEW cs, Busy(g, d, s, list, cs),
         ~ (e.kind \in {"complete", "null"} /\ e.to = s)
  PROVE  Busy(g, d, s, Insert(list, e), cs)
<1> SUFFICES ASSUME NEW i \in DOMAIN Insert(list, e),
                    Insert(list, e)[i].kind \in {"complete", "null"}, Insert(list, e)[i].to = s
             PROVE  g <= Insert(list, e)[i].ts + d
  BY DEF Busy
<1>1. PICK j \in DOMAIN list : Insert(list, e)[i] = list[j]
  BY InsertElements, ZenonT(30)
<1>2. list[j].kind \in {"complete", "null"} /\ list[j].to = s
  BY <1>1
<1> QED
  BY <1>1, <1>2 DEF Busy

\* A packet that arrives, or an event scheduled by one that runs, is no reason
\* to break a promise.
LEMMA KeepInsert ==
  ASSUME NEW list \in Seq(EventRecords), InOrder(list), NEW e \in EventRecords,
         NEW g \in Nat, NEW d \in Nat, NEW s, NEW t \in Nat, NEW f \in Nat, NEW p, NEW cs,
         e.kind = "app", p = "event" \/ e.ts >= f,
         Come(g, d, t) \/ Busy(g, d, s, list, cs) \/ Quiet(g, d, s, list, f, p)
  PROVE  \/ Come(g, d, t) \/ Busy(g, d, s, Insert(list, e), cs)
         \/ Quiet(g, d, s, Insert(list, e), f, p)
<1>1. e.ts \in Nat
  BY DEF EventRecords
<1>2. ~ (e.kind \in {"complete", "null"} /\ e.to = s)
  OBVIOUS
<1>3. CASE Busy(g, d, s, list, cs)
  BY <1>2, <1>3, BusyInsert
<1>4. CASE Quiet(g, d, s, list, f, p)
  <2>1. g <= e.ts + d
    BY <1>1, <1>4 DEF Quiet
  <2> QED
    <3>1. ASSUME NEW i \in DOMAIN Insert(list, e), ~ IsNull(Insert(list, e)[i], s)
          PROVE  g <= Insert(list, e)[i].ts + d
      <4>1. Insert(list, e)[i] = e \/ \E j \in DOMAIN list : Insert(list, e)[i] = list[j]
        BY InsertElements, ZenonT(30)
      <4> QED
        BY <1>4, <2>1, <3>1, <4>1, ZenonT(30) DEF Quiet
    <3> QED
      BY <1>4, <3>1 DEF Quiet
<1> QED
  BY <1>3, <1>4


\* A promise is a time.
LEMMA PromiseNat ==
  ASSUME Shape, NEW r \in Ranks, NEW s \in Ranks
  PROVE  Promise(r, s) \in Nat
<1>1. net[r][s] \in Seq(Messages) /\ guarantee[s][r] \in Nat
  BY DEF Shape
<1>2. \A i \in 1 .. Len(net[r][s]) : net[r][s][i].g \in Nat
  <2>1. \A i \in 1 .. Len(net[r][s]) : net[r][s][i] \in Messages
    BY <1>1
  <2> QED
    BY <2>1 DEF Messages
<1>3. Len(net[r][s]) \in Nat
  BY <1>1
<1> QED
  BY <1>1, <1>2, <1>3 DEF Promise, LastOf, GuaranteeAt

-----------------------------------------------------------------------------
(* The steps *)

\* The program is the same all the time.
LEMMA SameProgram ==
  ASSUME program' = program
  PROVE  /\ delay' = delay /\ StopTime' = StopTime
         /\ \A x : Neighbours(x)' = Neighbours(x)
         /\ \A x : Pause(x)' = Pause(x)
BY DEF delay, channels, StopTime, Neighbours, Pause

\* A rank that may process an event has one, and it is safe.
LEMMA MayProcessFacts ==
  ASSUME IInv, NEW r \in Ranks, MayProcess(r)
  PROVE  /\ events[r] \in Seq(EventRecords) /\ events[r] # <<>>
         /\ InOrder(events[r]) /\ Good(events[r], now[r], StopTime) /\ HoldsStop(events[r])
         /\ 1 \in DOMAIN events[r] /\ events[r][1] \in EventRecords
         /\ events[r][1].ts \in Nat /\ events[r][1].ts >= now[r]
         /\ events[r][1].ts <= safe[r] /\ events[r][1].ts <= StopTime
         /\ Tail(events[r]) \in Seq(EventRecords) /\ ~ stop[r] /\ pc[r] = "loop"
<1>1. events[r] \in Seq(EventRecords) /\ now[r] \in Nat /\ StopTime \in Nat
  BY ProgramFacts DEF IInv, Shape
<1>2. ~ stop[r] /\ events[r][1].ts <= safe[r] /\ pc[r] = "loop"
  BY DEF MayProcess
<1>3. Good(events[r], now[r], StopTime) /\ HoldsStop(events[r])
  BY <1>2 DEF IInv, Lists
<1>4. InOrder(events[r]) /\ events[r] # <<>>
  BY <1>1, <1>3 DEF Good, HoldsStop
<1>5. /\ events[r][1].ts >= now[r] /\ events[r][1].ts <= StopTime
      /\ 1 \in DOMAIN events[r] /\ Tail(events[r]) \in Seq(EventRecords)
  BY <1>1, <1>3, <1>4, TailGood, TailElements
<1>6. events[r][1] \in EventRecords /\ events[r][1].ts \in Nat
  BY <1>1, <1>5, ElementsTyped
<1> QED
  BY <1>1, <1>2, <1>3, <1>4, <1>5, <1>6

\* Executing an event that is not a null message.
LEMMA ExecuteStep ==
  ASSUME IInv, NEW r \in Ranks, MayProcess(r), events[r][1].kind # "null",
         now' = [now EXCEPT ![r] = events[r][1].ts],
         events' = [events EXCEPT ![r] = Tail(@)],
         NEW p \in {"event", "poll"}, pc' = [pc EXCEPT ![r] = p],
         stop' = [stop EXCEPT ![r] = (events[r][1].kind = "stop")],
         busy' \subseteq busy,
         \A r0, s0 \in Ranks :
           Using(r0, s0)' = Using(r0, s0)
             \/ (r0 = r /\ events[r][1].kind = "complete" /\ events[r][1].to = s0),
         UNCHANGED <<program, safe, guarantee, net>>
  PROVE  IInv'
<1> DEFINE list == events[r]
           e == events[r][1]
<1>1. /\ list \in Seq(EventRecords) /\ list # <<>>
      /\ InOrder(list) /\ Good(list, now[r], StopTime) /\ HoldsStop(list)
      /\ 1 \in DOMAIN list /\ e \in EventRecords /\ e.ts \in Nat /\ e.ts >= now[r]
      /\ e.ts <= safe[r] /\ e.ts <= StopTime /\ Tail(list) \in Seq(EventRecords)
      /\ ~ stop[r] /\ pc[r] = "loop"
  BY MayProcessFacts
<1>2. Shape /\ Lists /\ Ends /\ NullsDue /\ SafeSound /\ OnlyNeighbours /\ Chains /\ PromisesHold
  BY DEF IInv
<1>3. /\ delay' = delay /\ StopTime' = StopTime
      /\ \A x : Neighbours(x)' = Neighbours(x)
      /\ \A x : Pause(x)' = Pause(x)
  BY SameProgram
<1>4. /\ StopTime \in Nat
      /\ \A x \in Ranks : \A y \in Neighbours(x) :
           y \in Ranks /\ delay[{x, y}] \in Nat /\ Pause(delay[{x, y}]) \in Nat
  BY <1>2, ProgramFacts
<1>5. /\ now \in [Ranks -> Nat] /\ events \in [Ranks -> Seq(EventRecords)]
      /\ pc \in [Ranks -> {"loop", "event", "poll", "done"}] /\ stop \in [Ranks -> BOOLEAN]
      /\ safe \in [Ranks -> Nat]
  BY <1>2 DEF Shape
<1>6. /\ now'[r] = e.ts /\ events'[r] = Tail(list) /\ pc'[r] = p
      /\ stop'[r] = (e.kind = "stop")
  BY <1>5
<1>7. \A x \in Ranks : x # r =>
        now'[x] = now[x] /\ events'[x] = events[x] /\ pc'[x] = pc[x] /\ stop'[x] = stop[x]
  BY <1>5
<1> HIDE DEF list, e
<1>8. Shape'
  <2>1. now' \in [Ranks -> Nat] /\ events' \in [Ranks -> Seq(EventRecords)]
    BY <1>1, <1>5 DEF list, e
  <2>2. pc' \in [Ranks -> {"loop", "event", "poll", "done"}] /\ stop' \in [Ranks -> BOOLEAN]
    BY <1>5
  <2> QED
    BY <1>2, <2>1, <2>2 DEF Shape
<1>9. Lists'
  <2> SUFFICES ASSUME NEW x \in Ranks
               PROVE  Good(events'[x], now'[x], StopTime) /\ (~ stop'[x] => HoldsStop(events'[x]))
    BY <1>3 DEF Lists
  <2>1. CASE x = r
    <3>1. /\ Good(Tail(list), list[1].ts, StopTime)
          /\ HoldsStop(list) /\ list[1].kind # "stop" => HoldsStop(Tail(list))
      BY <1>1, <1>4, <1>5, TailGood
    <3> QED
      BY <1>1, <1>6, <2>1, <3>1 DEF list, e
  <2>2. CASE x # r
    BY <1>2, <1>7, <2>2 DEF Lists
  <2> QED
    BY <2>1, <2>2
<1>10. Ends'
  <2> SUFFICES ASSUME NEW x \in Ranks
               PROVE  /\ now'[x] <= StopTime
                      /\ stop'[x] /\ ~ HoldsStop(events'[x]) => now'[x] = StopTime
                      /\ pc'[x] = "done" /\ ~ stop'[x] =>
                           /\ Neighbours(x) = {}
                           /\ \A i \in DOMAIN events'[x] : events'[x][i].ts >= StopTime
    BY <1>3 DEF Ends
  <2>1. CASE x = r
    <3>1. e.kind = "stop" => e.ts = StopTime
      BY <1>1 DEF Good, list, e
    <3> QED
      BY <1>1, <1>6, <2>1, <3>1
  <2>2. CASE x # r
    BY <1>2, <1>7, <2>2 DEF Ends
  <2> QED
    BY <2>1, <2>2
<1>11. NullsDue'
  <2>0. ASSUME NEW x \in Ranks PROVE NullsFor(events'[x], Neighbours(x))
    <3>1. NullsFor(events[x], Neighbours(x))
      BY <1>2 DEF NullsDue
    <3>2. CASE x = r
      BY <1>1, <1>6, <3>1, <3>2, TailElements DEF NullsFor, list
    <3>3. CASE x # r
      BY <1>7, <3>1, <3>3
    <3> QED
      BY <3>2, <3>3
  <2> SUFFICES ASSUME NEW x \in Ranks, NEW y \in Neighbours(x)
               PROVE  /\ OneNull(events'[x], y)
                      /\ NullBy(events'[x], y, now'[x] + Pause(delay[{x, y}]))
    BY <1>3, <2>0 DEF NullsDue
  <2>1. OneNull(events[x], y) /\ NullBy(events[x], y, now[x] + Pause(delay[{x, y}]))
    BY <1>2 DEF NullsDue
  <2>2. CASE x = r
    <3>1. OneNull(Tail(list), y)
      BY <1>1, <2>1, <2>2, TailOther DEF list, e, IsNull
    <3>2. NullBy(Tail(list), y, e.ts + Pause(delay[{x, y}]))
      <4> SUFFICES ASSUME NEW i \in DOMAIN Tail(list), IsNull(Tail(list)[i], y)
                   PROVE  Tail(list)[i].ts <= e.ts + Pause(delay[{x, y}])
        BY DEF NullBy
      <4>1. i + 1 \in DOMAIN list /\ Tail(list)[i] = list[i + 1]
        BY <1>1, TailElements
      <4>2. list[i + 1].ts <= now[r] + Pause(delay[{x, y}]) /\ list[i + 1].ts \in Nat
        BY <1>1, <2>1, <2>2, <4>1, ElementsTyped DEF NullBy, list
      <4>3. now[r] \in Nat /\ Pause(delay[{x, y}]) \in Nat
        BY <1>4, <1>5
      <4>4. \A t, n, k, z \in Nat : t <= n + k /\ z >= n => t <= z + k
        OBVIOUS
      <4>5. list[i + 1].ts <= e.ts + Pause(delay[{x, y}])
        BY <1>1, <4>2, <4>3, <4>4, Zenon
      <4> QED
        BY <4>1, <4>5
    <3> QED
      BY <1>6, <2>2, <3>1, <3>2
  <2>3. CASE x # r
    BY <1>7, <2>1, <2>3
  <2> QED
    BY <2>2, <2>3
<1>12. SafeSound'
  <2> SUFFICES ASSUME NEW x \in Ranks PROVE now'[x] <= safe[x]
    BY <1>2, <1>3 DEF SafeSound
  <2> QED
    BY <1>1, <1>2, <1>6, <1>7 DEF SafeSound
<1>13. OnlyNeighbours' /\ Chains'
  BY <1>2, <1>3 DEF OnlyNeighbours, Chains
<1>14. PromisesHold'
  <2> SUFFICES ASSUME NEW x \in Ranks, NEW y \in Neighbours(x)
               PROVE  \/ Come(Promise(x, y), delay[{x, y}], now'[x])
                      \/ Busy(Promise(x, y), delay[{x, y}], y, events'[x], Using(x, y)')
                      \/ Quiet(Promise(x, y), delay[{x, y}], y, events'[x], safe[x], pc'[x])
    BY <1>3 DEF PromisesHold, Keeps, Promise
  <2>1. \/ Come(Promise(x, y), delay[{x, y}], now[x])
        \/ Busy(Promise(x, y), delay[{x, y}], y, events[x], Using(x, y))
        \/ Quiet(Promise(x, y), delay[{x, y}], y, events[x], safe[x], pc[x])
    BY <1>2 DEF PromisesHold, Keeps
  <2>2. CASE x = r
    <3>1. Promise(x, y) \in Nat
      BY <1>2, <1>4, PromiseNat
    <3>2. ~ IsNull(list[1], y)
      BY DEF IsNull, list
    <3>3. Using(x, y)' = Using(x, y) \/ (list[1].kind = "complete" /\ list[1].to = y)
      BY <1>4, <2>2 DEF list
    <3>4. Come(Promise(x, y), delay[{x, y}], list[1].ts)
            \/ Busy(Promise(x, y), delay[{x, y}], y, Tail(list), Using(x, y)')
      BY <1>1, <1>4, <1>5, <2>1, <2>2, <3>1, <3>2, <3>3, KeepExecute DEF list, e
    <3> QED
      BY <1>6, <2>2, <3>4 DEF list, e
  <2>3. CASE x # r
    BY <1>4, <1>7, <2>1, <2>3
  <2> QED
    BY <2>2, <2>3
<1> QED
  BY <1>8, <1>9, <1>10, <1>11, <1>12, <1>13, <1>14 DEF IInv


LEMMA InvokeEventStep ==
  ASSUME IInv, NEW r \in Ranks, InvokeEvent(r)
  PROVE  IInv'
<1>1. /\ MayProcess(r) /\ events[r][1].kind \in {"app", "complete"}
      /\ now' = [now EXCEPT ![r] = events[r][1].ts]
      /\ events' = [events EXCEPT ![r] = Tail(@)]
      /\ pc' = [pc EXCEPT ![r] = "event"]
      /\ UNCHANGED <<program, safe, guarantee, stop, net>>
  BY DEF InvokeEvent, ProcessOneEvent
<1>2. busy' = IF events[r][1].kind = "app" THEN busy
              ELSE busy \ {<<r, events[r][1].to, events[r][1].ch>>}
  BY DEF InvokeEvent
<1>3. stop \in [Ranks -> BOOLEAN] /\ ~ stop[r]
  BY <1>1 DEF IInv, Shape, MayProcess
<1>4. stop' = [stop EXCEPT ![r] = (events[r][1].kind = "stop")]
  BY <1>1, <1>3
<1>5. busy' \subseteq busy
  BY <1>2
<1>6. \A r0, s0 \in Ranks :
        Using(r0, s0)' = Using(r0, s0)
          \/ (r0 = r /\ events[r][1].kind = "complete" /\ events[r][1].to = s0)
  BY <1>1, <1>2 DEF Using
<1> QED
  BY <1>1, <1>4, <1>5, <1>6, ExecuteStep

LEMMA InvokeCancelledStep ==
  ASSUME IInv, NEW r \in Ranks, InvokeCancelled(r)
  PROVE  IInv'
<1>1. /\ MayProcess(r) /\ events[r][1].kind = "cancelled"
      /\ now' = [now EXCEPT ![r] = events[r][1].ts]
      /\ events' = [events EXCEPT ![r] = Tail(@)]
      /\ pc' = [pc EXCEPT ![r] = "poll"]
      /\ UNCHANGED <<program, safe, guarantee, stop, net, busy>>
  BY DEF InvokeCancelled, ProcessOneEvent
<1>2. stop \in [Ranks -> BOOLEAN] /\ ~ stop[r]
  BY <1>1 DEF IInv, Shape, MayProcess
<1>3. stop' = [stop EXCEPT ![r] = (events[r][1].kind = "stop")]
  BY <1>1, <1>2
<1>4. \A r0, s0 \in Ranks : Using(r0, s0)' = Using(r0, s0)
  BY <1>1 DEF Using
<1> QED
  BY <1>1, <1>3, <1>4, ExecuteStep

LEMMA StopStep ==
  ASSUME IInv, NEW r \in Ranks, Stop(r)
  PROVE  IInv'
<1>1. /\ MayProcess(r) /\ events[r][1].kind = "stop"
      /\ now' = [now EXCEPT ![r] = events[r][1].ts]
      /\ events' = [events EXCEPT ![r] = Tail(@)]
      /\ pc' = [pc EXCEPT ![r] = "poll"]
      /\ stop' = [stop EXCEPT ![r] = TRUE]
      /\ UNCHANGED <<program, safe, guarantee, net, busy>>
  BY DEF Stop, ProcessOneEvent
<1>2. stop' = [stop EXCEPT ![r] = (events[r][1].kind = "stop")]
  BY <1>1
<1>3. \A r0, s0 \in Ranks : Using(r0, s0)' = Using(r0, s0)
  BY <1>1 DEF Using
<1> QED
  BY <1>1, <1>2, <1>3, ExecuteStep

\* An event of the program calls Stop.
LEMMA StopNowStep ==
  ASSUME IInv, NEW r \in Ranks, StopNow(r)
  PROVE  IInv'
<1>1. /\ pc[r] = "event" /\ stop' = [stop EXCEPT ![r] = TRUE]
      /\ UNCHANGED <<program, events, now, safe, guarantee, busy, net, pc>>
  BY DEF StopNow
<1>2. Shape /\ Lists /\ Ends /\ NullsDue /\ SafeSound /\ OnlyNeighbours /\ Chains /\ PromisesHold
  BY DEF IInv
<1>3. /\ delay' = delay /\ StopTime' = StopTime
      /\ \A x : Neighbours(x)' = Neighbours(x)
      /\ \A x : Pause(x)' = Pause(x)
  BY <1>1, SameProgram
<1>4. stop' \in [Ranks -> BOOLEAN] /\ \A x \in Ranks : ~ stop'[x] => ~ stop[x]
  BY <1>1, <1>2 DEF Shape
<1>5. \A x \in Ranks : x # r => stop'[x] = stop[x]
  BY <1>1, <1>2 DEF Shape
<1>6. Shape'
  BY <1>1, <1>2, <1>4 DEF Shape
<1>7. Lists'
  BY <1>1, <1>2, <1>3, <1>4 DEF Lists
<1>8. Ends'
  <2> SUFFICES ASSUME NEW x \in Ranks
               PROVE  /\ now[x] <= StopTime
                      /\ stop'[x] /\ ~ HoldsStop(events[x]) => now[x] = StopTime
                      /\ pc[x] = "done" /\ ~ stop'[x] =>
                           /\ Neighbours(x) = {}
                           /\ \A i \in DOMAIN events[x] : events[x][i].ts >= StopTime
    BY <1>1, <1>3 DEF Ends
  <2>1. ~ HoldsStop(events[x]) => stop[x]
    BY <1>2 DEF Lists
  <2> QED
    BY <1>2, <1>4, <2>1 DEF Ends
<1>9. NullsDue' /\ SafeSound' /\ OnlyNeighbours' /\ Chains'
  BY <1>1, <1>2, <1>3 DEF NullsDue, SafeSound, OnlyNeighbours, Chains
<1>10. PromisesHold'
  BY <1>1, <1>2, <1>3 DEF PromisesHold, Keeps, Promise, Using
<1> QED
  BY <1>6, <1>7, <1>8, <1>9, <1>10 DEF IInv

\* Steps that only move the safe time forward, within what is guaranteed, and
\* the control: EventReturns, CalculateSafeTime, ReceiveFromNobody, RunReturns.
LEMMA ControlStep ==
  ASSUME IInv, NEW r \in Ranks, NEW f \in Nat, NEW p \in {"loop", "poll", "done"},
         safe' = [safe EXCEPT ![r] = f], f >= safe[r],
         \A s \in Neighbours(r) : f <= guarantee[r][s],
         Neighbours(r) = {} => f <= StopTime,
         pc' = [pc EXCEPT ![r] = p], p = "done" => stop[r],
         UNCHANGED <<program, events, now, guarantee, stop, busy, net>>
  PROVE  IInv'
<1>1. Shape /\ Lists /\ Ends /\ NullsDue /\ SafeSound /\ OnlyNeighbours /\ Chains /\ PromisesHold
  BY DEF IInv
<1>2. /\ delay' = delay /\ StopTime' = StopTime
      /\ \A x : Neighbours(x)' = Neighbours(x)
      /\ \A x : Pause(x)' = Pause(x)
  BY SameProgram
<1>3. /\ pc \in [Ranks -> {"loop", "event", "poll", "done"}] /\ safe \in [Ranks -> Nat]
      /\ now \in [Ranks -> Nat]
  BY <1>1 DEF Shape
<1>4. safe'[r] = f /\ pc'[r] = p /\ \A x \in Ranks : x # r => safe'[x] = safe[x] /\ pc'[x] = pc[x]
  BY <1>3
<1>5. Shape'
  <2>1. pc' \in [Ranks -> {"loop", "event", "poll", "done"}] /\ safe' \in [Ranks -> Nat]
    BY <1>3
  <2> QED
    BY <1>1, <2>1 DEF Shape
<1>6. Lists' /\ NullsDue' /\ OnlyNeighbours' /\ Chains'
  BY <1>1, <1>2 DEF Lists, NullsDue, OnlyNeighbours, Chains
<1>7. Ends'
  <2> SUFFICES ASSUME NEW x \in Ranks, pc'[x] = "done", ~ stop[x] PROVE pc[x] = "done"
    BY <1>1, <1>2 DEF Ends
  <2> QED
    BY <1>4
<1>8. SafeSound'
  <2> SUFFICES ASSUME NEW x \in Ranks
               PROVE  /\ now[x] <= safe'[x]
                      /\ \A s \in Neighbours(x) : safe'[x] <= guarantee[x][s]
                      /\ Neighbours(x) = {} => safe'[x] <= StopTime
    BY <1>2 DEF SafeSound
  <2>1. now[x] <= safe[x]
    BY <1>1 DEF SafeSound
  <2>2. CASE x = r
    BY <1>3, <1>4, <2>1, <2>2
  <2>3. CASE x # r
    BY <1>1, <1>4, <2>3 DEF SafeSound
  <2> QED
    BY <2>2, <2>3
<1>9. PromisesHold'
  <2> SUFFICES ASSUME NEW x \in Ranks, NEW y \in Neighbours(x)
               PROVE  \/ Come(Promise(x, y), delay[{x, y}], now[x])
                      \/ Busy(Promise(x, y), delay[{x, y}], y, events[x], Using(x, y))
                      \/ Quiet(Promise(x, y), delay[{x, y}], y, events[x], safe'[x], pc'[x])
    BY <1>2 DEF PromisesHold, Keeps, Promise, Using
  <2>1. \/ Come(Promise(x, y), delay[{x, y}], now[x])
        \/ Busy(Promise(x, y), delay[{x, y}], y, events[x], Using(x, y))
        \/ Quiet(Promise(x, y), delay[{x, y}], y, events[x], safe[x], pc[x])
    BY <1>1 DEF PromisesHold, Keeps
  <2>2. ASSUME x = r, Quiet(Promise(x, y), delay[{x, y}], y, events[x], safe[x], pc[x])
        PROVE  Quiet(Promise(x, y), delay[{x, y}], y, events[x], safe'[x], pc'[x])
    <3>1. Promise(x, y) \in Nat /\ delay[{x, y}] \in Nat
      BY <1>1, ProgramFacts, PromiseNat
    <3>2. Promise(x, y) <= safe[x] + delay[{x, y}] /\ safe[x] <= safe'[x]
          /\ safe[x] \in Nat /\ safe'[x] \in Nat
      BY <1>3, <1>4, <2>2 DEF Quiet
    <3>3. Promise(x, y) <= safe'[x] + delay[{x, y}]
      BY <3>1, <3>2
    <3> QED
      BY <1>4, <2>2, <3>3 DEF Quiet
  <2>3. CASE x = r
    BY <2>1, <2>2, <2>3
  <2>4. CASE x # r
    BY <1>4, <2>1, <2>4
  <2> QED
    BY <2>3, <2>4
<1> QED
  BY <1>5, <1>6, <1>7, <1>8, <1>9 DEF IInv

LEMMA EventReturnsStep ==
  ASSUME IInv, NEW r \in Ranks, EventReturns(r) \/ RunReturns(r)
  PROVE  IInv'
<1>1. /\ safe \in [Ranks -> Nat] /\ (\A s \in Neighbours(r) : safe[r] <= guarantee[r][s])
      /\ Neighbours(r) = {} => safe[r] <= StopTime
  BY DEF IInv, Shape, SafeSound
<1>2. safe' = [safe EXCEPT ![r] = safe[r]] /\ safe[r] >= safe[r] /\ safe[r] \in Nat
  BY <1>1 DEF EventReturns, RunReturns
<1>3. CASE EventReturns(r)
  <2>1. pc' = [pc EXCEPT ![r] = "poll"] /\ UNCHANGED <<program, events, now, guarantee, stop, busy, net>>
    BY <1>3 DEF EventReturns
  <2> QED
    BY <1>1, <1>2, <2>1, ControlStep
<1>4. CASE RunReturns(r)
  <2>1. pc' = [pc EXCEPT ![r] = "done"] /\ stop[r]
        /\ UNCHANGED <<program, events, now, guarantee, stop, busy, net>>
    BY <1>4 DEF RunReturns
  <2> QED
    BY <1>1, <1>2, <2>1, ControlStep
<1> QED
  BY <1>3, <1>4

\* The safe time never falls.
LEMMA SafeTimeGrows ==
  ASSUME IInv, NEW r \in Ranks, NEW g \in [Ranks -> Nat],
         \A s \in Neighbours(r) : guarantee[r][s] <= g[s]
  PROVE  /\ SafeTime(r, g) \in Nat /\ SafeTime(r, g) >= safe[r]
         /\ \A s \in Neighbours(r) : SafeTime(r, g) <= g[s]
         /\ Neighbours(r) = {} => SafeTime(r, g) <= StopTime
<1>1. Shape /\ SafeSound
  BY DEF IInv
<1>2. /\ SafeTime(r, g) \in Nat /\ \A s \in Neighbours(r) : SafeTime(r, g) <= g[s]
      /\ Neighbours(r) = {} => SafeTime(r, g) = StopTime
      /\ \A a \in Nat : Neighbours(r) # {} /\ (\A s \in Neighbours(r) : a <= g[s])
                          => a <= SafeTime(r, g)
  BY <1>1, SafeTimeFacts
<1>3. StopTime \in Nat /\ safe[r] \in Nat /\ Neighbours(r) \subseteq Ranks
  BY <1>1, ProgramFacts DEF Shape, Neighbours
<1>4. CASE Neighbours(r) = {}
  BY <1>1, <1>2, <1>3, <1>4 DEF SafeSound
<1>5. CASE Neighbours(r) # {}
  <2>1. ASSUME NEW s \in Neighbours(r) PROVE safe[r] <= g[s]
    <3>1. guarantee[r][s] \in Nat /\ g[s] \in Nat /\ safe[r] <= guarantee[r][s]
      BY <1>1, <1>3 DEF Shape, SafeSound
    <3> QED
      BY <1>3, <3>1
  <2> QED
    BY <1>2, <1>3, <1>5, <2>1
<1> QED
  BY <1>4, <1>5

LEMMA CalculateSafeTimeStep ==
  ASSUME IInv, NEW r \in Ranks, CalculateSafeTime(r) \/ ReceiveFromNobody(r)
  PROVE  IInv'
<1>1. guarantee[r] \in [Ranks -> Nat] /\ Neighbours(r) \subseteq Ranks
      /\ pc \in [Ranks -> {"loop", "event", "poll", "done"}]
  BY DEF IInv, Shape, Neighbours
<1>2. \A s \in Neighbours(r) : guarantee[r][s] <= guarantee[r][s]
  BY <1>1
<1>3. /\ SafeTime(r, guarantee[r]) \in Nat /\ SafeTime(r, guarantee[r]) >= safe[r]
      /\ \A s \in Neighbours(r) : SafeTime(r, guarantee[r]) <= guarantee[r][s]
      /\ Neighbours(r) = {} => SafeTime(r, guarantee[r]) <= StopTime
  BY <1>1, <1>2, SafeTimeGrows
<1>4. /\ safe' = [safe EXCEPT ![r] = SafeTime(r, guarantee[r])]
      /\ pc' = [pc EXCEPT ![r] = "loop"]
      /\ UNCHANGED <<program, events, now, guarantee, stop, busy, net>>
  BY <1>1 DEF CalculateSafeTime, ReceiveFromNobody
<1> QED
  BY <1>3, <1>4, ControlStep


\* A guarantee that arrives is no earlier than the one it replaces.
LEMMA ReceivedGuarantees ==
  ASSUME IInv, NEW r \in Ranks, NEW s \in Ranks, Received(r, s)
  PROVE  /\ guarantee' \in [Ranks -> [Ranks -> Nat]]
         /\ \A y \in Neighbours(r) : guarantee[r][y] <= guarantee'[r][y]
<1>1. /\ guarantee \in [Ranks -> [Ranks -> Nat]] /\ net[s][r] \in Seq(Messages)
      /\ Chain(net[s][r], guarantee[r][s]) /\ Neighbours(r) \subseteq Ranks
  BY DEF IInv, Shape, Chains, Neighbours
<1>2. net[s][r] # <<>> /\ guarantee' = [guarantee EXCEPT ![r][s] = Head(net[s][r]).g]
  BY DEF Received
<1>3. Head(net[s][r]).g \in Nat /\ Head(net[s][r]).g >= guarantee[r][s]
  BY <1>1, <1>2, ChainTail
<1>4. guarantee' \in [Ranks -> [Ranks -> Nat]]
  BY <1>1, <1>2, <1>3
<1>5. ASSUME NEW y \in Neighbours(r) PROVE guarantee[r][y] <= guarantee'[r][y]
  <2>1. y \in Ranks /\ guarantee[r][y] \in Nat
    BY <1>1
  <2>2. guarantee'[r][y] = IF y = s THEN Head(net[s][r]).g ELSE guarantee[r][y]
    BY <1>1, <1>2, <2>1
  <2> QED
    BY <1>3, <2>1, <2>2
<1> QED
  BY <1>4, <1>5

\* A message received: what it brings is no earlier than the safe time, and its
\* guarantee no earlier than the one before.
LEMMA ReceiveStep ==
  ASSUME IInv, NEW r \in Ranks, NEW s \in Ranks, Received(r, s), pc[r] \in {"loop", "poll"},
         NEW f \in Nat, safe' = [safe EXCEPT ![r] = f], f >= safe[r],
         \A y \in Neighbours(r) : f <= guarantee'[r][y],
         UNCHANGED <<program, now, stop, busy, pc>>
  PROVE  IInv'
<1> DEFINE m == Head(net[s][r])
           list == events[r]
           e == App(r, m.ts)
<1>1. /\ net[s][r] # <<>> /\ net' = [net EXCEPT ![s][r] = Tail(@)]
      /\ guarantee' = [guarantee EXCEPT ![r][s] = m.g]
      /\ events' = IF m.ts = 0 THEN events ELSE [events EXCEPT ![r] = Insert(@, e)]
  BY DEF Received
<1>2. Shape /\ Lists /\ Ends /\ NullsDue /\ SafeSound /\ OnlyNeighbours /\ Chains /\ PromisesHold
  BY DEF IInv
<1>3. /\ delay' = delay /\ StopTime' = StopTime
      /\ \A x : Neighbours(x)' = Neighbours(x)
      /\ \A x : Pause(x)' = Pause(x)
  BY SameProgram
<1>4. /\ StopTime \in Nat
      /\ \A x \in Ranks : \A y \in Neighbours(x) :
           /\ y \in Ranks /\ x \in Neighbours(y)
           /\ delay[{x, y}] \in Nat /\ Pause(delay[{x, y}]) \in Nat
  BY <1>2, ProgramFacts
<1>5. /\ now \in [Ranks -> Nat] /\ events \in [Ranks -> Seq(EventRecords)]
      /\ safe \in [Ranks -> Nat] /\ guarantee \in [Ranks -> [Ranks -> Nat]]
      /\ net \in [Ranks -> [Ranks -> Seq(Messages)]]
  BY <1>2 DEF Shape
<1>6. /\ net[s][r] \in Seq(Messages) /\ guarantee[r][s] \in Nat /\ Chain(net[s][r], guarantee[r][s])
      /\ list \in Seq(EventRecords) /\ Good(list, now[r], StopTime) /\ InOrder(list)
      /\ now[r] \in Nat /\ safe[r] \in Nat
  BY <1>2, <1>5 DEF Chains, Lists, Good
<1>7. /\ Tail(net[s][r]) \in Seq(Messages) /\ m \in Messages /\ m.g \in Nat /\ m.ts \in Nat
      /\ m.g >= guarantee[r][s] /\ (m.ts # 0 => m.ts >= guarantee[r][s])
      /\ Chain(Tail(net[s][r]), m.g)
      /\ LastOf(Tail(net[s][r]), m.g) = LastOf(net[s][r], guarantee[r][s])
  BY <1>1, <1>6, ChainTail
<1> HIDE DEF m
<1>8. s \in Neighbours(r)
  BY <1>1, <1>2, <1>4 DEF OnlyNeighbours
<1>9. now[r] <= safe[r] /\ safe[r] <= guarantee[r][s]
  BY <1>2, <1>8 DEF SafeSound
<1>10. e \in EventRecords /\ e.kind = "app" /\ e.ts = m.ts /\ ~ \E y : IsNull(e, y)
  BY <1>7 DEF App, Event, EventRecords, Kinds, IsNull
<1>11. m.ts # 0 => e.ts >= safe[r] /\ e.ts >= now[r]
  BY <1>6, <1>7, <1>9, <1>10
<1>12. /\ events'[r] = IF m.ts = 0 THEN list ELSE Insert(list, e)
       /\ \A x \in Ranks : x # r => events'[x] = events[x]
  BY <1>1, <1>5
<1> HIDE DEF e
<1>13. safe'[r] = f /\ \A x \in Ranks : x # r => safe'[x] = safe[x]
  BY <1>5
<1>14. /\ guarantee'[r][s] = m.g
       /\ \A x, y \in Ranks : ~ (x = r /\ y = s) => guarantee'[x][y] = guarantee[x][y]
  BY <1>1, <1>5
<1>15. /\ net'[s][r] = Tail(net[s][r])
       /\ \A x, y \in Ranks : ~ (x = s /\ y = r) => net'[x][y] = net[x][y]
  BY <1>1, <1>5
<1>16. /\ InOrder(Insert(list, e)) /\ Insert(list, e) \in Seq(EventRecords)
       /\ \A i \in DOMAIN Insert(list, e) :
            Insert(list, e)[i] = e \/ \E j \in DOMAIN list : Insert(list, e)[i] = list[j]
  BY <1>6, <1>10, InsertElements
<1> HIDE DEF list
<1>17. events'[r] \in Seq(EventRecords)
  BY <1>6, <1>12, <1>16
<1>18. Shape'
  <2>1. events' \in [Ranks -> Seq(EventRecords)]
    <3>1. CASE m.ts = 0
      BY <1>1, <1>5, <3>1
    <3>2. CASE m.ts # 0
      BY <1>1, <1>5, <1>16, <3>2 DEF list
    <3> QED
      BY <3>1, <3>2
  <2>2. safe' \in [Ranks -> Nat]
    BY <1>5
  <2>3. guarantee' \in [Ranks -> [Ranks -> Nat]]
    BY <1>1, <1>5, <1>7
  <2>4. net' \in [Ranks -> [Ranks -> Seq(Messages)]]
    BY <1>1, <1>5, <1>7
  <2> QED
    BY <1>2, <2>1, <2>2, <2>3, <2>4 DEF Shape
<1>a. ASSUME NEW x \in Ranks
      PROVE  /\ Good(events'[x], now[x], StopTime)
             /\ HoldsStop(events[x]) => HoldsStop(events'[x])
  <2>1. Good(events[x], now[x], StopTime)
    BY <1>2 DEF Lists
  <2>2. CASE x = r /\ m.ts # 0
    <3>1. Good(Insert(list, e), now[r], StopTime) /\ (HoldsStop(list) => HoldsStop(Insert(list, e)))
      BY <1>4, <1>6, <1>10, <1>11, <2>2, InsertGood
    <3> QED
      BY <1>12, <2>1, <2>2, <3>1 DEF list
  <2>3. CASE x # r \/ m.ts = 0
    BY <1>12, <2>1, <2>3 DEF list
  <2> QED
    BY <2>2, <2>3
<1>19. Lists'
  BY <1>2, <1>3, <1>a DEF Lists
<1>20. Ends'
  <2> SUFFICES ASSUME NEW x \in Ranks, pc[x] = "done", ~ stop[x]
               PROVE  \A i \in DOMAIN events'[x] : events'[x][i].ts >= StopTime
    BY <1>2, <1>3, <1>a DEF Ends
  <2>1. x # r
    OBVIOUS
  <2> QED
    BY <1>2, <1>12, <2>1 DEF Ends
<1>21. NullsDue'
  <2>1. ASSUME NEW x \in Ranks PROVE NullsFor(events'[x], Neighbours(x))
    <3>1. NullsFor(events[x], Neighbours(x))
      BY <1>2 DEF NullsDue
    <3>2. CASE x = r /\ m.ts # 0
      BY <1>10, <1>12, <1>16, <3>1, <3>2 DEF NullsFor, list
    <3>3. CASE x # r \/ m.ts = 0
      BY <1>12, <3>1, <3>3 DEF list
    <3> QED
      BY <3>2, <3>3
  <2>2. ASSUME NEW x \in Ranks, NEW y \in Neighbours(x)
        PROVE  /\ OneNull(events'[x], y)
               /\ NullBy(events'[x], y, now[x] + Pause(delay[{x, y}]))
    <3>1. OneNull(events[x], y) /\ NullBy(events[x], y, now[x] + Pause(delay[{x, y}]))
      BY <1>2 DEF NullsDue
    <3>2. CASE x = r /\ m.ts # 0
      <4>1. OneNull(Insert(list, e), y)
        BY <1>6, <1>10, <3>1, <3>2, InsertOther DEF list
      <4>2. NullBy(Insert(list, e), y, now[x] + Pause(delay[{x, y}]))
        BY <1>10, <1>16, <3>1, <3>2 DEF NullBy, list
      <4> QED
        BY <1>12, <3>2, <4>1, <4>2
    <3>3. CASE x # r \/ m.ts = 0
      BY <1>12, <3>1, <3>3 DEF list
    <3> QED
      BY <3>2, <3>3
  <2> QED
    BY <1>3, <2>1, <2>2 DEF NullsDue
<1>22. SafeSound'
  <2> SUFFICES ASSUME NEW x \in Ranks
               PROVE  /\ now[x] <= safe'[x]
                      /\ \A y \in Neighbours(x) : safe'[x] <= guarantee'[x][y]
                      /\ Neighbours(x) = {} => safe'[x] <= StopTime
    BY <1>3 DEF SafeSound
  <2>1. CASE x = r
    BY <1>6, <1>8, <1>9, <1>13, <2>1
  <2>2. CASE x # r
    BY <1>2, <1>4, <1>13, <1>14, <2>2 DEF SafeSound
  <2> QED
    BY <2>1, <2>2
<1>23. OnlyNeighbours'
  <2> SUFFICES ASSUME NEW x \in Ranks, NEW y \in Ranks, net'[x][y] # <<>>
               PROVE  y \in Neighbours(x)
    BY <1>3 DEF OnlyNeighbours
  <2> QED
    BY <1>2, <1>4, <1>8, <1>15 DEF OnlyNeighbours
<1>24. Chains'
  <2> SUFFICES ASSUME NEW x \in Ranks, NEW y \in Ranks PROVE Chain(net'[x][y], guarantee'[y][x])
    BY DEF Chains
  <2> QED
    BY <1>2, <1>7, <1>14, <1>15 DEF Chains
<1>25. \A x, y \in Ranks : Promise(x, y)' = Promise(x, y)
  BY <1>7, <1>14, <1>15 DEF Promise
<1>26. PromisesHold'
  <2> SUFFICES ASSUME NEW x \in Ranks, NEW y \in Neighbours(x)
               PROVE  \/ Come(Promise(x, y), delay[{x, y}], now[x])
                      \/ Busy(Promise(x, y), delay[{x, y}], y, events'[x], Using(x, y))
                      \/ Quiet(Promise(x, y), delay[{x, y}], y, events'[x], safe'[x], pc[x])
    BY <1>3, <1>4, <1>25 DEF PromisesHold, Keeps, Using
  <2>1. \/ Come(Promise(x, y), delay[{x, y}], now[x])
        \/ Busy(Promise(x, y), delay[{x, y}], y, events[x], Using(x, y))
        \/ Quiet(Promise(x, y), delay[{x, y}], y, events[x], safe[x], pc[x])
    BY <1>2 DEF PromisesHold, Keeps
  <2>2. Promise(x, y) \in Nat /\ delay[{x, y}] \in Nat
    BY <1>2, <1>4, PromiseNat
  <2>3. CASE x = r
    <3>1. \/ Come(Promise(x, y), delay[{x, y}], now[x])
          \/ Busy(Promise(x, y), delay[{x, y}], y, events'[x], Using(x, y))
          \/ Quiet(Promise(x, y), delay[{x, y}], y, events'[x], safe[x], pc[x])
      <4>1. CASE m.ts = 0
        BY <1>12, <2>1, <2>3, <4>1 DEF list
      <4>2. CASE m.ts # 0
        <5>1. \/ Come(Promise(x, y), delay[{x, y}], now[r])
              \/ Busy(Promise(x, y), delay[{x, y}], y, list, Using(x, y))
              \/ Quiet(Promise(x, y), delay[{x, y}], y, list, safe[r], pc[r])
          BY <2>1, <2>3 DEF list
        <5>2. \/ Come(Promise(x, y), delay[{x, y}], now[r])
              \/ Busy(Promise(x, y), delay[{x, y}], y, Insert(list, e), Using(x, y))
              \/ Quiet(Promise(x, y), delay[{x, y}], y, Insert(list, e), safe[r], pc[r])
          BY <1>6, <1>10, <1>11, <2>2, <4>2, <5>1, KeepInsert
        <5> QED
          BY <1>12, <2>3, <4>2, <5>2
      <4> QED
        BY <4>1, <4>2
    <3>2. ASSUME Quiet(Promise(x, y), delay[{x, y}], y, events'[x], safe[x], pc[x])
          PROVE  Quiet(Promise(x, y), delay[{x, y}], y, events'[x], safe'[x], pc[x])
      <4>1. Promise(x, y) <= safe[x] + delay[{x, y}] /\ safe[x] <= safe'[x]
            /\ safe[x] \in Nat /\ safe'[x] \in Nat
        BY <1>6, <1>13, <2>3, <3>2 DEF Quiet
      <4>2. Promise(x, y) <= safe'[x] + delay[{x, y}]
        BY <2>2, <4>1
      <4> QED
        BY <3>2, <4>2 DEF Quiet
    <3> QED
      BY <3>1, <3>2
  <2>4. CASE x # r
    BY <1>12, <1>13, <2>1, <2>4
  <2> QED
    BY <2>3, <2>4
<1> QED
  BY <1>18, <1>19, <1>20, <1>21, <1>22, <1>23, <1>24, <1>26 DEF IInv

LEMMA ReceiveNonBlockingStep ==
  ASSUME IInv, NEW r \in Ranks, NEW s \in Ranks, ReceiveNonBlocking(r, s)
  PROVE  IInv'
<1>1. /\ pc[r] = "poll" /\ Received(r, s)
      /\ UNCHANGED <<program, now, safe, stop, busy, pc>>
  BY DEF ReceiveNonBlocking
<1>2. /\ guarantee' \in [Ranks -> [Ranks -> Nat]]
      /\ \A y \in Neighbours(r) : guarantee[r][y] <= guarantee'[r][y]
  BY <1>1, ReceivedGuarantees
<1>3. safe \in [Ranks -> Nat] /\ \A y \in Neighbours(r) : safe[r] <= guarantee[r][y]
  BY DEF IInv, Shape, SafeSound
<1>4. ASSUME NEW y \in Neighbours(r) PROVE safe[r] <= guarantee'[r][y]
  <2>1. y \in Ranks
    BY DEF Neighbours
  <2>2. guarantee[r][y] \in Nat /\ guarantee'[r][y] \in Nat
    BY <1>2, <2>1 DEF IInv, Shape
  <2> QED
    BY <1>2, <1>3, <2>2
<1>5. safe' = [safe EXCEPT ![r] = safe[r]] /\ safe[r] >= safe[r] /\ safe[r] \in Nat
  BY <1>1, <1>3
<1> QED
  BY <1>1, <1>4, <1>5, ReceiveStep

LEMMA ReceiveBlockingStep ==
  ASSUME IInv, NEW r \in Ranks, NEW s \in Ranks, ReceiveBlocking(r, s)
  PROVE  IInv'
<1>1. /\ pc[r] = "loop" /\ Received(r, s)
      /\ safe' = [safe EXCEPT ![r] = SafeTime(r, guarantee'[r])]
      /\ UNCHANGED <<program, now, stop, busy, pc>>
  BY DEF ReceiveBlocking
<1>2. /\ guarantee' \in [Ranks -> [Ranks -> Nat]]
      /\ \A y \in Neighbours(r) : guarantee[r][y] <= guarantee'[r][y]
  BY <1>1, ReceivedGuarantees
<1>3. /\ SafeTime(r, guarantee'[r]) \in Nat /\ SafeTime(r, guarantee'[r]) >= safe[r]
      /\ \A y \in Neighbours(r) : SafeTime(r, guarantee'[r]) <= guarantee'[r][y]
  BY <1>2, SafeTimeGrows
<1> QED
  BY <1>1, <1>3, ReceiveStep


\* What an event of the program schedules may come before a promised time, but
\* the device that could send it is busy until then.
LEMMA ScheduleStep ==
  ASSUME IInv, NEW r \in Ranks, NEW d \in Steps, Schedule(r, d)
  PROVE  IInv'
<1> DEFINE list == events[r]
           e == App(r, now[r] + d)
<1>1. /\ pc[r] = "event" /\ events' = [events EXCEPT ![r] = Insert(@, e)]
      /\ UNCHANGED <<program, now, safe, guarantee, stop, busy, net, pc>>
  BY DEF Schedule
<1>2. Shape /\ Lists /\ Ends /\ NullsDue /\ SafeSound /\ OnlyNeighbours /\ Chains /\ PromisesHold
  BY DEF IInv
<1>3. /\ delay' = delay /\ StopTime' = StopTime
      /\ \A x : Neighbours(x)' = Neighbours(x)
      /\ \A x : Pause(x)' = Pause(x)
  BY <1>1, SameProgram
<1>4. /\ StopTime \in Nat
      /\ \A x \in Ranks : \A y \in Neighbours(x) : y \in Ranks /\ delay[{x, y}] \in Nat
  BY <1>2, ProgramFacts
<1>5. events \in [Ranks -> Seq(EventRecords)] /\ now[r] \in Nat /\ safe[r] \in Nat /\ d \in Nat
  BY <1>2, TimesAssumption DEF Shape
<1>6. list \in Seq(EventRecords) /\ Good(list, now[r], StopTime) /\ InOrder(list)
  BY <1>2, <1>5 DEF Lists, Good
<1>7. e \in EventRecords /\ e.kind = "app" /\ e.ts >= now[r] /\ ~ \E y : IsNull(e, y)
  BY <1>5 DEF App, Event, EventRecords, Kinds, IsNull
<1>8. /\ events'[r] = Insert(list, e)
      /\ \A x \in Ranks : x # r => events'[x] = events[x]
  BY <1>1, <1>5
<1> HIDE DEF e, list
<1>9. /\ InOrder(Insert(list, e)) /\ Insert(list, e) \in Seq(EventRecords)
      /\ \A i \in DOMAIN Insert(list, e) :
           Insert(list, e)[i] = e \/ \E j \in DOMAIN list : Insert(list, e)[i] = list[j]
  BY <1>6, <1>7, InsertElements
<1>10. Shape'
  <2>1. events' \in [Ranks -> Seq(EventRecords)]
    BY <1>1, <1>5, <1>9 DEF list
  <2> QED
    BY <1>1, <1>2, <2>1 DEF Shape
<1>a. ASSUME NEW x \in Ranks
      PROVE  /\ Good(events'[x], now[x], StopTime)
             /\ HoldsStop(events[x]) => HoldsStop(events'[x])
  <2>1. Good(events[x], now[x], StopTime)
    BY <1>2 DEF Lists
  <2>2. CASE x = r
    <3>1. Good(Insert(list, e), now[r], StopTime) /\ (HoldsStop(list) => HoldsStop(Insert(list, e)))
      BY <1>4, <1>5, <1>6, <1>7, InsertGood
    <3> QED
      BY <1>8, <2>1, <2>2, <3>1 DEF list
  <2>3. CASE x # r
    BY <1>8, <2>1, <2>3
  <2> QED
    BY <2>2, <2>3
<1>11. Lists'
  BY <1>1, <1>2, <1>3, <1>a DEF Lists
<1>12. Ends'
  <2> SUFFICES ASSUME NEW x \in Ranks, pc[x] = "done", ~ stop[x]
               PROVE  \A i \in DOMAIN events'[x] : events'[x][i].ts >= StopTime
    BY <1>1, <1>2, <1>3, <1>a DEF Ends
  <2>1. x # r
    BY <1>1
  <2> QED
    BY <1>2, <1>8, <2>1 DEF Ends
<1>13. NullsDue'
  <2>1. ASSUME NEW x \in Ranks PROVE NullsFor(events'[x], Neighbours(x))
    <3>1. NullsFor(events[x], Neighbours(x))
      BY <1>2 DEF NullsDue
    <3>2. CASE x = r
      BY <1>7, <1>8, <1>9, <3>1, <3>2 DEF NullsFor, list
    <3>3. CASE x # r
      BY <1>8, <3>1, <3>3
    <3> QED
      BY <3>2, <3>3
  <2>2. ASSUME NEW x \in Ranks, NEW y \in Neighbours(x)
        PROVE  /\ OneNull(events'[x], y)
               /\ NullBy(events'[x], y, now[x] + Pause(delay[{x, y}]))
    <3>1. OneNull(events[x], y) /\ NullBy(events[x], y, now[x] + Pause(delay[{x, y}]))
      BY <1>2 DEF NullsDue
    <3>2. CASE x = r
      <4>1. OneNull(Insert(list, e), y)
        BY <1>6, <1>7, <3>1, <3>2, InsertOther DEF list
      <4>2. NullBy(Insert(list, e), y, now[x] + Pause(delay[{x, y}]))
        BY <1>7, <1>9, <3>1, <3>2 DEF NullBy, list
      <4> QED
        BY <1>8, <3>2, <4>1, <4>2
    <3>3. CASE x # r
      BY <1>8, <3>1, <3>3
    <3> QED
      BY <3>2, <3>3
  <2> QED
    BY <1>1, <1>3, <2>1, <2>2 DEF NullsDue
<1>14. SafeSound' /\ OnlyNeighbours' /\ Chains'
  BY <1>1, <1>2, <1>3 DEF SafeSound, OnlyNeighbours, Chains
<1>15. PromisesHold'
  <2> SUFFICES ASSUME NEW x \in Ranks, NEW y \in Neighbours(x)
               PROVE  \/ Come(Promise(x, y), delay[{x, y}], now[x])
                      \/ Busy(Promise(x, y), delay[{x, y}], y, events'[x], Using(x, y))
                      \/ Quiet(Promise(x, y), delay[{x, y}], y, events'[x], safe[x], pc[x])
    BY <1>1, <1>3 DEF PromisesHold, Keeps, Using, Promise
  <2>1. \/ Come(Promise(x, y), delay[{x, y}], now[x])
        \/ Busy(Promise(x, y), delay[{x, y}], y, events[x], Using(x, y))
        \/ Quiet(Promise(x, y), delay[{x, y}], y, events[x], safe[x], pc[x])
    BY <1>2 DEF PromisesHold, Keeps
  <2>2. Promise(x, y) \in Nat /\ delay[{x, y}] \in Nat
    BY <1>2, <1>4, PromiseNat
  <2>3. CASE x = r
    <3>1. \/ Come(Promise(x, y), delay[{x, y}], now[r])
          \/ Busy(Promise(x, y), delay[{x, y}], y, list, Using(x, y))
          \/ Quiet(Promise(x, y), delay[{x, y}], y, list, safe[r], pc[r])
      BY <2>1, <2>3 DEF list
    <3>2. \/ Come(Promise(x, y), delay[{x, y}], now[r])
          \/ Busy(Promise(x, y), delay[{x, y}], y, Insert(list, e), Using(x, y))
          \/ Quiet(Promise(x, y), delay[{x, y}], y, Insert(list, e), safe[r], pc[r])
      BY <1>1, <1>5, <1>6, <1>7, <2>2, <3>1, KeepInsert
    <3> QED
      BY <1>8, <2>3, <3>2
  <2>4. CASE x # r
    BY <1>8, <2>1, <2>4
  <2> QED
    BY <2>3, <2>4
<1> QED
  BY <1>10, <1>11, <1>12, <1>13, <1>14, <1>15 DEF IInv

\* A null message: it promises no more than that nothing happens before the next
\* event, or before the safe time, and does nothing else that could.
LEMMA NullMessageStep ==
  ASSUME IInv, NEW r \in Ranks, NullMessageEventHandler(r)
  PROVE  IInv'
<1>s. PICK s \in Ranks : s = events[r][1].to
  <2>1. events[r][1] \in EventRecords
    BY MayProcessFacts DEF NullMessageEventHandler, ProcessOneEvent
  <2> QED
    BY <2>1 DEF EventRecords
<1> DEFINE list == events[r]
           e == events[r][1]
           rest == Tail(events[r])
           d == delay[{r, s}]
           g == Min({rest[1].ts, safe[r]}) + d
           n == Event(e.ts + Pause(d), "null", s, 0)
<1>1. /\ MayProcess(r) /\ e.kind = "null" /\ now' = [now EXCEPT ![r] = e.ts]
      /\ pc' = [pc EXCEPT ![r] = "poll"]
      /\ UNCHANGED <<program, safe, guarantee, stop, busy>>
  BY DEF NullMessageEventHandler, ProcessOneEvent
<1>2. Shape /\ Lists /\ Ends /\ NullsDue /\ SafeSound /\ OnlyNeighbours /\ Chains /\ PromisesHold
  BY DEF IInv
<1>3. /\ list \in Seq(EventRecords) /\ list # <<>>
      /\ InOrder(list) /\ Good(list, now[r], StopTime) /\ HoldsStop(list)
      /\ 1 \in DOMAIN list /\ e \in EventRecords /\ e.ts \in Nat /\ e.ts >= now[r]
      /\ e.ts <= safe[r] /\ e.ts <= StopTime /\ rest \in Seq(EventRecords)
      /\ ~ stop[r] /\ pc[r] = "loop"
  BY <1>1, MayProcessFacts
<1>4. /\ delay' = delay /\ StopTime' = StopTime
      /\ \A x : Neighbours(x)' = Neighbours(x)
      /\ \A x : Pause(x)' = Pause(x)
  BY <1>1, SameProgram
<1>5. /\ StopTime \in Nat
      /\ \A x \in Ranks : \A y \in Neighbours(x) :
           y \in Ranks /\ y # x /\ delay[{x, y}] \in Nat /\ Pause(delay[{x, y}]) \in Nat
  BY <1>2, ProgramFacts
<1>6. /\ now \in [Ranks -> Nat] /\ events \in [Ranks -> Seq(EventRecords)]
      /\ pc \in [Ranks -> {"loop", "event", "poll", "done"}]
      /\ safe \in [Ranks -> Nat] /\ net \in [Ranks -> [Ranks -> Seq(Messages)]]
      /\ guarantee \in [Ranks -> [Ranks -> Nat]]
  BY <1>2 DEF Shape
<1>7. now'[r] = e.ts /\ pc'[r] = "poll" /\ \A x \in Ranks : x # r => now'[x] = now[x] /\ pc'[x] = pc[x]
  BY <1>1, <1>6
<1>8. s \in Neighbours(r)
  BY <1>1, <1>2, <1>3, <1>s DEF NullsDue, NullsFor
<1>9. s \in Ranks /\ s # r /\ d \in Nat /\ Pause(d) \in Nat
  BY <1>5, <1>8
<1>10. /\ net' = [net EXCEPT ![r][s] = Append(@, NullMessage(g))]
       /\ events' = [events EXCEPT ![r] = Insert(rest, n)]
  BY <1>1, <1>7, <1>s DEF NullMessageEventHandler, CalculateGuaranteeTime
<1> HIDE DEF list, e, rest, d, g, n
<1>11. /\ events'[r] = Insert(rest, n) /\ \A x \in Ranks : x # r => events'[x] = events[x]
  BY <1>6, <1>10
<1>12. /\ net'[r][s] = Append(net[r][s], NullMessage(g))
       /\ \A x, y \in Ranks : ~ (x = r /\ y = s) => net'[x][y] = net[x][y]
  BY <1>6, <1>9, <1>10
<1>13. /\ Good(rest, e.ts, StopTime) /\ HoldsStop(rest) /\ rest # <<>> /\ InOrder(rest)
       /\ \A i \in DOMAIN rest : i + 1 \in DOMAIN list /\ i + 1 # 1 /\ rest[i] = list[i + 1]
  <2>1. now[r] \in Nat
    BY <1>6
  <2>2. /\ Good(rest, e.ts, StopTime)
        /\ HoldsStop(list) /\ e.kind # "stop" => HoldsStop(rest) /\ rest # <<>>
    BY <1>3, <1>5, <2>1, TailGood DEF list, rest, e
  <2>3. \A i \in DOMAIN rest : i + 1 \in DOMAIN list /\ i + 1 # 1 /\ rest[i] = list[i + 1]
    BY <1>3, TailElements DEF list, rest
  <2> QED
    BY <1>1, <1>3, <2>2, <2>3 DEF Good
<1>14. 1 \in DOMAIN rest /\ rest[1].ts \in Nat /\ \A i \in DOMAIN rest : rest[1].ts <= rest[i].ts
  BY <1>3, <1>13, TailElements, ElementsTyped
<1>15. e.ts <= rest[1].ts
  BY <1>3, <1>13, <1>14 DEF Good
<1> DEFINE q == Min({rest[1].ts, safe[r]})
<1>16. q \in Nat /\ q <= rest[1].ts /\ q <= safe[r] /\ \A c \in Nat : c <= rest[1].ts /\ c <= safe[r] => c <= q
  BY <1>6, <1>14, MinOfTwo
<1>17. g = q + d /\ g \in Nat
  BY <1>9, <1>16 DEF g
<1> HIDE DEF q
<1>18. n \in EventRecords /\ n.kind = "null" /\ n.to = s /\ n.ts = e.ts + Pause(d) /\ n.ts >= e.ts
  BY <1>3, <1>9 DEF n, Event, EventRecords, Kinds
<1>19. /\ Insert(rest, n) \in Seq(EventRecords)
       /\ \A i \in DOMAIN Insert(rest, n) :
            Insert(rest, n)[i] = n \/ \E j \in DOMAIN rest : Insert(rest, n)[i] = rest[j]
  BY <1>3, <1>13, <1>18, InsertElements
<1>20. NoNull(rest, s)
  <2>1. OneNull(list, s) /\ IsNull(list[1], s)
    BY <1>1, <1>2, <1>8, <1>s DEF NullsDue, list, IsNull, e
  <2> QED
    BY <1>3, <2>1, TailNull DEF rest, list
<1>21. Promise(r, s) \in Nat /\ Promise(r, s) <= g
  <2>1. Promise(r, s) \in Nat
    BY <1>2, <1>9, PromiseNat
  <2>2. \/ Come(Promise(r, s), d, now[r])
        \/ Busy(Promise(r, s), d, s, list, Using(r, s))
        \/ Quiet(Promise(r, s), d, s, list, safe[r], pc[r])
    BY <1>2, <1>8 DEF PromisesHold, Keeps, d, list
  <2>3. e.ts <= q
    BY <1>3, <1>15, <1>16
  <2>4. CASE Come(Promise(r, s), d, now[r])
    <3>1. now[r] \in Nat /\ Promise(r, s) <= now[r] + d
      BY <1>6, <2>4 DEF Come
    <3> QED
      BY <1>3, <1>9, <1>16, <1>17, <2>1, <2>3, <3>1
  <2>5. CASE Busy(Promise(r, s), d, s, list, Using(r, s))
    <3>1. Promise(r, s) <= e.ts + d
      BY <1>1, <1>3, <1>s, <2>5 DEF Busy, list, e
    <3> QED
      BY <1>3, <1>9, <1>16, <1>17, <2>1, <2>3, <3>1
  <2>6. CASE Quiet(Promise(r, s), d, s, list, safe[r], pc[r])
    <3>1. Promise(r, s) <= safe[r] + d /\ safe[r] \in Nat
      BY <1>6, <2>6 DEF Quiet
    <3>2. ~ IsNull(rest[1], s) /\ rest[1] = list[1 + 1] /\ 1 + 1 \in DOMAIN list
      BY <1>13, <1>14, <1>20 DEF NoNull
    <3>3. Promise(r, s) <= rest[1].ts + d
      BY <2>6, <3>2 DEF Quiet
    <3>4. Promise(r, s) - d <= rest[1].ts /\ Promise(r, s) - d <= safe[r]
      BY <1>9, <1>14, <2>1, <3>1, <3>3
    <3>5. CASE Promise(r, s) - d \in Nat
      BY <1>9, <1>16, <1>17, <2>1, <3>4, <3>5
    <3>6. CASE Promise(r, s) < d
      BY <1>9, <1>16, <1>17, <2>1, <3>6
    <3> QED
      BY <1>9, <2>1, <3>5, <3>6
  <2> QED
    BY <2>1, <2>2, <2>4, <2>5, <2>6
<1>22. NullMessage(g) \in Messages /\ NullMessage(g).ts = 0 /\ NullMessage(g).g = g
  BY <1>17 DEF NullMessage, Messages
<1>23. /\ net'[r][s] \in Seq(Messages) /\ Chain(net'[r][s], guarantee[s][r])
       /\ Promise(r, s)' = g
  <2>1. net[r][s] \in Seq(Messages) /\ guarantee[s][r] \in Nat /\ Chain(net[r][s], guarantee[s][r])
    BY <1>2, <1>6, <1>9 DEF Chains
  <2>2. LastOf(net[r][s], guarantee[s][r]) = Promise(r, s)
    BY DEF Promise
  <2>3. NullMessage(g).g >= LastOf(net[r][s], guarantee[s][r])
    BY <1>17, <1>21, <1>22, <2>2
  <2>4. /\ Append(net[r][s], NullMessage(g)) \in Seq(Messages)
        /\ Chain(Append(net[r][s], NullMessage(g)), guarantee[s][r])
        /\ LastOf(Append(net[r][s], NullMessage(g)), guarantee[s][r]) = g
    BY <1>22, <2>1, <2>3, ChainAppend
  <2> QED
    BY <1>1, <1>12, <2>4 DEF Promise
<1>24. \A x, y \in Ranks : ~ (x = r /\ y = s) => Promise(x, y)' = Promise(x, y)
  BY <1>1, <1>12 DEF Promise
<1>25. Shape'
  <2>1. events' \in [Ranks -> Seq(EventRecords)]
    BY <1>6, <1>10, <1>19
  <2>2. net' \in [Ranks -> [Ranks -> Seq(Messages)]]
    BY <1>6, <1>10, <1>12, <1>23
  <2>3. now' \in [Ranks -> Nat] /\ pc' \in [Ranks -> {"loop", "event", "poll", "done"}]
    BY <1>1, <1>3, <1>6
  <2> QED
    BY <1>1, <1>2, <2>1, <2>2, <2>3 DEF Shape
<1>26. Lists'
  <2> SUFFICES ASSUME NEW x \in Ranks
               PROVE  Good(events'[x], now'[x], StopTime) /\ (~ stop[x] => HoldsStop(events'[x]))
    BY <1>1, <1>4 DEF Lists
  <2>1. CASE x = r
    <3>1. Good(Insert(rest, n), e.ts, StopTime) /\ (HoldsStop(rest) => HoldsStop(Insert(rest, n)))
      BY <1>3, <1>5, <1>13, <1>18, InsertGood
    <3> QED
      BY <1>7, <1>11, <1>13, <2>1, <3>1
  <2>2. CASE x # r
    BY <1>2, <1>7, <1>11, <2>2 DEF Lists
  <2> QED
    BY <2>1, <2>2
<1>27. Ends'
  <2> SUFFICES ASSUME NEW x \in Ranks
               PROVE  /\ now'[x] <= StopTime
                      /\ stop[x] /\ ~ HoldsStop(events'[x]) => now'[x] = StopTime
                      /\ pc'[x] = "done" /\ ~ stop[x] =>
                           /\ Neighbours(x) = {}
                           /\ \A i \in DOMAIN events'[x] : events'[x][i].ts >= StopTime
    BY <1>1, <1>4 DEF Ends
  <2>1. CASE x = r
    BY <1>3, <1>7, <2>1
  <2>2. CASE x # r
    BY <1>2, <1>7, <1>11, <2>2 DEF Ends
  <2> QED
    BY <2>1, <2>2
<1>28. NullsDue'
  <2>1. ASSUME NEW x \in Ranks PROVE NullsFor(events'[x], Neighbours(x))
    <3>1. NullsFor(events[x], Neighbours(x))
      BY <1>2 DEF NullsDue
    <3>2. CASE x = r
      <4>1. \A i \in DOMAIN rest : rest[i].kind = "null" => rest[i].to \in Neighbours(x)
        BY <1>13, <3>1, <3>2 DEF NullsFor, list
      <4> QED
        BY <1>8, <1>11, <1>18, <1>19, <3>2, <4>1 DEF NullsFor
    <3>3. CASE x # r
      BY <1>11, <3>1, <3>3
    <3> QED
      BY <3>2, <3>3
  <2>2. ASSUME NEW x \in Ranks, NEW y \in Neighbours(x)
        PROVE  /\ OneNull(events'[x], y)
               /\ NullBy(events'[x], y, now'[x] + Pause(delay[{x, y}]))
    <3>1. OneNull(events[x], y) /\ NullBy(events[x], y, now[x] + Pause(delay[{x, y}]))
      BY <1>2 DEF NullsDue
    <3>2. CASE x = r /\ y = s
      <4>1. OneNull(Insert(rest, n), s)
        BY <1>3, <1>13, <1>18, <1>20, InsertNull DEF IsNull
      <4>2. NullBy(Insert(rest, n), s, n.ts)
        <5>1. n.ts <= n.ts
          BY <1>3, <1>9, <1>18
        <5> QED
          BY <1>19, <1>20, <5>1 DEF NullBy, NoNull
      <4>3. n.ts = now'[x] + Pause(delay[{x, y}])
        BY <1>7, <1>18, <3>2 DEF d
      <4> QED
        BY <1>11, <3>2, <4>1, <4>2, <4>3
    <3>3. CASE x = r /\ y # s
      <4>1. ~ IsNull(n, y) /\ ~ IsNull(list[1], y)
        BY <1>18, <1>s, <3>3 DEF IsNull, list
      <4>2. OneNull(rest, y)
        BY <1>3, <3>1, <3>3, <4>1, TailOther DEF rest, list
      <4>3. OneNull(Insert(rest, n), y)
        BY <1>3, <1>13, <1>18, <4>1, <4>2, InsertOther
      <4>4. NullBy(Insert(rest, n), y, e.ts + Pause(delay[{x, y}]))
        <5> SUFFICES ASSUME NEW i \in DOMAIN Insert(rest, n), IsNull(Insert(rest, n)[i], y)
                     PROVE  Insert(rest, n)[i].ts <= e.ts + Pause(delay[{x, y}])
          BY DEF NullBy
        <5>1. PICK j \in DOMAIN rest : Insert(rest, n)[i] = rest[j]
          BY <1>19, <4>1
        <5>2. j + 1 \in DOMAIN list /\ Insert(rest, n)[i] = list[j + 1]
          BY <1>13, <5>1
        <5>3. list[j + 1].ts <= now[r] + Pause(delay[{x, y}]) /\ list[j + 1].ts \in Nat
          BY <1>3, <3>1, <3>3, <5>2, ElementsTyped DEF NullBy, list
        <5>4. now[r] \in Nat /\ Pause(delay[{x, y}]) \in Nat
          BY <1>5, <1>6
        <5>5. list[j + 1].ts <= e.ts + Pause(delay[{x, y}])
          BY <1>3, <5>3, <5>4
        <5> QED
          BY <5>2, <5>5
      <4> QED
        BY <1>7, <1>11, <3>3, <4>3, <4>4
    <3>4. CASE x # r
      BY <1>7, <1>11, <3>1, <3>4
    <3> QED
      BY <3>2, <3>3, <3>4
  <2> QED
    BY <1>4, <2>1, <2>2 DEF NullsDue
<1>29. SafeSound'
  <2> SUFFICES ASSUME NEW x \in Ranks PROVE now'[x] <= safe[x]
    BY <1>1, <1>2, <1>4 DEF SafeSound
  <2> QED
    BY <1>2, <1>3, <1>7 DEF SafeSound
<1>30. OnlyNeighbours'
  <2> SUFFICES ASSUME NEW x \in Ranks, NEW y \in Ranks, net'[x][y] # <<>>
               PROVE  y \in Neighbours(x)
    BY <1>4 DEF OnlyNeighbours
  <2> QED
    BY <1>2, <1>8, <1>12 DEF OnlyNeighbours
<1>31. Chains'
  <2> SUFFICES ASSUME NEW x \in Ranks, NEW y \in Ranks PROVE Chain(net'[x][y], guarantee[y][x])
    BY <1>1 DEF Chains
  <2> QED
    BY <1>2, <1>12, <1>23 DEF Chains
<1>32. PromisesHold'
  <2> SUFFICES ASSUME NEW x \in Ranks, NEW y \in Neighbours(x)
               PROVE  \/ Come(Promise(x, y)', delay[{x, y}], now'[x])
                      \/ Busy(Promise(x, y)', delay[{x, y}], y, events'[x], Using(x, y))
                      \/ Quiet(Promise(x, y)', delay[{x, y}], y, events'[x], safe[x], pc'[x])
    BY <1>1, <1>4 DEF PromisesHold, Keeps, Using
  <2>1. \/ Come(Promise(x, y), delay[{x, y}], now[x])
        \/ Busy(Promise(x, y), delay[{x, y}], y, events[x], Using(x, y))
        \/ Quiet(Promise(x, y), delay[{x, y}], y, events[x], safe[x], pc[x])
    BY <1>2 DEF PromisesHold, Keeps
  <2>2. CASE x = r /\ y = s
    <3>a. \A a, b, c \in Nat : a <= b => a + c <= b + c
      OBVIOUS
    <3>b. safe[r] \in Nat
      BY <1>6
    <3>1. g <= safe[r] + d
      BY <1>9, <1>16, <1>17, <3>a, <3>b, Zenon
    <3>2. \A j \in DOMAIN rest : g <= rest[j].ts + d
      <4> SUFFICES ASSUME NEW j \in DOMAIN rest PROVE g <= rest[j].ts + d
        OBVIOUS
      <4>1. rest[j].ts \in Nat /\ rest[1].ts <= rest[j].ts
        BY <1>3, <1>14, ElementsTyped
      <4> QED
        BY <1>9, <1>14, <1>16, <1>17, <4>1
    <3>3. Quiet(g, d, s, Insert(rest, n), safe[r], "poll")
      <4> SUFFICES ASSUME NEW i \in DOMAIN Insert(rest, n), ~ IsNull(Insert(rest, n)[i], s)
                   PROVE  g <= Insert(rest, n)[i].ts + d
        BY <3>1 DEF Quiet
      <4>1. PICK j \in DOMAIN rest : Insert(rest, n)[i] = rest[j]
        BY <1>18, <1>19 DEF IsNull
      <4> QED
        BY <3>2, <4>1
    <3> QED
      BY <1>7, <1>11, <1>23, <2>2, <3>3 DEF d
  <2>3. CASE x = r /\ y # s
    <3>1. Promise(x, y) \in Nat /\ delay[{x, y}] \in Nat /\ y \in Ranks /\ now[r] \in Nat
      BY <1>2, <1>5, <1>6, PromiseNat
    <3>2. ~ IsNull(list[1], y)
      BY <1>s, <2>3 DEF IsNull, list
    <3>3. \/ Come(Promise(x, y), delay[{x, y}], now[r])
          \/ Busy(Promise(x, y), delay[{x, y}], y, list, Using(x, y))
          \/ Quiet(Promise(x, y), delay[{x, y}], y, list, safe[r], pc[r])
      BY <2>1, <2>3 DEF list
    <3>4. list[1].ts >= now[r] /\ list[1] = e
      BY <1>3 DEF list, e
    <3>5. \/ Come(Promise(x, y), delay[{x, y}], list[1].ts)
          \/ Busy(Promise(x, y), delay[{x, y}], y, Tail(list), Using(x, y))
      BY <1>3, <3>1, <3>2, <3>3, <3>4, KeepExecute
    <3>6. ASSUME Busy(Promise(x, y), delay[{x, y}], y, rest, Using(x, y))
          PROVE  Busy(Promise(x, y), delay[{x, y}], y, Insert(rest, n), Using(x, y))
      <4>1. ~ (n.kind \in {"complete", "null"} /\ n.to = y)
        BY <1>18, <2>3
      <4> QED
        BY <1>3, <1>13, <1>18, <3>6, <4>1, BusyInsert
    <3>7. Promise(x, y)' = Promise(x, y) /\ Tail(list) = rest
      BY <1>24, <2>3, <3>1 DEF list, rest
    <3> QED
      BY <1>7, <1>11, <2>3, <3>4, <3>5, <3>6, <3>7
  <2>4. CASE x # r
    <3>1. Promise(x, y)' = Promise(x, y)
      BY <1>5, <1>24, <2>4
    <3> QED
      BY <1>7, <1>11, <2>1, <2>4, <3>1
  <2> QED
    BY <2>2, <2>3, <2>4
<1> QED
  BY <1>25, <1>26, <1>27, <1>28, <1>29, <1>30, <1>31, <1>32 DEF IInv


\* A packet: no device of the bundle was busy, so an earlier promise has come due;
\* the next one holds until the transmission ends.
LEMMA TransmitStep ==
  ASSUME IInv, ~ overlap', NEW r \in Ranks, NEW s \in Ranks, NEW c \in Channels,
         NEW x \in TxTimes, TransmitStart(r, s, c, x)
  PROVE  IInv'
<1> DEFINE list == events[r]
           d == delay[{r, s}]
           k == Event(now[r] + x, "complete", s, c)
           sent == Insert(events[r], k)
           g == Min({sent[1].ts, safe[r]}) + d
           w == program.delay[{r, s}][c]
           m == [ts |-> now[r] + x + w, g |-> g]
           n == Event(now[r] + Pause(d), "null", s, 0)
           base == Cancelled(sent, s)
           new == Insert(base, n)
<1>1. /\ pc[r] = "event" /\ s \in Neighbours(r) /\ <<r, s, c>> \notin busy
      /\ busy' = busy \cup {<<r, s, c>>}
      /\ net' = [net EXCEPT ![r][s] = Append(@, m)]
      /\ events' = [events EXCEPT ![r] = new]
      /\ UNCHANGED <<program, now, safe, guarantee, stop, pc>>
  BY DEF TransmitStart, CalculateGuaranteeTime, Reschedule
<1>2. Shape /\ Lists /\ Ends /\ NullsDue /\ SafeSound /\ OnlyNeighbours /\ Chains /\ PromisesHold
  BY DEF IInv
<1>3. /\ delay' = delay /\ StopTime' = StopTime
      /\ \A y : Neighbours(y)' = Neighbours(y)
      /\ \A y : Pause(y)' = Pause(y)
  BY <1>1, SameProgram
<1>4. /\ StopTime \in Nat
      /\ \A a \in Ranks : \A b \in Neighbours(a) :
           b \in Ranks /\ delay[{a, b}] \in Nat /\ Pause(delay[{a, b}]) \in Nat
  BY <1>2, ProgramFacts
<1>5. /\ events \in [Ranks -> Seq(EventRecords)] /\ now[r] \in Nat /\ safe[r] \in Nat
      /\ net \in [Ranks -> [Ranks -> Seq(Messages)]] /\ guarantee \in [Ranks -> [Ranks -> Nat]]
      /\ x \in Nat
  BY <1>2, TimesAssumption DEF Shape
<1>t. now[r] \in Nat /\ safe[r] \in Nat /\ x \in Nat
  BY <1>5
<1>6. d \in Nat /\ Pause(d) \in Nat
  BY <1>1, <1>4
<1>w. w \in Nat /\ w >= d
  BY <1>1, <1>2, ProgramFacts DEF TransmitStart
<1>7. list \in Seq(EventRecords) /\ Good(list, now[r], StopTime) /\ InOrder(list)
      /\ (~ stop[r] => HoldsStop(list))
  BY <1>2, <1>5 DEF Lists, Good
<1>8. k \in EventRecords /\ k.kind = "complete" /\ k.to = s /\ k.ts = now[r] + x /\ k.ts >= now[r]
  <2>1. k = Event(now[r] + x, "complete", s, c) /\ now[r] + x \in Nat /\ now[r] + x >= now[r]
    BY <1>5, SMTT(30)
  <2> HIDE DEF k
  <2> QED
    BY <2>1 DEF Event, EventRecords, Kinds
<1>9. /\ n \in EventRecords /\ n.kind = "null" /\ n.to = s /\ n.ts = now[r] + Pause(d)
      /\ n.ts >= now[r] /\ n.ts \in Nat
  <2> HIDE DEF d
  <2>1. now[r] + Pause(d) \in Nat /\ now[r] + Pause(d) >= now[r]
    BY <1>t, <1>6
  <2>2. n = [ts |-> now[r] + Pause(d), kind |-> "null", to |-> s, ch |-> 0]
    BY DEF Event
  <2> HIDE DEF n
  <2> QED
    BY <2>1, <2>2 DEF EventRecords, Kinds
<1>10. /\ events'[r] = new /\ \A y \in Ranks : y # r => events'[y] = events[y]
  BY <1>1, <1>5
<1>11. /\ net'[r][s] = Append(net[r][s], m)
       /\ \A a, b \in Ranks : ~ (a = r /\ b = s) => net'[a][b] = net[a][b]
  BY <1>1, <1>5
<1>12. sent = Insert(list, k) /\ m.ts = now[r] + x + w /\ m.g = g
  OBVIOUS
<1> HIDE DEF list, d, w, k, sent, g, m, n, base, new
<1>13. /\ sent \in Seq(EventRecords) /\ InOrder(sent) /\ sent # <<>>
       /\ \A i \in DOMAIN sent : sent[i] = k \/ \E j \in DOMAIN list : sent[i] = list[j]
       /\ \A j \in DOMAIN list : \E i \in DOMAIN sent : sent[i] = list[j]
       /\ \E i \in DOMAIN sent : sent[i] = k
  BY <1>7, <1>8, <1>12, InsertElements, ZenonT(40)
<1>14. 1 \in DOMAIN sent /\ sent[1].ts \in Nat /\ \A i \in DOMAIN sent : sent[1].ts <= sent[i].ts
  BY <1>13, TailElements, ElementsTyped
<1>15. Good(sent, now[r], StopTime) /\ (HoldsStop(list) => HoldsStop(sent))
  BY <1>4, <1>5, <1>7, <1>8, <1>12, InsertGood
<1>16. now[r] <= sent[1].ts
  BY <1>5, <1>14, <1>15 DEF Good
<1> DEFINE q == Min({sent[1].ts, safe[r]})
<1>17. q \in Nat /\ q <= sent[1].ts /\ q <= safe[r] /\ \A y \in Nat : y <= sent[1].ts /\ y <= safe[r] => y <= q
  BY <1>5, <1>14, MinOfTwo
<1>18. g = q + d /\ g \in Nat
  BY <1>6, <1>17 DEF g
<1> HIDE DEF q
<1>19. now[r] <= q
  <2>1. now[r] <= safe[r]
    BY <1>2 DEF SafeSound
  <2> QED
    BY <1>5, <1>16, <1>17, <2>1
<1>20. \A i \in DOMAIN sent : g <= sent[i].ts + d
  <2> SUFFICES ASSUME NEW i \in DOMAIN sent PROVE g <= sent[i].ts + d
    OBVIOUS
  <2>1. sent[i].ts \in Nat /\ sent[1].ts <= sent[i].ts
    BY <1>13, <1>14, ElementsTyped
  <2> QED
    BY <1>6, <1>14, <1>17, <1>18, <2>1
<1>21. g <= n.ts + d
  <2>1. PICK i \in DOMAIN list : IsNull(list[i], s)
    BY <1>1, <1>2 DEF NullsDue, OneNull, list
  <2>2. list[i].ts <= n.ts
    BY <1>1, <1>2, <1>9, <2>1 DEF NullsDue, NullBy, list, d
  <2>3. g <= list[i].ts + d
    BY <1>13, <1>20
  <2>4. list[i].ts \in Nat /\ n.ts \in Nat
    BY <1>7, <1>9, ElementsTyped
  <2> QED
    BY <1>6, <1>18, <2>2, <2>3, <2>4
<1>22. /\ base \in Seq(EventRecords) /\ InOrder(base) /\ DOMAIN base = DOMAIN sent
       /\ \A i \in DOMAIN sent :
            /\ base[i].ts = sent[i].ts /\ base[i].to = sent[i].to
            /\ base[i].kind = IF IsNull(sent[i], s) THEN "cancelled" ELSE sent[i].kind
       /\ Good(base, now[r], StopTime) /\ (HoldsStop(sent) => HoldsStop(base))
       /\ NoNull(base, s) /\ \A t : t # s /\ OneNull(sent, t) => OneNull(base, t)
  <2>1. /\ base \in Seq(EventRecords) /\ InOrder(base) /\ DOMAIN base = DOMAIN sent
        /\ \A i \in DOMAIN sent :
             /\ base[i].ts = sent[i].ts /\ base[i].to = sent[i].to
             /\ base[i].kind = IF IsNull(sent[i], s) THEN "cancelled" ELSE sent[i].kind
    BY <1>13, CancelledElements DEF base
  <2>2. Good(base, now[r], StopTime) /\ (HoldsStop(sent) => HoldsStop(base))
    BY <1>4, <1>5, <1>13, <1>15, CancelledGood DEF base
  <2>3. NoNull(base, s) /\ \A t : t # s /\ OneNull(sent, t) => OneNull(base, t)
    BY <1>13, CancelledNulls DEF base
  <2> QED
    BY <2>1, <2>2, <2>3
<1>23. /\ new \in Seq(EventRecords)
       /\ \A i \in DOMAIN new : new[i] = n \/ \E j \in DOMAIN base : new[i] = base[j]
  BY <1>9, <1>22, InsertElements DEF new
<1>24. Good(new, now[r], StopTime) /\ (HoldsStop(base) => HoldsStop(new))
  BY <1>4, <1>5, <1>9, <1>22, InsertGood DEF new
<1>25. Promise(r, s) \in Nat /\ Promise(r, s) <= now[r] + d
  <2>1. Promise(r, s) \in Nat
    BY <1>2, PromiseNat
  <2>2. \/ Come(Promise(r, s), d, now[r])
        \/ Busy(Promise(r, s), d, s, list, Using(r, s))
        \/ Quiet(Promise(r, s), d, s, list, safe[r], pc[r])
    BY <1>1, <1>2 DEF PromisesHold, Keeps, d, list
  <2>3. Using(r, s) = {}
    BY DEF Using, TransmitStart
  <2> QED
    BY <1>1, <2>1, <2>2, <2>3 DEF Come, Busy, Quiet
<1>26. /\ net'[r][s] \in Seq(Messages) /\ Chain(net'[r][s], guarantee[s][r])
       /\ Promise(r, s)' = g
  <2>1. net[r][s] \in Seq(Messages) /\ guarantee[s][r] \in Nat /\ Chain(net[r][s], guarantee[s][r])
    BY <1>2, <1>5 DEF Chains
  <2>2. LastOf(net[r][s], guarantee[s][r]) = Promise(r, s)
    BY DEF Promise
  <2>3. m \in Messages
    <3>1. now[r] + x + w \in Nat
      BY <1>t, <1>w
    <3> QED
      BY <1>18, <3>1 DEF m, Messages
  <2>4. m.g >= LastOf(net[r][s], guarantee[s][r]) /\ m.ts >= LastOf(net[r][s], guarantee[s][r])
    <3>1. Promise(r, s) <= g
      BY <1>t, <1>6, <1>17, <1>18, <1>19, <1>25
    <3>2. Promise(r, s) <= now[r] + x + w /\ now[r] + x + w \in Nat
      BY <1>t, <1>6, <1>w, <1>25
    <3> QED
      BY <1>12, <1>18, <1>25, <2>2, <3>1, <3>2
  <2>5. /\ Append(net[r][s], m) \in Seq(Messages)
        /\ Chain(Append(net[r][s], m), guarantee[s][r])
        /\ LastOf(Append(net[r][s], m), guarantee[s][r]) = g
    BY <1>12, <2>1, <2>3, <2>4, ChainAppend
  <2> QED
    BY <1>1, <1>11, <2>5 DEF Promise
<1>27. \A a, b \in Ranks : ~ (a = r /\ b = s) => Promise(a, b)' = Promise(a, b)
  BY <1>1, <1>11 DEF Promise
<1>28. Shape'
  <2>1. events' \in [Ranks -> Seq(EventRecords)]
    BY <1>1, <1>5, <1>23
  <2>2. net' \in [Ranks -> [Ranks -> Seq(Messages)]]
    BY <1>1, <1>5, <1>11, <1>26
  <2>3. busy' \subseteq Ranks \X Ranks \X Channels
    BY <1>1, <1>2, SMTT(30) DEF Shape
  <2> QED
    BY <1>1, <1>2, <2>1, <2>2, <2>3 DEF Shape
<1>a. ASSUME NEW y \in Ranks
      PROVE  /\ Good(events'[y], now[y], StopTime)
             /\ HoldsStop(events[y]) => HoldsStop(events'[y])
  <2>1. CASE y = r
    BY <1>7, <1>10, <1>15, <1>22, <1>24, <2>1 DEF list
  <2>2. CASE y # r
    BY <1>2, <1>10, <2>2 DEF Lists
  <2> QED
    BY <2>1, <2>2
<1>29. Lists'
  BY <1>1, <1>2, <1>3, <1>a DEF Lists
<1>30. Ends'
  <2> SUFFICES ASSUME NEW y \in Ranks, pc[y] = "done", ~ stop[y]
               PROVE  \A i \in DOMAIN events'[y] : events'[y][i].ts >= StopTime
    BY <1>1, <1>2, <1>3, <1>a DEF Ends
  <2>1. y # r
    BY <1>1
  <2> QED
    BY <1>2, <1>10, <2>1 DEF Ends
<1>31. NullsDue'
  <2>1. ASSUME NEW a \in Ranks PROVE NullsFor(events'[a], Neighbours(a))
    <3>1. NullsFor(events[a], Neighbours(a))
      BY <1>2 DEF NullsDue
    <3>2. CASE a = r
      <4>1. \A i \in DOMAIN sent : sent[i].kind = "null" => sent[i].to \in Neighbours(r)
        BY <1>8, <1>13, <3>1, <3>2 DEF NullsFor, list
      <4>2. \A i \in DOMAIN base : base[i].kind = "null" => base[i].to \in Neighbours(r)
        BY <1>22, <4>1
      <4> QED
        BY <1>1, <1>9, <1>10, <1>23, <3>2, <4>2 DEF NullsFor
    <3>3. CASE a # r
      BY <1>10, <3>1, <3>3
    <3> QED
      BY <3>2, <3>3
  <2>2. ASSUME NEW a \in Ranks, NEW b \in Neighbours(a)
        PROVE  /\ OneNull(events'[a], b)
               /\ NullBy(events'[a], b, now[a] + Pause(delay[{a, b}]))
    <3>1. OneNull(events[a], b) /\ NullBy(events[a], b, now[a] + Pause(delay[{a, b}]))
      BY <1>2 DEF NullsDue
    <3>2. CASE a = r /\ b = s
      <4>1. OneNull(new, s)
        BY <1>9, <1>22, InsertNull DEF IsNull, new
      <4>2. NullBy(new, s, n.ts)
        <5>1. n.ts <= n.ts
          BY <1>9
        <5> QED
          BY <1>22, <1>23, <5>1 DEF NullBy, NoNull
      <4>3. n.ts = now[a] + Pause(delay[{a, b}])
        BY <1>9, <3>2 DEF d
      <4> QED
        BY <1>10, <3>2, <4>1, <4>2, <4>3
    <3>3. CASE a = r /\ b # s
      <4>1. ~ IsNull(n, b) /\ ~ IsNull(k, b)
        BY <1>8, <1>9, <3>3 DEF IsNull
      <4>2. OneNull(sent, b)
        BY <1>7, <1>8, <1>12, <3>1, <3>3, <4>1, InsertOther DEF list
      <4>3. OneNull(base, b)
        BY <1>22, <3>3, <4>2
      <4>4. OneNull(new, b)
        BY <1>9, <1>22, <4>1, <4>3, InsertOther DEF new
      <4>5. NullBy(new, b, now[a] + Pause(delay[{a, b}]))
        <5> SUFFICES ASSUME NEW i \in DOMAIN new, IsNull(new[i], b)
                     PROVE  new[i].ts <= now[a] + Pause(delay[{a, b}])
          BY DEF NullBy
        <5>1. PICK j \in DOMAIN base : new[i] = base[j]
          BY <1>23, <4>1
        <5>2. j \in DOMAIN sent /\ IsNull(sent[j], b) /\ base[j].ts = sent[j].ts
          BY <1>22, <5>1, <3>3 DEF IsNull
        <5>3. PICK l \in DOMAIN list : sent[j] = list[l]
          BY <1>13, <4>1, <5>2
        <5> QED
          BY <3>1, <3>3, <5>1, <5>2, <5>3 DEF NullBy, list
      <4> QED
        BY <1>10, <3>3, <4>4, <4>5
    <3>4. CASE a # r
      BY <1>10, <3>1, <3>4
    <3> QED
      BY <3>2, <3>3, <3>4
  <2> QED
    BY <1>1, <1>3, <2>1, <2>2 DEF NullsDue
<1>32. SafeSound'
  BY <1>1, <1>2, <1>3 DEF SafeSound
<1>33. OnlyNeighbours'
  <2> SUFFICES ASSUME NEW a \in Ranks, NEW b \in Ranks, net'[a][b] # <<>>
               PROVE  b \in Neighbours(a)
    BY <1>3 DEF OnlyNeighbours
  <2> QED
    BY <1>1, <1>2, <1>11 DEF OnlyNeighbours
<1>34. Chains'
  <2> SUFFICES ASSUME NEW a \in Ranks, NEW b \in Ranks PROVE Chain(net'[a][b], guarantee[b][a])
    BY <1>1 DEF Chains
  <2> QED
    BY <1>2, <1>11, <1>26 DEF Chains
<1>35. PromisesHold'
  <2> SUFFICES ASSUME NEW a \in Ranks, NEW b \in Neighbours(a)
               PROVE  \/ Come(Promise(a, b)', delay[{a, b}], now[a])
                      \/ Busy(Promise(a, b)', delay[{a, b}], b, events'[a], Using(a, b)')
                      \/ Quiet(Promise(a, b)', delay[{a, b}], b, events'[a], safe[a], pc[a])
    BY <1>1, <1>3 DEF PromisesHold, Keeps
  <2>1. \/ Come(Promise(a, b), delay[{a, b}], now[a])
        \/ Busy(Promise(a, b), delay[{a, b}], b, events[a], Using(a, b))
        \/ Quiet(Promise(a, b), delay[{a, b}], b, events[a], safe[a], pc[a])
    BY <1>2 DEF PromisesHold, Keeps
  <2>2. CASE a = r /\ b = s
    <3>1. c \in Using(a, b)'
      BY <1>1, <2>2 DEF Using
    <3>2. Busy(g, d, s, new, Using(a, b)')
      <4> SUFFICES ASSUME NEW i \in DOMAIN new PROVE g <= new[i].ts + d
        BY <3>1 DEF Busy
      <4> QED
        BY <1>20, <1>21, <1>22, <1>23, SMTT(30)
    <3> QED
      BY <1>10, <1>26, <2>2, <3>2 DEF d
  <2>3. CASE ~ (a = r /\ b = s)
    <3>1. Promise(a, b)' = Promise(a, b)
      BY <1>4, <1>27, <2>3
    <3>2. Using(a, b)' = Using(a, b)
      BY <1>1, <2>3 DEF Using
    <3>3. CASE a = r
      <4>1. ~ Quiet(Promise(a, b), delay[{a, b}], b, events[a], safe[a], pc[a])
        BY <1>1, <3>3 DEF Quiet
      <4>2. ASSUME Busy(Promise(a, b), delay[{a, b}], b, list, Using(a, b))
            PROVE  Busy(Promise(a, b), delay[{a, b}], b, new, Using(a, b))
        <5> SUFFICES ASSUME NEW i \in DOMAIN new, new[i].kind \in {"complete", "null"}, new[i].to = b
                     PROVE  Promise(a, b) <= new[i].ts + delay[{a, b}]
          BY <4>2 DEF Busy
        <5>1. PICK j \in DOMAIN base : new[i] = base[j]
          BY <1>9, <1>23, <2>3, <3>3
        <5>2. j \in DOMAIN sent /\ sent[j].to = b /\ sent[j].kind \in {"complete", "null"}
              /\ base[j].ts = sent[j].ts
          BY <1>22, <5>1
        <5>3. PICK l \in DOMAIN list : sent[j] = list[l]
          BY <1>8, <1>13, <2>3, <3>3, <5>2
        <5> QED
          BY <4>2, <5>1, <5>2, <5>3 DEF Busy
      <4> QED
        BY <1>10, <2>1, <3>1, <3>2, <3>3, <4>1, <4>2 DEF list
    <3>4. CASE a # r
      BY <1>10, <2>1, <3>1, <3>2, <3>4
    <3> QED
      BY <3>3, <3>4
  <2> QED
    BY <2>2, <2>3
<1> QED
  BY <1>28, <1>29, <1>30, <1>31, <1>32, <1>33, <1>34, <1>35 DEF IInv


-----------------------------------------------------------------------------
(* The initial lists *)

\* The order of the first events is a strict one.
LEMMA SoonerOrder ==
  ASSUME NEW e \in EventRecords, NEW f \in EventRecords, NEW h \in EventRecords
  PROVE  /\ ~ Sooner(e, e)
         /\ Sooner(e, f) /\ Sooner(f, h) => Sooner(e, h)
<1>1. /\ e.ts \in Nat /\ f.ts \in Nat /\ h.ts \in Nat
      /\ e.to \in Nat /\ f.to \in Nat /\ h.to \in Nat
  BY RanksAssumption DEF EventRecords
<1>2. ~ Sooner(e, e)
  BY <1>1 DEF Sooner
<1>3. ASSUME Sooner(e, f), Sooner(f, h) PROVE Sooner(e, h)
  BY <1>1, <1>3 DEF Sooner
<1> QED
  BY <1>2, <1>3

\* The events of E, each at the place that the number of those before it says
Placed(E) ==
  [i \in 1 .. Cardinality(E) |->
     CHOOSE e \in E : Cardinality({f \in E : Sooner(f, e)}) = i - 1]

ListsAll(list, E) ==
  /\ list \in Seq(EventRecords) /\ InOrder(list)
  /\ \A i \in DOMAIN list : list[i] \in E
  /\ \A e \in E : \E i \in DOMAIN list : list[i] = e
  /\ \A i, j \in DOMAIN list : list[i] = list[j] => i = j

\* Putting every event at that place makes a list of them all, in order.
LEMMA ListOf ==
  ASSUME NEW E \in SUBSET EventRecords, IsFiniteSet(E),
         \A e, f \in E : e = f \/ Sooner(e, f) \/ Sooner(f, e)
  PROVE  ListsAll(Placed(E), E)
<1> DEFINE list == Placed(E)
<1>list. list = [i \in 1 .. Cardinality(E) |->
                   CHOOSE e \in E : Cardinality({f \in E : Sooner(f, e)}) = i - 1]
  BY DEF Placed
<1> HIDE DEF list
<1> DEFINE n == Cardinality(E)
           P(e) == {f \in E : Sooner(f, e)}
           rk == [e \in E |-> Cardinality(P(e))]
<1>0. rk = [e \in E |-> rk[e]] /\ \A e \in E : rk[e] = Cardinality(P(e))
  OBVIOUS
<1> HIDE DEF rk
<1>1. n \in Nat
  BY FS_CardinalityType
<1>2. ASSUME NEW e \in E
      PROVE  IsFiniteSet(P(e)) /\ rk[e] \in 0 .. n - 1 /\ rk[e] = Cardinality(P(e))
  <2>1. P(e) \in SUBSET (E \ {e})
    BY SoonerOrder
  <2>2. IsFiniteSet(E \ {e}) /\ Cardinality(E \ {e}) = n - 1
    BY FS_RemoveElement
  <2>3. IsFiniteSet(P(e)) /\ Cardinality(P(e)) <= Cardinality(E \ {e})
    BY <2>1, <2>2, FS_Subset
  <2>4. Cardinality(P(e)) \in Nat
    BY <2>3, FS_CardinalityType
  <2> QED
    BY <1>0, <1>1, <2>2, <2>3, <2>4
<1>n. \A e \in E : rk[e] \in Nat
  <2> SUFFICES ASSUME NEW e \in E PROVE rk[e] \in Nat
    OBVIOUS
  <2>1. rk[e] \in 0 .. n - 1
    BY <1>2
  <2> HIDE DEF n
  <2> QED
    BY <1>1, <2>1
<1>3. ASSUME NEW e \in E, NEW f \in E, Sooner(e, f) PROVE rk[e] < rk[f]
  <2>1. P(e) \in SUBSET P(f)
    BY <1>3, SoonerOrder
  <2>2. e \in P(f) /\ e \notin P(e)
    BY <1>3, SoonerOrder
  <2>3. /\ Cardinality(P(e)) <= Cardinality(P(f))
        /\ Cardinality(P(f)) = Cardinality(P(e)) => P(f) = P(e)
    BY <1>2, <2>1, FS_Subset
  <2>4. Cardinality(P(f)) # Cardinality(P(e))
    BY <2>2, <2>3
  <2>5. rk[e] \in Nat /\ rk[f] \in Nat /\ rk[e] = Cardinality(P(e)) /\ rk[f] = Cardinality(P(f))
    BY <1>0, <1>n
  <2> QED
    BY <2>3, <2>4, <2>5
<1> HIDE DEF n
<1>4. rk \in Injection(E, 0 .. n - 1)
  <2>1. rk \in [E -> 0 .. n - 1]
    <3>1. \A e \in E : rk[e] \in 0 .. n - 1
      BY <1>2
    <3> QED
      BY <1>0, <3>1
  <2>2. ASSUME NEW e \in E, NEW f \in E, rk[e] = rk[f] PROVE e = f
    <3>1. rk[e] \in Nat /\ rk[f] \in Nat
      BY <1>n
    <3>2. ~ Sooner(e, f) /\ ~ Sooner(f, e)
      BY <1>3, <2>2, <3>1
    <3> QED
      BY <3>2
  <2>3. \A e, f \in DOMAIN rk : rk[e] = rk[f] => e = f
    BY <2>1, <2>2
  <2> QED
    BY <2>1, <2>3, Zenon DEF Injection, IsInjective
<1>5. rk \in Surjection(E, 0 .. n - 1)
  <2>1. IsFiniteSet(0 .. n - 1) /\ Cardinality(0 .. n - 1) = n
    BY <1>1, FS_Interval
  <2> QED
    BY <1>4, <2>1, FS_Injection DEF n
<1>6. \A e \in E : rk[e] = Cardinality(P(e))
  BY <1>0
<1>7. ASSUME NEW i \in 1 .. n PROVE list[i] \in E /\ rk[list[i]] = i - 1
  <2>1. i - 1 \in 0 .. n - 1
    BY <1>1
  <2>2. PICK e \in E : rk[e] = i - 1
    BY <1>5, <2>1 DEF Surjection
  <2>3. Cardinality(P(e)) = i - 1
    BY <1>6, <2>2
  <2>4. list[i] = CHOOSE z \in E : Cardinality(P(z)) = i - 1
    BY <1>list DEF n
  <2>5. list[i] \in E /\ Cardinality(P(list[i])) = i - 1
    BY <2>3, <2>4
  <2> QED
    BY <1>6, <2>5
<1>8. list \in Seq(EventRecords) /\ DOMAIN list = 1 .. n
  <2>1. list = [i \in 1 .. n |-> list[i]]
    <3> DEFINE body(i) == CHOOSE e \in E : Cardinality({f \in E : Sooner(f, e)}) = i - 1
    <3>1. list = [i \in 1 .. n |-> body(i)]
      BY <1>list DEF n
    <3> HIDE DEF body
    <3> QED
      BY <3>1
  <2>2. \A i \in 1 .. n : list[i] \in EventRecords
    BY <1>7
  <2>3. \A F : F = [i \in 1 .. n |-> F[i]] /\ (\A i \in 1 .. n : F[i] \in EventRecords)
          => F \in Seq(EventRecords) /\ DOMAIN F = 1 .. n
    BY <1>1
  <2> QED
    BY <2>1, <2>2, <2>3, Zenon
<1>9. \A e \in E : \E i \in DOMAIN list : list[i] = e
  <2> SUFFICES ASSUME NEW e \in E PROVE \E i \in DOMAIN list : list[i] = e
    OBVIOUS
  <2>1. rk[e] \in 0 .. n - 1
    BY <1>2
  <2>2. PICK i \in 1 .. n : i - 1 = rk[e]
    <3> DEFINE i == rk[e] + 1
    <3>1. i \in 1 .. n /\ i - 1 = rk[e]
      BY <1>1, <2>1
    <3> HIDE DEF i
    <3> QED
      BY <3>1
  <2>3. list[i] \in E /\ rk[list[i]] = i - 1
    BY <1>7
  <2>4. list[i] = e
    <3>1. \A y, z \in E : rk[y] = rk[z] => y = z
      BY <1>4 DEF Injection, IsInjective
    <3> QED
      BY <2>2, <2>3, <3>1, Zenon
  <2> QED
    BY <1>8, <2>2, <2>4
<1>10. \A i, j \in DOMAIN list : list[i] = list[j] => i = j
  <2> SUFFICES ASSUME NEW i \in 1 .. n, NEW j \in 1 .. n, list[i] = list[j] PROVE i = j
    BY <1>8
  <2>1. i - 1 = j - 1
    BY <1>7
  <2> QED
    BY <1>1, <2>1
<1>11. InOrder(list)
  <2> SUFFICES ASSUME NEW i \in 1 .. n, NEW j \in 1 .. n, i < j, ~ (list[i].ts <= list[j].ts)
               PROVE  FALSE
    BY <1>8 DEF InOrder
  <2>1. list[i] \in E /\ list[j] \in E /\ rk[list[i]] = i - 1 /\ rk[list[j]] = j - 1
    BY <1>7
  <2>2. list[i].ts \in Nat /\ list[j].ts \in Nat
    BY <2>1 DEF EventRecords
  <2>3. Sooner(list[j], list[i])
    BY <2>2 DEF Sooner
  <2>4. rk[list[j]] < rk[list[i]]
    BY <1>3, <2>1, <2>3
  <2> QED
    BY <1>1, <2>1, <2>4
<1>12. \A i \in DOMAIN list : list[i] \in E
  BY <1>7, <1>8
<1>13. ListsAll(list, E)
  BY <1>8, <1>9, <1>10, <1>11, <1>12 DEF ListsAll
<1> QED
  BY <1>13 DEF list


\* What is in the list of a rank at first.
LEMMA InitialList ==
  ASSUME Init, NEW r \in Ranks, NEW R \in SUBSET program.starts
  PROVE  /\ InitialEvents(r, R) \in Seq(EventRecords)
         /\ Good(InitialEvents(r, R), 0, StopTime) /\ HoldsStop(InitialEvents(r, R))
         /\ NullsFor(InitialEvents(r, R), Neighbours(r))
         /\ \A s \in Neighbours(r) :
              OneNull(InitialEvents(r, R), s)
                /\ NullBy(InitialEvents(r, R), s, 0 + Pause(delay[{r, s}]))
         /\ r \notin program.ranks =>
              \A i \in DOMAIN InitialEvents(r, R) : InitialEvents(r, R)[i].ts >= StopTime
<1> DEFINE E == Scheduled(r, R)
           A == {App(r, 0) : i \in {r} \cap R}
           Z == Event(StopTime, "stop", r, 0)
           null(s) == Event(Pause(delay[{r, s}]), "null", s, 0)
           N == {null(s) : s \in Neighbours(r)}
           list == InitialEvents(r, R)
<1>1. program \in Programs
  BY DEF Init
<1>2. /\ program.tune \in 1 .. 100 /\ StopTime \in Nat \ {0} /\ program.ranks \subseteq Ranks
      /\ program.starts \subseteq program.ranks
      /\ \A l \in DOMAIN delay : l \subseteq program.ranks /\ delay[l] \in Nat
  BY <1>1, ProgramsAssumption, BundleDelay DEF StopTime
<1>3. \A y \in Nat : (program.tune * y + 50) \div 100 \in Nat
  BY <1>2
<1>4. ASSUME NEW s \in Neighbours(r)
      PROVE  s \in Ranks /\ Pause(delay[{r, s}]) \in Nat /\ r \in program.ranks
  <2>1. s \in Ranks /\ {r, s} \in DOMAIN delay
    BY DEF Neighbours
  <2>2. delay[{r, s}] \in Nat /\ r \in program.ranks
    BY <1>2, <2>1
  <2> QED
    BY <1>3, <2>1, <2>2 DEF Pause
<1>5. E = A \cup {Z} \cup N
  BY DEF Scheduled
<1>6. \A e \in A : /\ e \in EventRecords /\ e.kind = "app" /\ e.ts = 0 /\ r \in program.ranks
                   /\ e = App(r, 0)
  BY <1>2 DEF App, Event, EventRecords, Kinds
<1>7. Z \in EventRecords /\ Z.kind = "stop" /\ Z.ts = StopTime
  BY <1>2 DEF Event, EventRecords, Kinds
<1>8. ASSUME NEW s \in Neighbours(r)
      PROVE  /\ null(s) \in EventRecords /\ null(s).kind = "null" /\ null(s).to = s
             /\ null(s).ts = Pause(delay[{r, s}])
  BY <1>4 DEF Event, EventRecords, Kinds
<1> HIDE DEF A, Z, null
<1>9. \A e \in N : /\ e \in EventRecords /\ e.kind = "null" /\ e.to \in Neighbours(r)
                   /\ e = null(e.to) /\ e.ts = Pause(delay[{r, e.to}])
  <2> SUFFICES ASSUME NEW s \in Neighbours(r), NEW e, e = null(s)
               PROVE  /\ e \in EventRecords /\ e.kind = "null" /\ e.to \in Neighbours(r)
                      /\ e = null(e.to) /\ e.ts = Pause(delay[{r, e.to}])
    OBVIOUS
  <2>1. e.to = s
    BY <1>8
  <2> QED
    BY <1>8, <2>1
<1>10. \A s \in Neighbours(r) : null(s) \in N
  OBVIOUS
<1> HIDE DEF N, E
<1>11. IsFiniteSet(E)
  <2>1. IsFiniteSet(N)
    <3> DEFINE to == [e \in N |-> e.to]
    <3>1. to \in [N -> Ranks]
      BY <1>4, <1>9
    <3>2. \A e, f \in N : to[e] = to[f] => e = f
      BY <1>9
    <3>3. DOMAIN to = N
      OBVIOUS
    <3> HIDE DEF to
    <3>4. to \in Injection(N, Ranks)
      BY <3>1, <3>2, <3>3, Zenon DEF Injection, IsInjective
    <3> QED
      BY <3>4, RanksAssumption, FS_Injection
  <2>2. IsFiniteSet(A)
    <3>1. A \in SUBSET {App(r, 0)}
      BY <1>6
    <3>2. IsFiniteSet({App(r, 0)})
      BY FS_Singleton
    <3> QED
      BY <3>1, <3>2, FS_Subset
  <2>3. IsFiniteSet(A \cup {Z})
    BY <2>2, FS_AddElement
  <2> QED
    BY <1>5, <2>1, <2>3, FS_Union
<1>12. E \in SUBSET EventRecords
  BY <1>5, <1>6, <1>7, <1>9
<1>13. ASSUME NEW e \in E, NEW f \in E PROVE e = f \/ Sooner(e, f) \/ Sooner(f, e)
  <2>1. e.ts \in Nat /\ f.ts \in Nat /\ e.to \in Nat /\ f.to \in Nat
    BY <1>12, RanksAssumption DEF EventRecords
  <2>2. CASE e \in N /\ f \in N
    <3>1. e.kind = "null" /\ f.kind = "null" /\ (e.to = f.to => e = f)
      BY <1>9, <2>2
    <3> QED
      BY <2>1, <3>1 DEF Sooner
  <2>3. CASE e \in N /\ f \notin N
    <3>1. e.kind = "null" /\ f.kind # "null"
      BY <1>5, <1>6, <1>7, <1>9, <2>3
    <3> QED
      BY <2>1, <3>1 DEF Sooner
  <2>4. CASE e \notin N /\ f \in N
    <3>1. e.kind # "null" /\ f.kind = "null"
      BY <1>5, <1>6, <1>7, <1>9, <2>4
    <3> QED
      BY <2>1, <3>1 DEF Sooner
  <2>5. CASE e \notin N /\ f \notin N
    <3>1. e \in A \cup {Z} /\ f \in A \cup {Z}
      BY <1>5, <2>5
    <3>2. e = f \/ e.ts # f.ts
      BY <1>2, <1>6, <1>7, <3>1
    <3> QED
      BY <2>1, <3>2 DEF Sooner
  <2> QED
    BY <2>2, <2>3, <2>4, <2>5
<1>14. list = Placed(E)
  BY DEF InitialEvents, Placed, E
<1> HIDE DEF list
<1>15. /\ list \in Seq(EventRecords) /\ InOrder(list)
       /\ \A i \in DOMAIN list : list[i] \in E
       /\ \A e \in E : \E i \in DOMAIN list : list[i] = e
       /\ \A i, j \in DOMAIN list : list[i] = list[j] => i = j
  <2>1. \A e, f \in E : e = f \/ Sooner(e, f) \/ Sooner(f, e)
    BY <1>13
  <2> QED
    BY <1>11, <1>12, <1>14, <2>1, ListOf DEF ListsAll
<1>16. \A e \in E : e.ts >= 0 /\ (e.kind = "stop" => e.ts = StopTime)
  <2>1. \A e \in E : e.ts \in Nat
    BY <1>12 DEF EventRecords
  <2> QED
    <3> SUFFICES ASSUME NEW e \in E PROVE e.ts >= 0 /\ (e.kind = "stop" => e.ts = StopTime)
      OBVIOUS
    <3>1. e.ts >= 0
      BY <2>1
    <3>2. e \in A \/ e = Z \/ e \in N
      BY <1>5
    <3>3. e.kind = "stop" => e = Z
      BY <1>6, <1>9, <3>2
    <3> QED
      BY <1>7, <3>1, <3>3
<1>17. Good(list, 0, StopTime)
  BY <1>15, <1>16 DEF Good
<1>18. HoldsStop(list)
  BY <1>5, <1>7, <1>15 DEF HoldsStop
<1>19. \A e \in E : e.kind = "null" => e \in N
  BY <1>5, <1>6, <1>7
<1>20. NullsFor(list, Neighbours(r))
  BY <1>9, <1>15, <1>19 DEF NullsFor
<1>21. ASSUME NEW s \in Neighbours(r)
       PROVE  OneNull(list, s) /\ NullBy(list, s, 0 + Pause(delay[{r, s}]))
  <2>1. ASSUME NEW i \in DOMAIN list, IsNull(list[i], s) PROVE list[i] = null(s)
    <3>1. list[i] \in N /\ list[i].to = s
      BY <1>15, <1>19, <2>1 DEF IsNull
    <3> QED
      BY <1>9, <3>1
  <2>2. \E i \in DOMAIN list : list[i] = null(s)
    BY <1>5, <1>10, <1>15
  <2>3. IsNull(null(s), s) /\ null(s).ts <= 0 + Pause(delay[{r, s}])
    <3>1. Pause(delay[{r, s}]) \in Nat
      BY <1>4
    <3>2. Pause(delay[{r, s}]) <= 0 + Pause(delay[{r, s}])
      BY <3>1
    <3> QED
      BY <1>8, <3>2 DEF IsNull
  <2>4. OneNull(list, s)
    BY <1>15, <2>1, <2>2, <2>3 DEF OneNull
  <2> QED
    BY <2>1, <2>3, <2>4 DEF NullBy
<1>22. ASSUME r \notin program.ranks, NEW i \in DOMAIN list PROVE list[i].ts >= StopTime
  <2>1. N = {} /\ A = {}
    BY <1>4, <1>6, <1>9, <1>22
  <2>2. list[i] = Z
    BY <1>5, <1>15, <2>1
  <2> QED
    BY <1>2, <1>7, <2>2
<1> QED
  BY <1>15, <1>17, <1>18, <1>20, <1>21, <1>22 DEF list

LEMMA InitSound ==
  ASSUME Init
  PROVE  IInv
<1>1. /\ program \in Programs /\ now = [r \in Ranks |-> 0] /\ safe = [r \in Ranks |-> 0]
      /\ guarantee = [r \in Ranks |-> [s \in Ranks |-> 0]]
      /\ stop = [r \in Ranks |-> FALSE] /\ busy = {}
      /\ net = [s \in Ranks |-> [r \in Ranks |->
                  IF r \in Neighbours(s) THEN <<NullMessage(delay[{r, s}])>> ELSE <<>>]]
      /\ pc = [r \in Ranks |-> IF r \in program.ranks THEN "loop" ELSE "done"]
  BY DEF Init
<1>2. PICK R \in SUBSET program.starts : events = [r \in Ranks |-> InitialEvents(r, R)]
  BY DEF Init
<1>3. ASSUME NEW r \in Ranks
      PROVE  /\ events[r] \in Seq(EventRecords)
             /\ Good(events[r], 0, StopTime) /\ HoldsStop(events[r])
             /\ NullsFor(events[r], Neighbours(r))
             /\ \A s \in Neighbours(r) :
                  OneNull(events[r], s) /\ NullBy(events[r], s, 0 + Pause(delay[{r, s}]))
             /\ r \notin program.ranks => \A i \in DOMAIN events[r] : events[r][i].ts >= StopTime
  <2>1. events[r] = InitialEvents(r, R)
    BY <1>2
  <2> QED
    BY <2>1, InitialList
<1>4. /\ StopTime \in Nat \ {0}
      /\ \A l \in DOMAIN delay : l \subseteq program.ranks /\ delay[l] \in Nat
  BY <1>1, ProgramsAssumption, BundleDelay DEF StopTime
<1>5. ASSUME NEW s \in Ranks, NEW r \in Neighbours(s)
      PROVE  /\ NullMessage(delay[{r, s}]) \in Messages /\ delay[{r, s}] \in Nat
             /\ NullMessage(delay[{r, s}]).g = delay[{r, s}] /\ NullMessage(delay[{r, s}]).ts = 0
             /\ {r, s} = {s, r} /\ s \in program.ranks /\ r \in Ranks
  <2>1. {s, r} \in DOMAIN delay /\ {r, s} = {s, r} /\ r \in Ranks
    BY DEF Neighbours
  <2>2. delay[{r, s}] \in Nat /\ s \in program.ranks
    BY <1>4, <2>1
  <2> QED
    BY <2>1, <2>2 DEF NullMessage, Messages
<1>6. ASSUME NEW s \in Ranks, NEW r \in Ranks
      PROVE  /\ guarantee[r][s] = 0 /\ net[s][r] \in Seq(Messages)
             /\ r \in Neighbours(s) => net[s][r] = <<NullMessage(delay[{r, s}])>>
             /\ r \notin Neighbours(s) => net[s][r] = <<>>
  <2>1. guarantee[r][s] = 0
    BY <1>1
  <2>2. net[s][r] = IF r \in Neighbours(s) THEN <<NullMessage(delay[{r, s}])>> ELSE <<>>
    BY <1>1
  <2>3. r \in Neighbours(s) => NullMessage(delay[{r, s}]) \in Messages
    BY <1>5
  <2>4. <<>> \in Seq(Messages) /\ \A z \in Messages : <<z>> \in Seq(Messages)
    OBVIOUS
  <2>5. CASE r \in Neighbours(s)
    <3>1. net[s][r] = <<NullMessage(delay[{r, s}])>>
      BY <2>2, <2>5
    <3>2. <<NullMessage(delay[{r, s}])>> \in Seq(Messages)
      BY <2>3, <2>4, <2>5
    <3> QED
      BY <2>1, <2>5, <3>1, <3>2
  <2>6. CASE r \notin Neighbours(s)
    <3>1. net[s][r] = <<>>
      BY <2>2, <2>6
    <3> QED
      BY <2>1, <2>4, <2>6, <3>1
  <2> QED
    BY <2>5, <2>6
<1>7. \A r \in Ranks : now[r] = 0 /\ safe[r] = 0 /\ stop[r] = FALSE
  BY <1>1
<1>8. Shape
  <2>1. events \in [Ranks -> Seq(EventRecords)]
    BY <1>2, <1>3
  <2>2. net \in [Ranks -> [Ranks -> Seq(Messages)]]
    BY <1>1, <1>6
  <2>3. guarantee \in [Ranks -> [Ranks -> Nat]]
    BY <1>1
  <2>4. now \in [Ranks -> Nat] /\ safe \in [Ranks -> Nat] /\ stop \in [Ranks -> BOOLEAN]
    BY <1>1
  <2>5. pc \in [Ranks -> {"loop", "event", "poll", "done"}]
    BY <1>1
  <2> QED
    BY <1>1, <2>1, <2>2, <2>3, <2>4, <2>5 DEF Shape
<1>9. Lists
  BY <1>3, <1>7 DEF Lists
<1>10. Ends
  <2> SUFFICES ASSUME NEW r \in Ranks
               PROVE  /\ now[r] <= StopTime /\ ~ stop[r]
                      /\ pc[r] = "done" =>
                           /\ Neighbours(r) = {}
                           /\ \A i \in DOMAIN events[r] : events[r][i].ts >= StopTime
    BY DEF Ends
  <2>1. pc[r] = "done" => r \notin program.ranks
    BY <1>1
  <2>2. r \notin program.ranks => Neighbours(r) = {}
    BY <1>5
  <2>3. now[r] <= StopTime /\ ~ stop[r]
    BY <1>4, <1>7
  <2> QED
    BY <1>3, <2>1, <2>2, <2>3
<1>11. NullsDue
  BY <1>3, <1>7 DEF NullsDue
<1>12. SafeSound
  <2>1. \A r \in Ranks : Neighbours(r) \subseteq Ranks
    BY DEF Neighbours
  <2> SUFFICES ASSUME NEW r \in Ranks
               PROVE  /\ now[r] <= safe[r]
                      /\ \A s \in Neighbours(r) : safe[r] <= guarantee[r][s]
                      /\ Neighbours(r) = {} => safe[r] <= StopTime
    BY DEF SafeSound
  <2>2. now[r] = 0 /\ safe[r] = 0 /\ \A s \in Neighbours(r) : guarantee[r][s] = 0
    BY <1>6, <1>7, <2>1
  <2> QED
    BY <1>4, <2>2
<1>13. OnlyNeighbours
  BY <1>6 DEF OnlyNeighbours
<1>14. ASSUME NEW s \in Ranks, NEW r \in Neighbours(s)
       PROVE  Chain(net[s][r], guarantee[r][s]) /\ LastOf(net[s][r], guarantee[r][s]) = delay[{s, r}]
  <2>1. r \in Ranks /\ net[s][r] = <<NullMessage(delay[{r, s}])>> /\ guarantee[r][s] = 0
    BY <1>5, <1>6
  <2>2. Len(net[s][r]) = 1 /\ net[s][r][1].g = delay[{r, s}] /\ net[s][r][1].ts = 0
    BY <1>5, <2>1
  <2>3. LastOf(net[s][r], guarantee[r][s]) = delay[{s, r}]
    <3>1. LastOf(net[s][r], guarantee[r][s]) = delay[{r, s}]
      BY <2>2 DEF LastOf, GuaranteeAt
    <3>2. {r, s} = {s, r}
      OBVIOUS
    <3> QED
      BY <3>1, <3>2
  <2>4. Chain(net[s][r], guarantee[r][s])
    <3> SUFFICES ASSUME NEW i \in 0 .. 1, NEW j \in i + 1 .. 1
                 PROVE  /\ net[s][r][j].g >= GuaranteeAt(net[s][r], guarantee[r][s], i)
                        /\ net[s][r][j].ts = 0
      BY <2>2 DEF Chain
    <3>1. i = 0 /\ j = 1
      OBVIOUS
    <3> QED
      BY <1>5, <2>1, <2>2, <3>1 DEF GuaranteeAt
  <2> QED
    BY <2>3, <2>4
<1>15. Chains
  <2> SUFFICES ASSUME NEW s \in Ranks, NEW r \in Ranks PROVE Chain(net[s][r], guarantee[r][s])
    BY DEF Chains
  <2>1. CASE r \in Neighbours(s)
    BY <1>14, <2>1
  <2>2. CASE r \notin Neighbours(s)
    <3>1. net[s][r] = <<>>
      BY <1>6, <2>2
    <3>2. Len(net[s][r]) = 0
      BY <3>1
    <3> QED
      BY <3>2 DEF Chain
  <2> QED
    BY <2>1, <2>2
<1>16. PromisesHold
  <2> SUFFICES ASSUME NEW r \in Ranks, NEW s \in Neighbours(r)
               PROVE  Come(Promise(r, s), delay[{r, s}], now[r])
    BY DEF PromisesHold, Keeps
  <2>1. Promise(r, s) = delay[{r, s}] /\ delay[{r, s}] \in Nat
    BY <1>5, <1>14 DEF Promise
  <2> QED
    BY <1>7, <2>1 DEF Come
<1> QED
  BY <1>8, <1>9, <1>10, <1>11, <1>12, <1>13, <1>15, <1>16 DEF IInv

-----------------------------------------------------------------------------
(* What holds even when parallel channels transmit at the same time *)

\* The list of rank r: in order, with the stop unless r has stopped (st), and one
\* null message for every bundle.
Sound(list, r, st) ==
  /\ Good(list, 0, StopTime) /\ (~ st => HoldsStop(list))
  /\ NullsFor(list, Neighbours(r))
  /\ \A s \in Neighbours(r) : OneNull(list, s)

BInv ==
  /\ Shape /\ overlap \in BOOLEAN
  /\ \A r \in Ranks : now[r] <= StopTime /\ Sound(events[r], r, stop[r])

LEMMA SoundInsert ==
  ASSUME StopTime \in Nat, NEW list \in Seq(EventRecords), NEW r, NEW st, Sound(list, r, st),
         NEW e \in EventRecords, e.kind \notin {"stop", "null"}
  PROVE  Insert(list, e) \in Seq(EventRecords) /\ Sound(Insert(list, e), r, st)
<1>1. Good(list, 0, StopTime) /\ InOrder(list) /\ e.ts \in Nat
  BY DEF Sound, Good, EventRecords
<1>2. Good(Insert(list, e), 0, StopTime) /\ (HoldsStop(list) => HoldsStop(Insert(list, e)))
  <2>1. e.ts >= 0 /\ 0 \in Nat
    BY <1>1
  <2> QED
    BY <1>1, <2>1, InsertGood
<1>3. /\ Insert(list, e) \in Seq(EventRecords)
      /\ \A i \in DOMAIN Insert(list, e) :
           Insert(list, e)[i] = e \/ \E j \in DOMAIN list : Insert(list, e)[i] = list[j]
  BY <1>1, InsertElements
<1>4. NullsFor(Insert(list, e), Neighbours(r))
  BY <1>3 DEF NullsFor, Sound
<1>5. ASSUME NEW s \in Neighbours(r) PROVE OneNull(Insert(list, e), s)
  <2>1. OneNull(list, s) /\ ~ IsNull(e, s)
    BY DEF Sound, IsNull
  <2> QED
    BY <1>1, <2>1, InsertOther
<1>6. ~ st => HoldsStop(Insert(list, e))
  BY <1>2 DEF Sound
<1> QED
  BY <1>2, <1>3, <1>4, <1>5, <1>6 DEF Sound

\* A null message is inserted for a bundle that has none.
LEMMA SoundNull ==
  ASSUME StopTime \in Nat, NEW list \in Seq(EventRecords), NEW r, NEW st,
         Good(list, 0, StopTime), ~ st => HoldsStop(list), NullsFor(list, Neighbours(r)),
         NEW s \in Neighbours(r), NoNull(list, s),
         \A t \in Neighbours(r) : t # s => OneNull(list, t),
         NEW e \in EventRecords, e.kind = "null", e.to = s
  PROVE  Insert(list, e) \in Seq(EventRecords) /\ Sound(Insert(list, e), r, st)
<1>1. InOrder(list) /\ e.ts \in Nat /\ e.kind # "stop"
  BY DEF Good, EventRecords
<1>2. Good(Insert(list, e), 0, StopTime) /\ (HoldsStop(list) => HoldsStop(Insert(list, e)))
  <2>1. e.ts >= 0 /\ 0 \in Nat
    BY <1>1
  <2> QED
    BY <1>1, <2>1, InsertGood
<1>3. /\ Insert(list, e) \in Seq(EventRecords)
      /\ \A i \in DOMAIN Insert(list, e) :
           Insert(list, e)[i] = e \/ \E j \in DOMAIN list : Insert(list, e)[i] = list[j]
  BY <1>1, InsertElements
<1>4. NullsFor(Insert(list, e), Neighbours(r))
  BY <1>3 DEF NullsFor
<1>5. ASSUME NEW t \in Neighbours(r) PROVE OneNull(Insert(list, e), t)
  <2>1. CASE t = s
    BY <1>1, <2>1, InsertNull DEF IsNull
  <2>2. CASE t # s
    BY <1>1, <2>2, InsertOther DEF IsNull
  <2> QED
    BY <2>1, <2>2
<1> QED
  BY <1>2, <1>3, <1>4, <1>5 DEF Sound

LEMMA SoundTail ==
  ASSUME StopTime \in Nat, NEW list \in Seq(EventRecords), list # <<>>, NEW r, Sound(list, r, FALSE)
  PROVE  /\ Tail(list) \in Seq(EventRecords) /\ list[1] \in EventRecords
         /\ list[1].ts \in Nat /\ list[1].ts <= StopTime
         /\ Good(Tail(list), 0, StopTime) /\ NullsFor(Tail(list), Neighbours(r))
         /\ list[1].kind # "stop" => HoldsStop(Tail(list))
         /\ list[1].kind = "null" => list[1].to \in Neighbours(r)
         /\ \A s \in Neighbours(r) :
              /\ ~ IsNull(list[1], s) => OneNull(Tail(list), s)
              /\ IsNull(list[1], s) => NoNull(Tail(list), s)
<1>1. Good(list, 0, StopTime) /\ HoldsStop(list) /\ InOrder(list) /\ NullsFor(list, Neighbours(r))
  BY DEF Sound, Good
<1>2. /\ Tail(list) \in Seq(EventRecords) /\ 1 \in DOMAIN list
      /\ \A i \in DOMAIN Tail(list) : i + 1 \in DOMAIN list /\ Tail(list)[i] = list[i + 1]
  BY <1>1, TailElements
<1>3. list[1] \in EventRecords /\ list[1].ts \in Nat
  BY <1>2, ElementsTyped
<1>4. /\ Good(Tail(list), list[1].ts, StopTime) /\ list[1].ts <= StopTime
      /\ list[1].kind # "stop" => HoldsStop(Tail(list))
  <2>1. 0 \in Nat
    OBVIOUS
  <2> QED
    BY <1>1, <2>1, TailGood
<1>5. Good(Tail(list), 0, StopTime)
  <2>1. \A i \in DOMAIN Tail(list) : Tail(list)[i].ts \in Nat
    BY <1>2, ElementsTyped
  <2>2. \A i \in DOMAIN Tail(list) : Tail(list)[i].ts >= 0
    BY <2>1
  <2> QED
    BY <1>4, <2>2 DEF Good
<1>6. NullsFor(Tail(list), Neighbours(r)) /\ (list[1].kind = "null" => list[1].to \in Neighbours(r))
  BY <1>1, <1>2 DEF NullsFor
<1>7. ASSUME NEW s \in Neighbours(r)
      PROVE  /\ ~ IsNull(list[1], s) => OneNull(Tail(list), s)
             /\ IsNull(list[1], s) => NoNull(Tail(list), s)
  <2>1. OneNull(list, s)
    BY DEF Sound
  <2> QED
    BY <1>1, <2>1, TailOther, TailNull
<1> QED
  BY <1>2, <1>3, <1>4, <1>5, <1>6, <1>7

\* A step of one rank.
LEMMA RankBase ==
  ASSUME BInv, Shape', overlap' \in BOOLEAN, program' = program, NEW r \in Ranks,
         now'[r] <= StopTime, Sound(events'[r], r, stop'[r]),
         \A x \in Ranks \ {r} : now'[x] = now[x] /\ events'[x] = events[x] /\ stop'[x] = stop[x]
  PROVE  BInv'
<1>1. StopTime' = StopTime /\ \A x : Neighbours(x)' = Neighbours(x)
  BY SameProgram
<1> SUFFICES ASSUME NEW x \in Ranks
             PROVE  now'[x] <= StopTime /\ Sound(events'[x], x, stop'[x])
  BY <1>1 DEF BInv, Sound
<1>2. CASE x = r
  BY <1>2
<1>3. CASE x # r
  BY <1>3 DEF BInv
<1> QED
  BY <1>2, <1>3

\* The event that is executed.
LEMMA BaseEvent ==
  ASSUME BInv, NEW r \in Ranks, MayProcess(r), NEW e, e = events[r][1], NEW rest, rest = Tail(events[r])
  PROVE  /\ StopTime \in Nat /\ ~ stop[r]
         /\ rest \in Seq(EventRecords) /\ e \in EventRecords
         /\ e.ts \in Nat /\ e.ts <= StopTime
         /\ Good(rest, 0, StopTime) /\ NullsFor(rest, Neighbours(r))
         /\ e.kind # "stop" => HoldsStop(rest)
         /\ e.kind = "null" => e.to \in Neighbours(r)
         /\ \A s \in Neighbours(r) :
              (~ IsNull(e, s) => OneNull(rest, s)) /\ (IsNull(e, s) => NoNull(rest, s))
<1>1. events[r] \in Seq(EventRecords) /\ StopTime \in Nat /\ ~ stop[r]
  BY ProgramFacts DEF BInv, Shape, MayProcess
<1>2. Sound(events[r], r, FALSE)
  BY <1>1 DEF BInv, Sound
<1>3. events[r] # <<>>
  BY <1>1, <1>2 DEF Sound, HoldsStop
<1> QED
  BY <1>1, <1>2, <1>3, SoundTail

LEMMA ExecuteBase ==
  ASSUME BInv, NEW r \in Ranks, InvokeEvent(r) \/ InvokeCancelled(r) \/ Stop(r)
  PROVE  BInv'
<1> DEFINE e == events[r][1]
           rest == Tail(events[r])
<1>1. /\ MayProcess(r) /\ now' = [now EXCEPT ![r] = e.ts] /\ events' = [events EXCEPT ![r] = rest]
      /\ e.kind # "null" /\ busy' \subseteq busy
      /\ UNCHANGED <<program, safe, guarantee, net, overlap>>
  BY DEF InvokeEvent, InvokeCancelled, Stop, ProcessOneEvent
<1>2. /\ StopTime \in Nat /\ ~ stop[r] /\ rest \in Seq(EventRecords)
      /\ e.ts \in Nat /\ e.ts <= StopTime
      /\ Good(rest, 0, StopTime) /\ NullsFor(rest, Neighbours(r))
      /\ e.kind # "stop" => HoldsStop(rest)
      /\ \A s \in Neighbours(r) : ~ IsNull(e, s) => OneNull(rest, s)
  BY <1>1, BaseEvent
<1>3. /\ program \in Programs /\ events \in [Ranks -> Seq(EventRecords)]
      /\ now \in [Ranks -> Nat] /\ stop \in [Ranks -> BOOLEAN]
      /\ pc \in [Ranks -> {"loop", "event", "poll", "done"}]
  BY DEF BInv, Shape
<1>4. /\ pc' \in [Ranks -> {"loop", "event", "poll", "done"}]
      /\ stop' = [stop EXCEPT ![r] = (e.kind = "stop")]
  <2>1. CASE InvokeEvent(r)
    BY <1>2, <1>3, <2>1 DEF InvokeEvent, ProcessOneEvent
  <2>2. CASE InvokeCancelled(r)
    BY <1>2, <1>3, <2>2 DEF InvokeCancelled, ProcessOneEvent
  <2>3. CASE Stop(r)
    BY <1>2, <1>3, <2>3 DEF Stop, ProcessOneEvent
  <2> QED
    BY <2>1, <2>2, <2>3
<1>5. Shape'
  <2>1. /\ now' \in [Ranks -> Nat] /\ events' \in [Ranks -> Seq(EventRecords)]
        /\ stop' \in [Ranks -> BOOLEAN]
    BY <1>1, <1>2, <1>3, <1>4
  <2> QED
    BY <1>1, <1>4, <2>1 DEF BInv, Shape
<1>6. Sound(events'[r], r, stop'[r])
  <2>1. events'[r] = rest /\ stop'[r] = (e.kind = "stop")
    BY <1>1, <1>3, <1>4
  <2> HIDE DEF e, rest
  <2>2. \A s \in Neighbours(r) : OneNull(rest, s)
    BY <1>1, <1>2 DEF IsNull
  <2> QED
    BY <1>2, <2>1, <2>2 DEF Sound
<1>7. now'[r] <= StopTime /\ overlap' \in BOOLEAN
  BY <1>1, <1>2, <1>3 DEF BInv
<1>8. \A x \in Ranks \ {r} : now'[x] = now[x] /\ events'[x] = events[x] /\ stop'[x] = stop[x]
  BY <1>1, <1>3, <1>4
<1> QED
  BY <1>1, <1>5, <1>6, <1>7, <1>8, RankBase

LEMMA NullMessageBase ==
  ASSUME BInv, NEW r \in Ranks, NullMessageEventHandler(r)
  PROVE  BInv'
<1> DEFINE e == events[r][1]
           rest == Tail(events[r])
           s == e.to
           d == delay[{r, s}]
           g == Min({rest[1].ts, safe[r]}) + d
           n == Event(e.ts + Pause(d), "null", s, 0)
<1>1. /\ MayProcess(r) /\ e.kind = "null"
      /\ now' = [now EXCEPT ![r] = e.ts]
      /\ net' = [net EXCEPT ![r][s] = Append(@, NullMessage(g))]
      /\ pc' = [pc EXCEPT ![r] = "poll"]
      /\ UNCHANGED <<program, safe, guarantee, stop, busy, overlap>>
  BY DEF NullMessageEventHandler, ProcessOneEvent, CalculateGuaranteeTime
<1>2. /\ StopTime \in Nat /\ ~ stop[r] /\ rest \in Seq(EventRecords) /\ e \in EventRecords
      /\ e.ts \in Nat /\ e.ts <= StopTime
      /\ Good(rest, 0, StopTime) /\ NullsFor(rest, Neighbours(r))
      /\ HoldsStop(rest) /\ s \in Neighbours(r)
      /\ \A t \in Neighbours(r) :
           (~ IsNull(e, t) => OneNull(rest, t)) /\ (IsNull(e, t) => NoNull(rest, t))
  BY <1>1, BaseEvent
<1>3. /\ events \in [Ranks -> Seq(EventRecords)] /\ now \in [Ranks -> Nat]
      /\ safe \in [Ranks -> Nat] /\ net \in [Ranks -> [Ranks -> Seq(Messages)]]
      /\ pc \in [Ranks -> {"loop", "event", "poll", "done"}]
  BY DEF BInv, Shape
<1>4. s \in Ranks /\ d \in Nat /\ Pause(d) \in Nat
  BY <1>2, ProgramFacts DEF BInv
<1>5. now'[r] = e.ts
  BY <1>1, <1>3
<1>6. events' = [events EXCEPT ![r] = Insert(rest, n)]
  BY <1>5 DEF NullMessageEventHandler
<1>7. rest[1].ts \in Nat /\ safe[r] \in Nat
  <2>1. rest # <<>>
    BY <1>2 DEF HoldsStop
  <2>2. 1 \in DOMAIN rest
    BY <1>2, <2>1
  <2> QED
    BY <1>2, <1>3, <2>2, ElementsTyped
<1> HIDE DEF rest, d, e
<1>8. g \in Nat
  <2>1. Min({rest[1].ts, safe[r]}) \in Nat
    BY <1>7, MinOfTwo
  <2> QED
    BY <1>4, <2>1
<1> HIDE DEF g
<1>9. NullMessage(g) \in Messages
  BY <1>8 DEF NullMessage, Messages
<1>10. n \in EventRecords /\ n.kind = "null" /\ n.to = s
  <2>1. e.ts + Pause(d) \in Nat
    BY <1>2, <1>4
  <2>2. n = [ts |-> e.ts + Pause(d), kind |-> "null", to |-> s, ch |-> 0]
    BY DEF Event
  <2> HIDE DEF n, s
  <2> QED
    BY <1>4, <2>1, <2>2 DEF EventRecords, Kinds
<1> HIDE DEF n
<1>11. Insert(rest, n) \in Seq(EventRecords) /\ Sound(Insert(rest, n), r, FALSE)
  <2>1. NoNull(rest, s) /\ \A t \in Neighbours(r) : t # s => OneNull(rest, t)
    BY <1>1, <1>2 DEF IsNull
  <2> HIDE DEF s
  <2> QED
    BY <1>2, <1>10, <2>1, SoundNull
<1>12. Shape'
  <2>1. /\ now' \in [Ranks -> Nat] /\ events' \in [Ranks -> Seq(EventRecords)]
        /\ pc' \in [Ranks -> {"loop", "event", "poll", "done"}]
    BY <1>1, <1>2, <1>3, <1>6, <1>11
  <2>2. net' \in [Ranks -> [Ranks -> Seq(Messages)]]
    <3> HIDE DEF s
    <3> QED
      BY <1>1, <1>3, <1>4, <1>9
  <2> QED
    BY <1>1, <2>1, <2>2 DEF BInv, Shape
<1>13. Sound(events'[r], r, stop'[r])
  <2>1. events'[r] = Insert(rest, n) /\ stop'[r] = stop[r]
    BY <1>1, <1>3, <1>6
  <2> QED
    BY <1>2, <1>11, <2>1 DEF Sound
<1>14. now'[r] <= StopTime /\ overlap' \in BOOLEAN
  BY <1>1, <1>2, <1>5 DEF BInv
<1>15. \A x \in Ranks \ {r} : now'[x] = now[x] /\ events'[x] = events[x] /\ stop'[x] = stop[x]
  BY <1>1, <1>3, <1>6
<1> QED
  BY <1>1, <1>12, <1>13, <1>14, <1>15, RankBase

LEMMA ScheduleBase ==
  ASSUME BInv, NEW r \in Ranks, NEW d \in Steps, Schedule(r, d)
  PROVE  BInv'
<1> DEFINE e == App(r, now[r] + d)
<1>1. /\ events' = [events EXCEPT ![r] = Insert(@, e)]
      /\ UNCHANGED <<program, now, safe, guarantee, stop, busy, net, pc, overlap>>
  BY DEF Schedule
<1>2. /\ events \in [Ranks -> Seq(EventRecords)] /\ now[r] \in Nat /\ d \in Nat /\ StopTime \in Nat
      /\ Sound(events[r], r, stop[r]) /\ now[r] <= StopTime
  BY TimesAssumption, ProgramFacts DEF BInv, Shape
<1>3. e \in EventRecords /\ e.kind \notin {"stop", "null"}
  BY <1>2 DEF App, Event, EventRecords, Kinds
<1> HIDE DEF e
<1>4. Insert(events[r], e) \in Seq(EventRecords) /\ Sound(Insert(events[r], e), r, stop[r])
  BY <1>2, <1>3, SoundInsert
<1>5. Shape' /\ overlap' \in BOOLEAN
  BY <1>1, <1>2, <1>4 DEF BInv, Shape
<1>6. /\ now'[r] <= StopTime /\ Sound(events'[r], r, stop'[r])
      /\ \A x \in Ranks \ {r} : now'[x] = now[x] /\ events'[x] = events[x] /\ stop'[x] = stop[x]
  BY <1>1, <1>2, <1>4
<1> QED
  BY <1>1, <1>5, <1>6, RankBase

LEMMA TransmitBase ==
  ASSUME BInv, NEW r \in Ranks, NEW s \in Ranks, NEW c \in Channels,
         NEW x \in TxTimes, TransmitStart(r, s, c, x)
  PROVE  BInv'
<1> DEFINE d == delay[{r, s}]
           w == program.delay[{r, s}][c]
           k == Event(now[r] + x, "complete", s, c)
           sent == Insert(events[r], k)
           g == Min({sent[1].ts, safe[r]}) + d
           m == [ts |-> now[r] + x + w, g |-> g]
           n == Event(now[r] + Pause(d), "null", s, 0)
           base == Cancelled(sent, s)
<1>1. /\ s \in Neighbours(r) /\ c \in channels({r, s})
      /\ busy' = busy \cup {<<r, s, c>>}
      /\ net' = [net EXCEPT ![r][s] = Append(@, m)]
      /\ events' = [events EXCEPT ![r] = Insert(base, n)]
      /\ overlap' = (overlap \/ \E b \in Channels : <<r, s, b>> \in busy)
      /\ UNCHANGED <<program, now, safe, guarantee, stop, pc>>
  BY DEF TransmitStart, CalculateGuaranteeTime, Reschedule
<1>2. /\ events \in [Ranks -> Seq(EventRecords)] /\ now[r] \in Nat /\ safe[r] \in Nat /\ x \in Nat
      /\ net \in [Ranks -> [Ranks -> Seq(Messages)]] /\ StopTime \in Nat
      /\ Sound(events[r], r, stop[r]) /\ now[r] <= StopTime
  BY TimesAssumption, ProgramFacts DEF BInv, Shape
<1>3. d \in Nat /\ Pause(d) \in Nat /\ w \in Nat
  BY <1>1, ProgramFacts DEF BInv
<1> HIDE DEF d, w
<1>4. k \in EventRecords /\ k.kind = "complete"
  <2>1. now[r] + x \in Nat /\ k = Event(now[r] + x, "complete", s, c)
    BY <1>2
  <2> HIDE DEF k
  <2> QED
    BY <2>1 DEF Event, EventRecords, Kinds
<1>5. n \in EventRecords /\ n.kind = "null" /\ n.to = s
  <2>1. now[r] + Pause(d) \in Nat /\ n = Event(now[r] + Pause(d), "null", s, 0)
    BY <1>2, <1>3
  <2> HIDE DEF n
  <2> QED
    BY <2>1 DEF Event, EventRecords, Kinds
<1> HIDE DEF k, n
<1>6. sent \in Seq(EventRecords) /\ Sound(sent, r, stop[r])
  BY <1>2, <1>4, SoundInsert
<1>7. sent[1].ts \in Nat
  <2>1. events[r] \in Seq(EventRecords) /\ InOrder(events[r])
    BY <1>2 DEF Sound, Good
  <2>2. sent # <<>>
    BY <1>4, <2>1, InsertElements
  <2> HIDE DEF sent
  <2>3. 1 \in DOMAIN sent
    BY <1>6, <2>2
  <2> QED
    BY <1>6, <2>3, ElementsTyped
<1> HIDE DEF sent
<1>8. g \in Nat /\ now[r] + x + w \in Nat
  <2>1. Min({sent[1].ts, safe[r]}) \in Nat
    BY <1>2, <1>7, MinOfTwo
  <2>2. \A q, p \in Nat : q + p \in Nat
    OBVIOUS
  <2>3. now[r] + x \in Nat
    BY <1>2, <2>2, Zenon
  <2>4. now[r] + x + w \in Nat
    BY <1>3, <2>2, <2>3, Zenon
  <2> QED
    BY <1>3, <2>1, <2>2, <2>4, Zenon
<1> HIDE DEF g
<1>9. m \in Messages
  BY <1>8 DEF Messages
<1> HIDE DEF m
<1>10. /\ base \in Seq(EventRecords) /\ Good(base, 0, StopTime)
       /\ ~ stop[r] => HoldsStop(base)
       /\ NullsFor(base, Neighbours(r)) /\ NoNull(base, s)
       /\ \A t \in Neighbours(r) : t # s => OneNull(base, t)
  <2>1. InOrder(sent) /\ Good(sent, 0, StopTime) /\ 0 \in Nat
    BY <1>6 DEF Sound, Good
  <2>2. /\ base \in Seq(EventRecords) /\ DOMAIN base = DOMAIN sent
        /\ \A i \in DOMAIN sent :
             /\ base[i].to = sent[i].to
             /\ base[i].kind = IF IsNull(sent[i], s) THEN "cancelled" ELSE sent[i].kind
    BY <1>6, <2>1, CancelledElements
  <2>3. Good(base, 0, StopTime) /\ (HoldsStop(sent) => HoldsStop(base))
    BY <1>2, <1>6, <2>1, CancelledGood
  <2>4. NoNull(base, s) /\ \A t : t # s /\ OneNull(sent, t) => OneNull(base, t)
    BY <1>6, <2>1, CancelledNulls
  <2> HIDE DEF base
  <2>5. NullsFor(base, Neighbours(r))
    BY <1>6, <2>2 DEF Sound, NullsFor
  <2> QED
    BY <1>6, <2>2, <2>3, <2>4, <2>5 DEF Sound
<1> HIDE DEF base
<1>11. Insert(base, n) \in Seq(EventRecords) /\ Sound(Insert(base, n), r, stop[r])
  BY <1>1, <1>2, <1>5, <1>10, SoundNull
<1>12. Shape'
  <2>1. events' \in [Ranks -> Seq(EventRecords)] /\ net' \in [Ranks -> [Ranks -> Seq(Messages)]]
    <3>1. events' \in [Ranks -> Seq(EventRecords)]
      BY <1>1, <1>2, <1>11
    <3>2. net[r][s] \in Seq(Messages)
      BY <1>2
    <3>3. Append(net[r][s], m) \in Seq(Messages)
      BY <1>9, <3>2
    <3>4. net' \in [Ranks -> [Ranks -> Seq(Messages)]]
      BY <1>1, <1>2, <3>3
    <3> QED
      BY <3>1, <3>4
  <2>2. busy' \subseteq Ranks \X Ranks \X Channels
    BY <1>1, SMTT(30) DEF BInv, Shape
  <2> QED
    BY <1>1, <2>1, <2>2 DEF BInv, Shape
<1>13. overlap' \in BOOLEAN
  BY <1>1
<1>14. /\ now'[r] <= StopTime /\ Sound(events'[r], r, stop'[r])
       /\ \A y \in Ranks \ {r} : now'[y] = now[y] /\ events'[y] = events[y] /\ stop'[y] = stop[y]
  BY <1>1, <1>2, <1>11
<1> QED
  BY <1>1, <1>12, <1>13, <1>14, RankBase

LEMMA ReceiveBase ==
  ASSUME BInv, NEW r \in Ranks, NEW s \in Ranks, ReceiveNonBlocking(r, s) \/ ReceiveBlocking(r, s)
  PROVE  BInv'
<1> DEFINE m == Head(net[s][r])
           e == App(r, m.ts)
<1>1. /\ net[s][r] # <<>> /\ net' = [net EXCEPT ![s][r] = Tail(@)]
      /\ guarantee' = [guarantee EXCEPT ![r][s] = m.g]
      /\ events' = IF m.ts = 0 THEN events ELSE [events EXCEPT ![r] = Insert(@, e)]
      /\ safe' = safe \/ safe' = [safe EXCEPT ![r] = SafeTime(r, guarantee'[r])]
      /\ UNCHANGED <<program, now, stop, busy, pc, overlap>>
  BY DEF ReceiveNonBlocking, ReceiveBlocking, Received
<1>2. /\ events \in [Ranks -> Seq(EventRecords)] /\ StopTime \in Nat
      /\ safe \in [Ranks -> Nat] /\ guarantee \in [Ranks -> [Ranks -> Nat]]
      /\ net \in [Ranks -> [Ranks -> Seq(Messages)]]
      /\ Sound(events[r], r, stop[r]) /\ now[r] <= StopTime
  BY ProgramFacts DEF BInv, Shape
<1>3. m \in Messages /\ Tail(net[s][r]) \in Seq(Messages)
  <2>1. net[s][r] \in Seq(Messages)
    BY <1>2
  <2> QED
    BY <1>1, <2>1
<1> HIDE DEF m
<1>4. m.ts \in Nat /\ m.g \in Nat
  BY <1>3 DEF Messages
<1>5. e \in EventRecords /\ e.kind \notin {"stop", "null"}
  BY <1>4 DEF App, Event, EventRecords, Kinds
<1> HIDE DEF e
<1>6. Insert(events[r], e) \in Seq(EventRecords) /\ Sound(Insert(events[r], e), r, stop[r])
  BY <1>2, <1>5, SoundInsert
<1>7. guarantee' \in [Ranks -> [Ranks -> Nat]]
  BY <1>1, <1>2, <1>4
<1>8. safe' \in [Ranks -> Nat]
  <2>1. SafeTime(r, guarantee'[r]) \in Nat
    BY <1>7, SafeTimeFacts DEF BInv
  <2> QED
    BY <1>1, <1>2, <2>1
<1>9. Shape' /\ overlap' \in BOOLEAN
  <2>1. events' \in [Ranks -> Seq(EventRecords)] /\ net' \in [Ranks -> [Ranks -> Seq(Messages)]]
    BY <1>1, <1>2, <1>3, <1>6
  <2> QED
    BY <1>1, <1>7, <1>8, <2>1 DEF BInv, Shape
<1>10. /\ now'[r] <= StopTime /\ Sound(events'[r], r, stop'[r])
       /\ \A x \in Ranks \ {r} : now'[x] = now[x] /\ events'[x] = events[x] /\ stop'[x] = stop[x]
  BY <1>1, <1>2, <1>6
<1> QED
  BY <1>1, <1>9, <1>10, RankBase

\* Steps that change neither the lists nor the time.
LEMMA ControlBase ==
  ASSUME BInv, NEW r \in Ranks,
         \/ StopNow(r) \/ EventReturns(r) \/ CalculateSafeTime(r)
         \/ ReceiveFromNobody(r) \/ RunReturns(r)
  PROVE  BInv'
<1>1. UNCHANGED <<program, events, now, guarantee, busy, net, overlap>>
  BY DEF StopNow, EventReturns, CalculateSafeTime, ReceiveFromNobody, RunReturns
<1>2. /\ pc \in [Ranks -> {"loop", "event", "poll", "done"}] /\ stop \in [Ranks -> BOOLEAN]
      /\ safe \in [Ranks -> Nat] /\ SafeTime(r, guarantee[r]) \in Nat
      /\ Sound(events[r], r, stop[r]) /\ now[r] <= StopTime
  BY SafeTimeFacts DEF BInv, Shape
<1>3. /\ pc' \in [Ranks -> {"loop", "event", "poll", "done"}] /\ safe' \in [Ranks -> Nat]
      /\ stop' = [stop EXCEPT ![r] = stop'[r]] /\ stop'[r] \in BOOLEAN /\ (stop[r] => stop'[r])
  <2>1. CASE StopNow(r)
    BY <1>2, <2>1 DEF StopNow
  <2>2. CASE EventReturns(r) \/ RunReturns(r)
    BY <1>2, <2>2 DEF EventReturns, RunReturns
  <2>3. CASE CalculateSafeTime(r) \/ ReceiveFromNobody(r)
    BY <1>2, <2>3 DEF CalculateSafeTime, ReceiveFromNobody
  <2> QED
    BY <2>1, <2>2, <2>3
<1>4. Shape' /\ overlap' \in BOOLEAN
  BY <1>1, <1>2, <1>3 DEF BInv, Shape
<1>5. /\ now'[r] <= StopTime /\ Sound(events'[r], r, stop'[r])
      /\ \A x \in Ranks \ {r} : now'[x] = now[x] /\ events'[x] = events[x] /\ stop'[x] = stop[x]
  BY <1>1, <1>2, <1>3 DEF Sound
<1> QED
  BY <1>1, <1>4, <1>5, RankBase

LEMMA BaseInvariant ==
  Spec => []BInv
<1>1. ASSUME Init PROVE BInv
  <2>1. IInv /\ overlap = FALSE
    BY <1>1, InitSound DEF Init
  <2>2. \A r \in Ranks : now[r] = 0 /\ stop[r] = FALSE
    BY <1>1 DEF Init
  <2>3. \A r \in Ranks : Sound(events[r], r, stop[r])
    BY <2>1, <2>2 DEF IInv, Lists, NullsDue, Sound
  <2> QED
    BY <2>1, <2>3 DEF BInv, IInv, Ends
<1>2. ASSUME BInv, [Next]_vars PROVE BInv'
  <2>1. CASE UNCHANGED vars
    <3>1. StopTime' = StopTime /\ \A x : Neighbours(x)' = Neighbours(x)
      BY <2>1, SameProgram DEF vars
    <3> QED
      BY <1>2, <2>1, <3>1 DEF vars, BInv, Shape, Sound
  <2>2. CASE Next
    BY <1>2, <2>2, ExecuteBase, NullMessageBase, ScheduleBase, TransmitBase, ReceiveBase,
       ControlBase DEF Next, RankStep, Blocked
  <2> QED
    BY <1>2, <2>1, <2>2
<1> QED
  BY <1>1, <1>2, PTL DEF Spec

-----------------------------------------------------------------------------
(* The theorems *)

\* Once parallel channels have transmitted at the same time, they have.
LEMMA OverlapStays ==
  ASSUME [Next]_vars, ~ overlap'
  PROVE  ~ overlap
<1>1. CASE UNCHANGED vars
  BY <1>1 DEF vars
<1>2. CASE Next
  <2>1. PICK r \in Ranks :
          \/ RankStep(r) \/ Blocked(r) \/ StopNow(r)
          \/ \E d \in Steps : Schedule(r, d)
          \/ \E s \in Ranks, c \in Channels, x \in TxTimes : TransmitStart(r, s, c, x)
          \/ \E s \in Ranks : ReceiveNonBlocking(r, s)
    BY <1>2 DEF Next
  <2>2. CASE RankStep(r)
    BY <2>2 DEF RankStep, InvokeEvent, NullMessageEventHandler, InvokeCancelled, Stop,
       EventReturns, CalculateSafeTime, ReceiveFromNobody, RunReturns
  <2>3. CASE Blocked(r) \/ StopNow(r) \/ \E s \in Ranks : ReceiveNonBlocking(r, s)
    BY <2>3 DEF Blocked, StopNow, ReceiveBlocking, ReceiveNonBlocking
  <2>4. CASE \E d \in Steps : Schedule(r, d)
    BY <2>4 DEF Schedule
  <2>5. CASE \E s \in Ranks, c \in Channels, x \in TxTimes : TransmitStart(r, s, c, x)
    <3>1. PICK s \in Ranks, c \in Channels, x \in TxTimes : TransmitStart(r, s, c, x)
      BY <2>5
    <3>2. overlap' = (overlap \/ \E b \in Channels : <<r, s, b>> \in busy)
      BY <3>1 DEF TransmitStart
    <3> QED
      BY <3>2
  <2> QED
    BY <2>1, <2>2, <2>3, <2>4, <2>5
<1> QED
  BY <1>1, <1>2

LEMMA NextSound ==
  ASSUME ~ overlap => IInv, [Next]_vars, ~ overlap'
  PROVE  IInv'
<1>0. ~ overlap /\ IInv
  <2>1. ~ overlap
    BY OverlapStays
  <2> QED
    BY <2>1
<1>1. CASE UNCHANGED vars
  <2>1. UNCHANGED <<program, events, now, safe, guarantee, stop, busy, net, pc>>
    BY <1>1 DEF vars
  <2>2. /\ delay' = delay /\ StopTime' = StopTime
        /\ \A x : Neighbours(x)' = Neighbours(x)
        /\ \A x : Pause(x)' = Pause(x)
    BY <2>1, SameProgram
  <2>3. Shape'
    BY <1>0, <2>1 DEF IInv, Shape
  <2>4. Lists' /\ Ends' /\ NullsDue'
    BY <1>0, <2>1, <2>2 DEF IInv, Lists, Ends, NullsDue
  <2>5. SafeSound' /\ OnlyNeighbours' /\ Chains'
    BY <1>0, <2>1, <2>2 DEF IInv, SafeSound, OnlyNeighbours, Chains
  <2>6. PromisesHold'
    BY <1>0, <2>1, <2>2 DEF IInv, PromisesHold, Keeps, Promise, Using
  <2> QED
    BY <2>3, <2>4, <2>5, <2>6 DEF IInv
<1>2. CASE Next
  <2>1. PICK r \in Ranks :
          \/ RankStep(r) \/ Blocked(r) \/ StopNow(r)
          \/ \E d \in Steps : Schedule(r, d)
          \/ \E s \in Ranks, c \in Channels, x \in TxTimes : TransmitStart(r, s, c, x)
          \/ \E s \in Ranks : ReceiveNonBlocking(r, s)
    BY <1>2 DEF Next
  <2>2. CASE RankStep(r)
    BY <1>0, <2>2, InvokeEventStep, NullMessageStep, InvokeCancelledStep, StopStep, EventReturnsStep,
       CalculateSafeTimeStep DEF RankStep
  <2>3. CASE Blocked(r)
    BY <1>0, <2>3, ReceiveBlockingStep DEF Blocked
  <2>4. CASE \E d \in Steps : Schedule(r, d)
    BY <1>0, <2>4, ScheduleStep
  <2>5. CASE \E s \in Ranks, c \in Channels, x \in TxTimes : TransmitStart(r, s, c, x)
    BY <1>0, <2>5, TransmitStep
  <2>6. CASE \E s \in Ranks : ReceiveNonBlocking(r, s)
    BY <1>0, <2>6, ReceiveNonBlockingStep
  <2>7. CASE StopNow(r)
    BY <1>0, <2>7, StopNowStep
  <2> QED
    BY <2>1, <2>2, <2>3, <2>4, <2>5, <2>6, <2>7
<1> QED
  BY <1>1, <1>2

LEMMA Invariant ==
  Spec => [](~ overlap => IInv)
<1>1. Init => (~ overlap => IInv)
  BY InitSound
<1>2. (~ overlap => IInv) /\ [Next]_vars => (~ overlap => IInv)'
  BY NextSound
<1> QED
  BY <1>1, <1>2, PTL DEF Spec

\* A rank keeps its guarantees: the messages it sends after one, packets and
\* guarantees, are no earlier (CalculateGuaranteeTime, SendPacket and the null
\* messages), whatever the topology, the channels, their delays and the program,
\* until two channels of a bundle transmit at the same time.
THEOREM GuaranteeKeptCorrect ==
  Spec => []GuaranteeKept
<1>1. (~ overlap => IInv) => GuaranteeKept
  BY DEF IInv, Chains, Chain, GuaranteeAt, GuaranteeKept
<1> QED
  BY <1>1, Invariant, PTL

\* None of the assertions about the time fails: no packet, guarantee or safe time
\* is in the past of the rank that gets it (ScheduleWithContext, ProcessOneEvent,
\* SetGuaranteeTime, CalculateSafeTime), with the same exception.
THEOREM NothingInThePastCorrect ==
  Spec => []NothingInThePast
<1>1. ASSUME ~ overlap => IInv, ~ overlap
      PROVE  NothingInThePast
  <2>1. Shape /\ SafeSound /\ OnlyNeighbours /\ Chains
    BY <1>1 DEF IInv
  <2>2. ASSUME NEW r \in Ranks PROVE safe[r] >= now[r] /\ safe[r] \in Nat /\ now[r] \in Nat
    BY <2>1 DEF Shape, SafeSound
  <2>3. ASSUME NEW r \in Ranks, NEW s \in Ranks, NEW i \in DOMAIN net[s][r]
        PROVE  /\ net[s][r][i].g >= now[r]
               /\ net[s][r][i].ts # 0 => net[s][r][i].ts >= now[r]
    <3>1. /\ net[s][r] \in Seq(Messages) /\ guarantee[r][s] \in Nat
          /\ Chain(net[s][r], guarantee[r][s])
      BY <2>1 DEF Shape, Chains
    <3>2. i \in 0 + 1 .. Len(net[s][r]) /\ 0 \in 0 .. Len(net[s][r]) /\ net[s][r] # <<>>
          /\ net[s][r][i] \in Messages
      BY <3>1
    <3>3. /\ net[s][r][i].g >= guarantee[r][s]
          /\ net[s][r][i].ts # 0 => net[s][r][i].ts >= guarantee[r][s]
      BY <3>1, <3>2 DEF Chain, GuaranteeAt
    <3>4. net[s][r][i].g \in Nat /\ net[s][r][i].ts \in Nat
      BY <3>2 DEF Messages
    <3>5. s \in Neighbours(r)
      BY <2>1, <3>2, ProgramFacts DEF OnlyNeighbours
    <3>6. safe[r] <= guarantee[r][s]
      BY <2>1, <3>5 DEF SafeSound
    <3> QED
      BY <2>2, <3>1, <3>3, <3>4, <3>6
  <2> QED
    BY <2>2, <2>3 DEF NothingInThePast
<1>2. (~ overlap => IInv) => NothingInThePast
  BY <1>1 DEF NothingInThePast
<1> QED
  BY <1>2, Invariant, PTL

\* The list of events has what Next and RescheduleNullMessageEvent rely on: it is
\* in order, holds the stop until it happens, and one null message per bundle,
\* parallel channels or not.
THEOREM BundlesSoundCorrect ==
  Spec => []BundlesSound
<1>1. ASSUME BInv PROVE BundlesSound
  <2>1. /\ Shape /\ overlap \in BOOLEAN
        /\ \A r \in Ranks : now[r] <= StopTime /\ Sound(events[r], r, stop[r])
    BY <1>1 DEF BInv
  <2>2. ASSUME NEW r \in Ranks
        PROVE  /\ \A i \in DOMAIN events[r] : events[r][i].ts \in Nat
               /\ \A i, j \in DOMAIN events[r] : i < j => events[r][i].ts <= events[r][j].ts
               /\ ~ stop[r] => \E i \in DOMAIN events[r] : events[r][i].kind = "stop"
    <3>1. events[r] \in Seq(EventRecords)
      BY <2>1 DEF Shape
    <3> QED
      BY <2>1, <3>1, ElementsTyped DEF Sound, Good, InOrder, HoldsStop
  <2>3. now \in [Ranks -> 0 .. StopTime]
    <3>1. StopTime \in Nat /\ now \in [Ranks -> Nat] /\ \A r \in Ranks : now[r] <= StopTime
      BY <2>1, ProgramFacts DEF Shape
    <3> QED
      BY <3>1
  <2>4. TypeOK
    <3>1. program.ranks \subseteq Ranks /\ program \in Programs
      BY <2>1, ProgramsAssumption DEF Shape
    <3> QED
      BY <2>1, <2>2, <2>3, <3>1 DEF TypeOK, Shape
  <2>5. NullMessageDue
    <3> SUFFICES ASSUME NEW r \in Ranks, NEW s \in Neighbours(r)
                 PROVE  Cardinality({i \in DOMAIN events[r] :
                          events[r][i].kind = "null" /\ events[r][i].to = s}) = 1
      BY DEF NullMessageDue
    <3>1. PICK i \in DOMAIN events[r] : IsNull(events[r][i], s)
      BY <2>1 DEF Sound, OneNull
    <3>2. \A j \in DOMAIN events[r] : IsNull(events[r][j], s) => j = i
      BY <2>1, <3>1 DEF Sound, OneNull
    <3>3. {j \in DOMAIN events[r] : events[r][j].kind = "null" /\ events[r][j].to = s} = {i}
      BY <3>1, <3>2 DEF IsNull
    <3> QED
      BY <3>3, FS_Singleton
  <2> QED
    BY <2>4, <2>5 DEF BundlesSound
<1> QED
  BY <1>1, BaseInvariant, PTL

\* A rank that has returned from Run, and was not stopped early, has executed all
\* that was due before the stop, and nothing that is still under way to it is due
\* before, whichever other ranks were stopped early.  The exception is the same.
THEOREM EndsCompleteCorrect ==
  Spec => []EndsComplete
<1>1. ASSUME ~ overlap => IInv, NothingInThePast PROVE EndsComplete
  <2> SUFFICES ASSUME ~ overlap, NEW r \in Ranks, pc[r] = "done", ~ StoppedEarly(r)
               PROVE  /\ \A i \in DOMAIN events[r] : events[r][i].ts >= StopTime
                      /\ \A s \in Ranks : \A i \in DOMAIN net[s][r] :
                           net[s][r][i].ts # 0 => net[s][r][i].ts >= StopTime
    BY DEF EndsComplete
  <2>1. Shape /\ Lists /\ Ends /\ OnlyNeighbours
    BY <1>1 DEF IInv
  <2>2. CASE stop[r]
    <3>1. now[r] = StopTime
      BY <2>1, <2>2 DEF Ends, StoppedEarly, HoldsStop
    <3> QED
      BY <1>1, <2>1, <3>1 DEF Lists, Good, NothingInThePast
  <2>3. CASE ~ stop[r]
    <3>1. Neighbours(r) = {} /\ \A i \in DOMAIN events[r] : events[r][i].ts >= StopTime
      BY <2>1, <2>3 DEF Ends
    <3>2. ASSUME NEW s \in Ranks PROVE net[s][r] = <<>>
      BY <2>1, <3>1, ProgramFacts DEF OnlyNeighbours
    <3> QED
      BY <3>1, <3>2
  <2> QED
    BY <2>2, <2>3
<1> QED
  BY <1>1, Invariant, NothingInThePastCorrect, PTL

=============================================================================
