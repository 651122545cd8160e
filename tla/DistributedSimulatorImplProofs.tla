------------------- MODULE DistributedSimulatorImplProofs -------------------
(***************************************************************************)
(* The granted time window is safe for every number of ranks, topology and *)
(* lookahead: proofs about DistributedSimulatorImpl.                       *)
(***************************************************************************)
EXTENDS DistributedSimulatorImpl, FiniteSetTheorems, WellFoundedInduction, TLAPS

(***************************************************************************)
(* The order of events                                                     *)
(***************************************************************************)

\* A set of natural numbers has a smallest element: its elements are compared
\* by the sets of the numbers below them, which are finite.
LEMMA SmallestExists ==
  ASSUME NEW T \in SUBSET Nat, T # {}
  PROVE  \E n \in T : \A m \in T : n <= m
<1> DEFINE R == OpToRel(<, Nat)
<1>1. \E n \in T : \A m \in T : ~ (<<m, n>> \in R)
  BY NatLessThanWellFounded, WFMin, Zenon
<1>2. PICK n \in T : \A m \in T : ~ (<<m, n>> \in R)
  BY <1>1, Zenon
<1>3. R = {p \in Nat \X Nat : p[1] < p[2]}
  BY Zenon DEF OpToRel
<1> HIDE DEF R
<1>4. \A m \in T : <<m, n>> \in Nat \X Nat /\ ~ (m < n)
  BY <1>2, <1>3
<1>5. \A m \in T : n \in Nat /\ m \in Nat /\ ~ (m < n)
  BY <1>4
<1>6. \A m \in T : n <= m
  BY <1>5
<1> QED
  BY <1>6, Zenon

\* The keys of the events in S are of natural numbers and tell them apart.
Keyed(S) ==
  /\ \A e \in S : e.ts \in Nat /\ e.uid \in Nat
  /\ \A e, f \in S : e.ts = f.ts /\ e.uid = f.uid => e = f

\* A scheduler that holds events has one to hand out next, and no event of the
\* scheduler is earlier.
LEMMA EarliestExists ==
  ASSUME NEW S, S # {}, Keyed(S)
  PROVE  /\ Earliest(S) \in S
         /\ \A f \in S \ {Earliest(S)} : Before(Earliest(S), f)
         /\ \A f \in S : Earliest(S).ts <= f.ts
<1> DEFINE times == {e.ts : e \in S}
<1>1. times \in SUBSET Nat /\ times # {}
  BY DEF Keyed
<1>2. PICK t \in times : \A u \in times : t <= u
  BY <1>1, SmallestExists, Zenon
<1> DEFINE uids == {e.uid : e \in {f \in S : f.ts = t}}
<1>3. uids \in SUBSET Nat /\ uids # {}
  BY DEF Keyed
<1>4. PICK u \in uids : \A v \in uids : u <= v
  BY <1>3, SmallestExists, Zenon
<1>5. PICK e \in S : e.ts = t /\ e.uid = u
  OBVIOUS
<1>6. \A f \in S \ {e} : Before(e, f)
  <2> SUFFICES ASSUME NEW f \in S, f # e PROVE Before(e, f)
    OBVIOUS
  <2>1. t <= f.ts /\ f.ts \in Nat /\ f.uid \in Nat /\ t \in Nat /\ u \in Nat
    BY <1>2, <1>5 DEF Keyed
  <2>2. CASE f.ts = t
    <3>1. u <= f.uid
      BY <1>4, <2>2
    <3>2. f.uid # u
      BY <1>5, <2>2 DEF Keyed
    <3> QED
      BY <1>5, <2>1, <2>2, <3>1, <3>2 DEF Before
  <2>3. CASE f.ts # t
    BY <1>5, <2>1, <2>3 DEF Before
  <2> QED
    BY <2>2, <2>3
<1>7. /\ Earliest(S) \in S
      /\ \A f \in S \ {Earliest(S)} : Before(Earliest(S), f)
  BY <1>6 DEF Earliest
<1>8. \A f \in S : Earliest(S).ts <= f.ts
  BY <1>7 DEF Before, Keyed
<1> QED
  BY <1>7, <1>8

(***************************************************************************)
(* The inductive invariant                                                 *)
(***************************************************************************)

\* Types that TypeOK leaves open.
Shape ==
  /\ delay \in Topologies
  /\ lookAhead \in [Ranks -> Nat]
  /\ events \in [Ranks -> SUBSET [ts : 0 .. MaxTime, uid : 0 .. MaxEvents]]
  /\ net \subseteq [to : Ranks, ts : 0 .. MaxTime, uid : 1 .. MaxEvents]
  /\ used \in 0 .. MaxEvents

\* The lookahead of a rank is no more than the delay of any of its channels.
LookAheadSound ==
  \A r \in Ranks : \A s \in Linked(r) : lookAhead[r] <= delay[{r, s}]

\* Whatever is still to happen anywhere, or is under way, lies at most the
\* lookahead of r behind the granted time of r.  This is stronger than
\* GrantSafe in that it speaks of ranks that are not neighbours of r too, from
\* which r may be reached through others.
Floor ==
  \A r \in Ranks :
    /\ \A m \in net : granted[r] <= m.ts + lookAhead[r]
    /\ \A s \in Ranks :
         /\ ~ stop[s] => \A e \in events[s] : granted[r] <= e.ts + lookAhead[r]
         /\ pc[s] = "event" => granted[r] <= now[s] + lookAhead[r]

\* A rank stays within its window and messages arrive beyond it; nothing in the
\* event list is in the past.
Windows ==
  /\ \A r \in Ranks : now[r] <= granted[r]
  /\ \A m \in net : granted[m.to] <= m.ts
  /\ \A r \in Ranks : \A e \in events[r] : now[r] <= e.ts

\* The counters tell how many messages are under way; each has an identity of
\* its own.
Counts ==
  /\ IsFiniteSet(net)
  /\ Cardinality(net) + Total(rx) = Total(tx)
  /\ Total(tx) <= used
  /\ \A m \in net : m.uid <= used

IInv == TypeOK /\ Shape /\ LookAheadSound /\ Floor /\ Windows /\ Counts /\ EndsTogether

(***************************************************************************)
(* Sums of counters                                                        *)
(***************************************************************************)

\* The increments of all ranks are finitely many.
LEMMA TalliesFinite ==
  ASSUME NEW c \in [Ranks -> Nat]
  PROVE  IsFiniteSet(Tallies(c)) /\ Total(c) \in Nat
<1> DEFINE part(r) == {r} \X (1 .. c[r])
           S == {part(r) : r \in Ranks}
           F == [r \in Ranks |-> part(r)]
<1>1. F \in Surjection(Ranks, S)
  BY DEF Surjection
<1>2. IsFiniteSet(S)
  BY <1>1, FS_Surjection, RanksAssumption
<1>3. ASSUME NEW r \in Ranks PROVE IsFiniteSet(part(r))
  <2>1. IsFiniteSet(1 .. c[r])
    BY FS_Interval
  <2>2. IsFiniteSet({r})
    BY FS_Singleton
  <2> QED
    BY <2>1, <2>2, FS_Product
<1>4. IsFiniteSet(UNION S)
  BY <1>2, <1>3, FS_UNION
<1> QED
  BY <1>4, FS_CardinalityType DEF Tallies, Total

\* Counting once more at one rank adds one to the sum.
LEMMA TotalAdd ==
  ASSUME NEW c \in [Ranks -> Nat], NEW r \in Ranks
  PROVE  Total([c EXCEPT ![r] = @ + 1]) = Total(c) + 1
<1> DEFINE d == [c EXCEPT ![r] = @ + 1]
           new == <<r, c[r] + 1>>
<1>1. \A s \in Ranks : d[s] = IF s = r THEN c[s] + 1 ELSE c[s]
  OBVIOUS
<1>2. Tallies(d) = Tallies(c) \cup {new}
  BY <1>1 DEF Tallies
<1>3. new \notin Tallies(c)
  BY DEF Tallies
<1> QED
  BY <1>2, <1>3, TalliesFinite, FS_AddElement DEF Total

\* The count of one rank is part of the sum.
LEMMA TotalBounds ==
  ASSUME NEW c \in [Ranks -> Nat], NEW r \in Ranks
  PROVE  c[r] <= Total(c)
<1> DEFINE part == {r} \X (1 .. c[r])
<1>1. part \in SUBSET Tallies(c)
  BY DEF Tallies
<1>2. Cardinality(part) <= Total(c)
  BY <1>1, TalliesFinite, FS_Subset DEF Total
<1>3. IsFiniteSet(1 .. c[r]) /\ Cardinality(1 .. c[r]) = c[r]
  BY FS_Interval
<1>4. IsFiniteSet({r}) /\ Cardinality({r}) = 1
  BY FS_Singleton
<1>5. Cardinality(part) = 1 * c[r]
  BY <1>3, <1>4, FS_Product
<1> QED
  BY <1>2, <1>5

\* Nothing counted.
LEMMA TotalZero == Total([r \in Ranks |-> 0]) = 0
<1>1. Tallies([r \in Ranks |-> 0]) = {}
  BY DEF Tallies
<1> QED
  BY <1>1, FS_EmptySet DEF Total

(***************************************************************************)
(* Lookahead                                                               *)
(***************************************************************************)

\* A set of times has a smallest and, within a bound, a largest element.
LEMMA MinTime ==
  ASSUME NEW T \in SUBSET Nat, T # {}
  PROVE  Min(T) \in T /\ \A n \in T : Min(T) <= n
<1>1. \E n \in T : \A m \in T : n <= m
  BY SmallestExists
<1> QED
  BY <1>1 DEF Min

LEMMA MaxTimeExists ==
  ASSUME NEW T \in SUBSET Nat, T # {}, NEW b \in Nat, \A n \in T : n <= b
  PROVE  Max(T) \in T
<1> DEFINE U == {b - n : n \in T}
<1>1. U \in SUBSET Nat /\ U # {}
  <2>1. \A n \in T : b - n \in Nat
    OBVIOUS
  <2> QED
    BY <2>1
<1>2. PICK u \in U : \A v \in U : u <= v
  BY <1>1, SmallestExists, Zenon
<1>3. PICK n \in T : u = b - n
  OBVIOUS
<1>4. \A m \in T : n >= m
  BY <1>2, <1>3
<1> QED
  BY <1>4 DEF Max

\* Two ranks make a link.
LEMMA LinkOfTwo ==
  ASSUME NEW r \in Ranks, NEW s \in Ranks, r # s
  PROVE  {r, s} \in Links
<1>1. IsFiniteSet({r}) /\ Cardinality({r}) = 1
  BY FS_Singleton
<1>2. Cardinality({r} \cup {s}) = 2
  BY <1>1, FS_AddElement
<1>3. {r} \cup {s} = {r, s}
  OBVIOUS
<1> QED
  BY <1>2, <1>3 DEF Links

\* CalculateLookAhead yields a time, and for a rank with channels to others no
\* more than the shortest of their delays.
LEMMA LookAheadCorrect ==
  ASSUME NEW d \in Topologies, NEW b \in Bounds
  PROVE  /\ LookAhead(d, b) \in [Ranks -> Nat]
         /\ \A r \in Ranks : \A s \in Ranks \ {r} :
              d[{r, s}] # Infinity => LookAhead(d, b)[r] <= d[{r, s}]
<1> DEFINE own(r) == Min({b} \cup {d[p] : p \in {q \in Links : r \in q}})
           O == {0} \cup ({own(r) : r \in Ranks} \ {Infinity})
           max == Max(O)
<1>1. d \in [Links -> (0 .. MaxTime) \cup {Infinity}] /\ b \in Nat /\ b <= Infinity
  BY TopologiesAssumption, TimesAssumption
<1>2. \A p \in Links : d[p] \in Nat /\ d[p] <= Infinity /\ (d[p] # Infinity => d[p] < Infinity)
  BY <1>1, TimesAssumption
<1>3. ASSUME NEW r \in Ranks
      PROVE  /\ own(r) \in Nat /\ own(r) <= Infinity
             /\ \A p \in Links : r \in p => own(r) <= d[p]
  <2> DEFINE T == {b} \cup {d[p] : p \in {q \in Links : r \in q}}
  <2>1. T \in SUBSET Nat /\ T # {} /\ \A t \in T : t <= Infinity
    BY <1>1, <1>2
  <2>2. Min(T) \in T /\ \A n \in T : Min(T) <= n
    BY <2>1, MinTime
  <2> QED
    BY <2>1, <2>2
<1>4. max \in Nat
  <2> HIDE DEF own
  <2>1. O \in SUBSET Nat /\ O # {} /\ \A n \in O : n <= Infinity
    BY <1>3, TimesAssumption
  <2>2. max \in O
    BY <2>1, MaxTimeExists, TimesAssumption
  <2> QED
    BY <2>1, <2>2
<1>5. LookAhead(d, b) = [r \in Ranks |->
         IF Cardinality(Ranks) <= 1 THEN 0
         ELSE IF own(r) = Infinity /\ max # 0 THEN max ELSE own(r)]
  BY DEF LookAhead
<1>6. ASSUME NEW r \in Ranks, NEW s \in Ranks \ {r}, d[{r, s}] # Infinity
      PROVE  LookAhead(d, b)[r] <= d[{r, s}]
  <2>1. {r, s} \in Links
    BY LinkOfTwo
  <2>2. own(r) <= d[{r, s}] /\ own(r) \in Nat
    BY <1>3, <2>1
  <2>3. own(r) # Infinity /\ d[{r, s}] \in Nat
    BY <1>2, <1>6, <2>1, <2>2, TimesAssumption
  <2> HIDE DEF own, max
  <2> QED
    BY <1>5, <2>2, <2>3
<1> HIDE DEF own, max
<1> QED
  BY <1>3, <1>4, <1>5, <1>6

(***************************************************************************)
(* Invariance                                                              *)
(***************************************************************************)

\* The invariant holds when Run starts.
LEMMA InitIInv == Init => IInv
<1> SUFFICES ASSUME Init PROVE IInv
  OBVIOUS
<1>1. PICK b \in Bounds : lookAhead = LookAhead(delay, b)
  BY DEF Init
<1>2. delay \in Topologies
  BY DEF Init
<1>3. /\ lookAhead \in [Ranks -> Nat]
      /\ \A r \in Ranks : \A s \in Ranks \ {r} :
           delay[{r, s}] # Infinity => lookAhead[r] <= delay[{r, s}]
  BY <1>1, <1>2, LookAheadCorrect
<1>4. \A r \in Ranks : \A e \in events[r] : e = [ts |-> 0, uid |-> 0]
  BY DEF Init
<1>5. TypeOK
  BY <1>3, <1>4, TimesAssumption, RanksAssumption DEF Init, TypeOK
<1>6. Shape
  BY <1>2, <1>3, <1>4, TimesAssumption, RanksAssumption DEF Init, Shape
<1>7. LookAheadSound
  BY <1>3 DEF LookAheadSound, Linked
<1>8. Floor /\ Windows
  BY <1>3, <1>4 DEF Init, Floor, Windows
<1>9. Counts
  <2>1. Total(tx) = 0 /\ Total(rx) = 0
    BY TotalZero DEF Init
  <2> QED
    BY <2>1, FS_EmptySet DEF Init, Counts
<1>10. EndsTogether
  BY DEF Init, EndsTogether
<1> QED
  BY <1>5, <1>6, <1>7, <1>8, <1>9, <1>10 DEF IInv

\* The next event of a rank that is not finished.
LEMMA NextEvent ==
  ASSUME IInv, NEW r \in Ranks, events[r] # {}
  PROVE  /\ Earliest(events[r]) \in events[r]
         /\ \A e \in events[r] : Earliest(events[r]).ts <= e.ts
<1>1. events[r] \subseteq [ts : 0 .. MaxTime, uid : 0 .. MaxEvents]
  BY DEF IInv, Shape
<1>2. Keyed(events[r])
  BY <1>1, TimesAssumption, RanksAssumption DEF Keyed
<1> QED
  BY <1>2, EarliestExists

\* No message is under way exactly when the counters agree.
LEMMA TransientsCounted ==
  ASSUME IInv
  PROVE  NoTransients <=> net = {}
<1>1. tx \in [Ranks -> Nat] /\ rx \in [Ranks -> Nat]
  BY RanksAssumption DEF IInv, TypeOK
<1>2. Total(tx) \in Nat /\ Total(rx) \in Nat
  BY <1>1, TalliesFinite
<1>3. Cardinality(net) \in Nat /\ (Cardinality(net) = 0 <=> net = {})
  BY FS_CardinalityType, FS_EmptySet DEF IInv, Counts
<1> QED
  BY <1>2, <1>3 DEF IInv, Counts, NoTransients

\* An event is executed.
LEMMA ProcessOneEventStep ==
  ASSUME IInv, NEW r \in Ranks, ProcessOneEvent(r)
  PROVE  IInv'
<1> DEFINE next == Earliest(events[r])
<1>1. events[r] # {} /\ ~ stop[r] /\ next.ts <= granted[r] /\ pc[r] = "loop"
  BY DEF ProcessOneEvent, MayProcess, IsLocalFinished, NextTs
<1>2. /\ next \in events[r]
      /\ \A e \in events[r] : next.ts <= e.ts
  BY <1>1, NextEvent
<1>3. /\ events' = [events EXCEPT ![r] = @ \ {next}]
      /\ now' = [now EXCEPT ![r] = next.ts]
      /\ pc' = [pc EXCEPT ![r] = "event"]
      /\ UNCHANGED <<delay, lookAhead, granted, stop, tx, rx, net, used>>
  BY DEF ProcessOneEvent
<1>4. next.ts \in 0 .. MaxTime /\ now[r] <= next.ts
  BY <1>2 DEF IInv, Shape, Windows
<1> HIDE DEF next
<1>5. \A s \in Ranks : events'[s] \subseteq events[s]
  BY <1>3 DEF IInv, Shape
<1>6. TypeOK'
  BY <1>3, <1>4, <1>5 DEF IInv, TypeOK, Shape
<1>7. Shape'
  BY <1>3, <1>5 DEF IInv, Shape
<1>8. LookAheadSound'
  BY <1>3 DEF IInv, LookAheadSound, Linked
<1>9. Floor'
  BY <1>1, <1>2, <1>3, <1>5 DEF IInv, Floor, TypeOK
<1>10. Windows'
  BY <1>1, <1>2, <1>3, <1>4, <1>5 DEF IInv, Windows, TypeOK
<1>11. Counts'
  BY <1>3 DEF IInv, Counts, Total, Tallies
<1>12. EndsTogether'
  BY <1>1, <1>3 DEF IInv, EndsTogether, TypeOK
<1> QED
  BY <1>6, <1>7, <1>8, <1>9, <1>10, <1>11, <1>12 DEF IInv

\* An event schedules another.
LEMMA ScheduleStep ==
  ASSUME IInv, NEW r \in Ranks, NEW d \in Steps, Schedule(r, d)
  PROVE  IInv'
<1> DEFINE new == [ts |-> now[r] + d, uid |-> used + 1]
<1>1. pc[r] = "event" /\ used < MaxEvents /\ now[r] + d <= MaxTime
  BY DEF Schedule
<1>2. /\ events' = [events EXCEPT ![r] = @ \cup {new}]
      /\ used' = used + 1
      /\ UNCHANGED <<delay, lookAhead, now, granted, stop, tx, rx, net, pc>>
  BY DEF Schedule
<1>3. d \in Nat /\ now[r] \in Nat /\ granted \in [Ranks -> Nat] /\ lookAhead \in [Ranks -> Nat]
  BY TimesAssumption DEF IInv, TypeOK, Shape
<1>4. new \in [ts : 0 .. MaxTime, uid : 0 .. MaxEvents] /\ new.ts = now[r] + d
  BY <1>1, <1>3, RanksAssumption, TimesAssumption DEF IInv, Shape
<1> HIDE DEF new
<1>5. \A s \in Ranks : events'[s] = IF s = r THEN events[s] \cup {new} ELSE events[s]
  BY <1>2 DEF IInv, Shape
<1>6. TypeOK'
  BY <1>2, <1>4, <1>5 DEF IInv, TypeOK
<1>7. Shape'
  BY <1>1, <1>2, <1>4, <1>5, RanksAssumption DEF IInv, Shape
<1>8. LookAheadSound'
  BY <1>2 DEF IInv, LookAheadSound, Linked
<1>9. Floor'
  <2>1. \A q \in Ranks : granted[q] <= new.ts + lookAhead[q]
    BY <1>1, <1>3, <1>4 DEF IInv, Floor
  <2> QED
    BY <1>2, <1>5, <2>1 DEF IInv, Floor
<1>10. Windows'
  BY <1>2, <1>3, <1>4, <1>5 DEF IInv, Windows
<1>11. Counts'
  <2>1. Total(tx)' = Total(tx) /\ Total(rx)' = Total(rx)
    BY <1>2 DEF Total, Tallies
  <2>2. Total(tx) \in Nat
    BY TalliesFinite, RanksAssumption DEF IInv, TypeOK
  <2> QED
    BY <1>2, <2>1, <2>2, RanksAssumption DEF IInv, Counts, Shape
<1>12. EndsTogether'
  BY <1>1, <1>2 DEF IInv, EndsTogether
<1> QED
  BY <1>6, <1>7, <1>8, <1>9, <1>10, <1>11, <1>12 DEF IInv

\* An event sends a packet to a neighbour: it arrives beyond the window of the
\* receiver, the lookahead of which is no more than the delay of the channel.
LEMMA SendPacketStep ==
  ASSUME IInv, NEW r \in Ranks, NEW s \in Linked(r), NEW x \in Extra,
         SendPacket(r, s, x)
  PROVE  IInv'
<1> DEFINE m == [to |-> s, ts |-> now[r] + delay[{r, s}] + x, uid |-> used + 1]
<1>1. /\ pc[r] = "event" /\ used < MaxEvents
      /\ now[r] + delay[{r, s}] + x <= MaxTime
  BY DEF SendPacket
<1>2. /\ net' = net \cup {m}
      /\ tx' = [tx EXCEPT ![r] = @ + 1]
      /\ used' = used + 1
      /\ UNCHANGED <<delay, lookAhead, events, now, granted, stop, rx, pc>>
  BY DEF SendPacket
<1>3. s \in Ranks /\ s # r /\ delay[{r, s}] # Infinity /\ {r, s} = {s, r}
  BY DEF Linked
<1>4. delay[{r, s}] \in Nat
  BY <1>3, LinkOfTwo, TopologiesAssumption, TimesAssumption DEF IInv, Shape
<1>5. lookAhead[s] <= delay[{r, s}]
  BY <1>3 DEF IInv, LookAheadSound, Linked
<1>6. /\ x \in Nat /\ now[r] \in Nat /\ granted \in [Ranks -> Nat]
      /\ lookAhead \in [Ranks -> Nat] /\ used \in Nat
  BY TimesAssumption, RanksAssumption DEF IInv, TypeOK, Shape
<1>7. /\ m \in [to : Ranks, ts : 0 .. MaxTime, uid : 1 .. MaxEvents]
      /\ m.to = s /\ m.uid = used + 1
      /\ m.ts = now[r] + delay[{r, s}] + x
  BY <1>1, <1>3, <1>4, <1>6, RanksAssumption, TimesAssumption
<1>8. \A q \in Ranks : granted[q] <= now[r] + lookAhead[q]
  BY <1>1 DEF IInv, Floor
<1>9. granted[s] <= m.ts
  BY <1>3, <1>4, <1>5, <1>6, <1>7, <1>8
<1>10. \A q \in Ranks : granted[q] <= m.ts + lookAhead[q]
  BY <1>4, <1>6, <1>7, <1>8
<1> HIDE DEF m
<1>11. m \notin net
  BY <1>6, <1>7 DEF IInv, Counts, Shape
<1>12. tx \in [Ranks -> Nat] /\ rx \in [Ranks -> Nat]
  BY RanksAssumption DEF IInv, TypeOK
<1>13. Total(tx)' = Total(tx) + 1 /\ Total(rx)' = Total(rx)
  <2>1. Total(rx)' = Total(rx)
    BY <1>2 DEF Total, Tallies
  <2>2. Total(tx)' = Total([tx EXCEPT ![r] = @ + 1])
    BY <1>2 DEF Total, Tallies
  <2> QED
    BY <1>12, <2>1, <2>2, TotalAdd
<1>14. Counts'
  <2>1. IsFiniteSet(net') /\ Cardinality(net') = Cardinality(net) + 1
    BY <1>2, <1>11, FS_AddElement DEF IInv, Counts
  <2>2. Total(tx) \in Nat /\ Total(rx) \in Nat /\ Cardinality(net) \in Nat
    BY <1>12, TalliesFinite, FS_CardinalityType DEF IInv, Counts
  <2> QED
    BY <1>2, <1>6, <1>7, <1>13, <2>1, <2>2 DEF IInv, Counts, Shape
<1>15. TypeOK'
  <2>1. tx'[r] <= MaxEvents
    <3>1. tx' \in [Ranks -> Nat]
      BY <1>2, <1>12
    <3>2. tx'[r] <= Total(tx')
      BY <3>1, TotalBounds
    <3>3. Total(tx') = Total(tx)' /\ Total(tx') \in Nat /\ tx'[r] \in Nat
      BY <3>1, TalliesFinite DEF Total, Tallies
    <3>4. Total(tx)' <= used'
      BY <1>14 DEF Counts
    <3> QED
      BY <1>1, <1>2, <1>6, <3>2, <3>3, <3>4, RanksAssumption
  <2> QED
    BY <1>2, <1>7, <1>12, <2>1, RanksAssumption DEF IInv, TypeOK
<1>16. Shape'
  BY <1>1, <1>2, <1>7, RanksAssumption DEF IInv, Shape
<1>17. LookAheadSound'
  BY <1>2 DEF IInv, LookAheadSound, Linked
<1>18. Floor'
  BY <1>2, <1>10 DEF IInv, Floor
<1>19. Windows'
  BY <1>2, <1>7, <1>9 DEF IInv, Windows
<1>20. EndsTogether'
  BY <1>1, <1>2 DEF IInv, EndsTogether
<1> QED
  BY <1>14, <1>15, <1>16, <1>17, <1>18, <1>19, <1>20 DEF IInv

\* A message is received.
LEMMA ReceiveMessageStep ==
  ASSUME IInv, NEW r \in Ranks, NEW m \in net, ReceiveMessage(r, m)
  PROVE  IInv'
<1> DEFINE new == [ts |-> m.ts, uid |-> m.uid]
<1>1. pc[r] = "receive" /\ m.to = r
  BY DEF ReceiveMessage
<1>2. /\ net' = net \ {m}
      /\ rx' = [rx EXCEPT ![r] = @ + 1]
      /\ events' = [events EXCEPT ![r] = @ \cup {new}]
      /\ UNCHANGED <<delay, lookAhead, now, granted, stop, tx, pc, used>>
  BY DEF ReceiveMessage
<1>3. m \in [to : Ranks, ts : 0 .. MaxTime, uid : 1 .. MaxEvents]
  BY DEF IInv, Shape
<1>4. new \in [ts : 0 .. MaxTime, uid : 0 .. MaxEvents] /\ new.ts = m.ts /\ m.ts \in Nat
  BY <1>3, TimesAssumption, RanksAssumption
<1> HIDE DEF new
<1>5. \A s \in Ranks : events'[s] = IF s = r THEN events[s] \cup {new} ELSE events[s]
  BY <1>2 DEF IInv, Shape
<1>6. tx \in [Ranks -> Nat] /\ rx \in [Ranks -> Nat]
  BY RanksAssumption DEF IInv, TypeOK
<1>7. Total(rx)' = Total(rx) + 1 /\ Total(tx)' = Total(tx)
  <2>1. Total(tx)' = Total(tx)
    BY <1>2 DEF Total, Tallies
  <2>2. Total(rx)' = Total([rx EXCEPT ![r] = @ + 1])
    BY <1>2 DEF Total, Tallies
  <2> QED
    BY <1>6, <2>1, <2>2, TotalAdd
<1>8. Counts'
  <2>1. IsFiniteSet(net') /\ Cardinality(net') = Cardinality(net) - 1
    BY <1>2, FS_RemoveElement DEF IInv, Counts
  <2>2. Total(tx) \in Nat /\ Total(rx) \in Nat /\ Cardinality(net) \in Nat
    BY <1>6, TalliesFinite, FS_CardinalityType DEF IInv, Counts
  <2> QED
    BY <1>2, <1>7, <2>1, <2>2 DEF IInv, Counts
<1>9. TypeOK'
  <2>1. rx'[r] <= MaxEvents
    <3>1. rx' \in [Ranks -> Nat]
      BY <1>2, <1>6
    <3>2. rx'[r] <= Total(rx')
      BY <3>1, TotalBounds
    <3>3. Total(rx') = Total(rx)' /\ Total(rx') \in Nat /\ rx'[r] \in Nat
      BY <3>1, TalliesFinite DEF Total, Tallies
    <3>4. Cardinality(net)' + Total(rx)' = Total(tx)' /\ Total(tx)' <= used'
      BY <1>8 DEF Counts
    <3>5. Cardinality(net)' \in Nat /\ Total(tx)' \in Nat /\ used' \in 0 .. MaxEvents
      BY <1>2, <1>6, <1>7, <1>8, TalliesFinite, FS_CardinalityType
         DEF Counts, IInv, Shape
    <3> QED
      BY <3>2, <3>3, <3>4, <3>5, RanksAssumption
  <2> QED
    BY <1>2, <1>4, <1>5, <1>6, <2>1, RanksAssumption DEF IInv, TypeOK
<1>10. Shape'
  BY <1>2, <1>4, <1>5 DEF IInv, Shape
<1>11. LookAheadSound'
  BY <1>2 DEF IInv, LookAheadSound, Linked
<1>12. Floor'
  BY <1>2, <1>4, <1>5 DEF IInv, Floor
<1>13. Windows'
  <2>1. now[r] <= m.ts
    <3>1. now[r] <= granted[r] /\ granted[r] <= m.ts
      BY <1>1 DEF IInv, Windows
    <3>2. now[r] \in Nat /\ granted[r] \in Nat
      BY TimesAssumption DEF IInv, TypeOK
    <3> QED
      BY <1>4, <3>1, <3>2
  <2> QED
    BY <1>2, <1>4, <1>5, <2>1 DEF IInv, Windows
<1>14. EndsTogether'
  BY <1>1, <1>2 DEF IInv, EndsTogether
<1> QED
  BY <1>8, <1>9, <1>10, <1>11, <1>12, <1>13, <1>14 DEF IInv

\* A rank that moves on in Run, or stops, leaves times and messages alone.
LEMMA LocalStep ==
  ASSUME IInv, NEW r \in Ranks,
         \/ Stop(r) \/ EventReturns(r) \/ NeedWindow(r) \/ JoinGather(r)
  PROVE  IInv'
<1>1. /\ pc[r] # "done"
      /\ UNCHANGED <<delay, lookAhead, events, now, granted, tx, rx, net, used>>
  BY DEF Stop, EventReturns, NeedWindow, JoinGather
<1>2. \/ pc' = pc /\ stop' = [stop EXCEPT ![r] = TRUE]
      \/ \E to \in {"loop", "receive", "gather"} :
           pc' = [pc EXCEPT ![r] = to] /\ stop' = stop
  BY DEF Stop, EventReturns, NeedWindow, JoinGather
<1>3. /\ \A s \in Ranks : stop[s] => stop'[s]
      /\ \A s \in Ranks : pc'[s] = "event" => pc[s] = "event"
      /\ stop' \in [Ranks -> BOOLEAN]
      /\ pc' \in [Ranks -> {"loop", "event", "receive", "gather", "done"}]
      /\ \A s \in Ranks : pc'[s] = "done" => pc[s] = "done"
  BY <1>2 DEF IInv, TypeOK
<1>4. TypeOK' /\ Shape' /\ LookAheadSound'
  BY <1>1, <1>3 DEF IInv, TypeOK, Shape, LookAheadSound, Linked
<1>5. Floor'
  BY <1>1, <1>3 DEF IInv, Floor
<1>6. Windows'
  BY <1>1 DEF IInv, Windows
<1>7. Counts'
  BY <1>1 DEF IInv, Counts, Total, Tallies
<1>8. EndsTogether'
  BY <1>1, <1>3 DEF IInv, EndsTogether
<1> QED
  BY <1>4, <1>5, <1>6, <1>7, <1>8 DEF IInv

\* The gather: with nothing under way the windows move to the smallest time of
\* all ranks, and no window moves back.
LEMMA AllgatherStep ==
  ASSUME IInv, Allgather
  PROVE  IInv'
<1> DEFINE T == {NextTs(r) : r \in Ranks}
<1>1. /\ \A r \in Ranks : pc[r] = "gather"
      /\ granted' = [r \in Ranks |->
                       IF ~ NoTransients THEN granted[r]
                       ELSE IF lookAhead[r] = Infinity THEN Infinity
                       ELSE SmallestTime + lookAhead[r]]
      /\ pc' = [r \in Ranks |-> IF GlobalFinished THEN "done" ELSE "loop"]
      /\ UNCHANGED <<delay, lookAhead, events, now, stop, tx, rx, net, used>>
  BY DEF Allgather
<1>2. /\ granted \in [Ranks -> Nat] /\ lookAhead \in [Ranks -> Nat]
      /\ now \in [Ranks -> 0 .. MaxTime]
      /\ Infinity \in Nat /\ MaxTime \in Nat /\ MaxTime < Infinity
  BY TimesAssumption DEF IInv, TypeOK, Shape
<1>3. \A r \in Ranks : IF IsLocalFinished(r) THEN NextTs(r) = Infinity
                        ELSE \E e \in events[r] : ~ stop[r] /\ NextTs(r) = e.ts
  BY NextEvent DEF NextTs, IsLocalFinished
<1>4. \A r \in Ranks : \A e \in events[r] :
        e.ts \in Nat /\ (~ stop[r] => NextTs(r) <= e.ts)
  BY <1>2, NextEvent DEF NextTs, IsLocalFinished, IInv, TypeOK
<1>5. T \in SUBSET Nat /\ T # {}
  BY <1>2, <1>3, <1>4, RanksAssumption
<1>6. SmallestTime \in T /\ \A t \in T : SmallestTime <= t
  BY <1>5, MinTime DEF SmallestTime
<1>7. SmallestTime \in Nat /\ \A r \in Ranks : NextTs(r) \in Nat /\ SmallestTime <= NextTs(r)
  BY <1>5, <1>6
<1>8. \A r \in Ranks : granted[r] <= SmallestTime + lookAhead[r] \/ SmallestTime = Infinity
  <2> SUFFICES ASSUME NEW r \in Ranks, SmallestTime # Infinity
               PROVE  granted[r] <= SmallestTime + lookAhead[r]
    OBVIOUS
  <2>1. PICK s \in Ranks : SmallestTime = NextTs(s)
    BY <1>6
  <2>2. PICK e \in events[s] : ~ stop[s] /\ SmallestTime = e.ts
    BY <1>3, <2>1
  <2> QED
    BY <2>2 DEF IInv, Floor
<1>9. granted' \in [Ranks -> Nat]
  BY <1>1, <1>2, <1>7
<1>10. TypeOK' /\ Shape' /\ LookAheadSound'
  BY <1>1, <1>9 DEF IInv, TypeOK, Shape, LookAheadSound, Linked
<1>11. Counts'
  BY <1>1 DEF IInv, Counts, Total, Tallies
<1>12. EndsTogether'
  <2>1. CASE GlobalFinished
    <3>1. net = {} /\ \A r \in Ranks : IsLocalFinished(r)
      BY <2>1, TransientsCounted DEF GlobalFinished
    <3> QED
      BY <1>1, <2>1, <3>1 DEF EndsTogether, IsLocalFinished
  <2>2. CASE ~ GlobalFinished
    BY <1>1, <2>2 DEF EndsTogether
  <2> QED
    BY <2>1, <2>2
<1>13. CASE NoTransients
  <2>1. net = {} /\ net' = {}
    BY <1>1, <1>13, TransientsCounted
  <2>2. \A r \in Ranks : /\ granted'[r] <= SmallestTime + lookAhead[r]
                          /\ now[r] <= granted'[r]
    <3> SUFFICES ASSUME NEW r \in Ranks
                 PROVE  /\ granted'[r] <= SmallestTime + lookAhead[r]
                        /\ now[r] <= granted'[r]
      OBVIOUS
    <3>1. CASE lookAhead[r] = Infinity
      BY <1>1, <1>2, <1>7, <1>13, <3>1
    <3>2. CASE lookAhead[r] # Infinity
      <4>1. granted'[r] = SmallestTime + lookAhead[r]
        BY <1>1, <1>13, <3>2
      <4>2. now[r] <= granted[r] /\ now[r] \in Nat /\ granted[r] \in Nat /\ now[r] <= MaxTime
        BY <1>2 DEF IInv, Windows
      <4> QED
        BY <1>2, <1>7, <1>8, <4>1, <4>2
    <3> QED
      BY <3>1, <3>2
  <2>3. Floor'
    <3>1. \A r \in Ranks : \A e \in events[r] : ~ stop[r] => SmallestTime <= e.ts
      BY <1>4, <1>7
    <3>2. \A r, s \in Ranks : ~ stop[s] =>
            \A e \in events[s] : granted'[r] <= e.ts + lookAhead[r]
      BY <1>2, <1>4, <1>7, <1>9, <2>2, <3>1
    <3>3. \A s \in Ranks : pc'[s] # "event"
      BY <1>1
    <3> QED
      BY <1>1, <2>1, <3>2, <3>3 DEF Floor
  <2>4. Windows'
    BY <1>1, <2>1, <2>2 DEF IInv, Windows
  <2> QED
    BY <1>10, <1>11, <1>12, <2>3, <2>4 DEF IInv
<1>14. CASE ~ NoTransients
  <2>1. granted' = granted
    BY <1>1, <1>2, <1>14
  <2>2. \A s \in Ranks : pc'[s] # "event"
    BY <1>1
  <2>3. Floor'
    BY <1>1, <2>1, <2>2 DEF IInv, Floor
  <2>4. Windows'
    BY <1>1, <2>1 DEF IInv, Windows
  <2> QED
    BY <1>10, <1>11, <1>12, <2>3, <2>4 DEF IInv
<1> QED
  BY <1>13, <1>14

\* Every step of the ranks and of MPI keeps the invariant.
LEMMA NextIInv == IInv /\ [Next]_vars => IInv'
<1> SUFFICES ASSUME IInv, [Next]_vars PROVE IInv'
  OBVIOUS
<1>1. CASE Allgather
  BY <1>1, AllgatherStep
<1>2. ASSUME NEW r \in Ranks, RankStep(r) PROVE IInv'
  BY <1>2, ProcessOneEventStep, LocalStep DEF RankStep
<1>3. ASSUME NEW r \in Ranks, Receive(r) PROVE IInv'
  BY <1>3, ReceiveMessageStep DEF Receive
<1>4. ASSUME NEW r \in Ranks, Stop(r) PROVE IInv'
  BY <1>4, LocalStep
<1>5. ASSUME NEW r \in Ranks, NEW d \in Steps, Schedule(r, d) PROVE IInv'
  BY <1>5, ScheduleStep
<1>6. ASSUME NEW r \in Ranks, NEW s \in Linked(r), NEW x \in Extra,
             SendPacket(r, s, x)
      PROVE  IInv'
  BY <1>6, SendPacketStep
<1>7. CASE UNCHANGED vars
  <2>1. UNCHANGED <<delay, lookAhead, events, now, granted, stop, tx, rx, net, pc, used>>
    BY <1>7 DEF vars
  <2>2. TypeOK' /\ Shape'
    BY <2>1 DEF IInv, TypeOK, Shape
  <2>3. LookAheadSound' /\ Floor' /\ Windows'
    BY <2>1 DEF IInv, LookAheadSound, Linked, Floor, Windows
  <2>4. Counts'
    BY <2>1 DEF IInv, Counts, Total, Tallies
  <2>5. EndsTogether'
    BY <2>1 DEF IInv, EndsTogether, IsLocalFinished
  <2> QED
    BY <2>2, <2>3, <2>4, <2>5 DEF IInv
<1> QED
  BY <1>1, <1>2, <1>3, <1>4, <1>5, <1>6, <1>7 DEF Next

\* The invariant holds throughout.
LEMMA Invariance == Spec => []IInv
  BY InitIInv, NextIInv, PTL DEF Spec

(***************************************************************************)
(* The theorems                                                            *)
(***************************************************************************)

\* Conservative synchronisation is sound: whatever the topology, the lookahead
\* bound, the number of ranks and the time MPI takes, no message reaches a rank
\* in its past, so ReceiveMessages never schedules with a negative delay.
THEOREM NoMessageInThePastCorrect == Spec => []NoMessageInThePast
<1>1. IInv => NoMessageInThePast
  <2> SUFFICES ASSUME IInv, NEW m \in net PROVE m.ts >= now[m.to]
    BY DEF NoMessageInThePast
  <2>1. m.to \in Ranks /\ m.ts \in Nat
    BY TimesAssumption DEF IInv, Shape
  <2>2. now[m.to] \in Nat /\ granted[m.to] \in Nat
    BY <2>1, TimesAssumption DEF IInv, TypeOK
  <2>3. now[m.to] <= granted[m.to] /\ granted[m.to] <= m.ts
    BY <2>1 DEF IInv, Windows
  <2> QED
    BY <2>1, <2>2, <2>3
<1> QED
  BY <1>1, Invariance, PTL

\* The window that each rank computes from its own lookahead is safe against
\* everything that other ranks may still do.
THEOREM WindowCorrect == Spec => []WindowSound
<1>1. IInv => WindowSound
  <2> SUFFICES ASSUME IInv PROVE GrantSafe
    BY DEF IInv, WindowSound
  <2>1. granted \in [Ranks -> Nat] /\ lookAhead \in [Ranks -> Nat]
    BY DEF IInv, TypeOK, Shape
  <2>2. ASSUME NEW r \in Ranks, NEW s \in Linked(r), NEW t \in Nat,
               granted[r] <= t + lookAhead[r]
        PROVE  t + delay[{r, s}] >= granted[r]
    <3>1. s \in Ranks /\ s # r
      BY DEF Linked
    <3>2. delay[{r, s}] \in Nat
      BY <3>1, LinkOfTwo, TopologiesAssumption, TimesAssumption DEF IInv, Shape
    <3>3. lookAhead[r] <= delay[{r, s}]
      BY DEF IInv, LookAheadSound
    <3> QED
      BY <2>1, <2>2, <3>2, <3>3
  <2>3. \A m \in net : m.ts \in Nat /\ m.to \in Ranks
    BY TimesAssumption DEF IInv, Shape
  <2>4. \A s \in Ranks : now[s] \in Nat /\ \A e \in events[s] : e.ts \in Nat
    BY TimesAssumption DEF IInv, TypeOK
  <2>5. ASSUME NEW r \in Ranks, NEW s \in Linked(r)
        PROVE  /\ ~ stop[s] => \A e \in events[s] : e.ts + delay[{r, s}] >= granted[r]
               /\ ~ stop[s] => \A m \in net : m.to = s => m.ts + delay[{r, s}] >= granted[r]
               /\ pc[s] = "event" => now[s] + delay[{r, s}] >= granted[r]
    <3>1. s \in Ranks
      BY DEF Linked
    <3> QED
      BY <2>2, <2>3, <2>4, <3>1 DEF IInv, Floor
  <2>6. \A r \in Ranks : \A m \in net : m.to = r => m.ts >= granted[r]
    BY <2>1, <2>3 DEF IInv, Windows
  <2> QED
    BY <2>5, <2>6 DEF GrantSafe
<1> QED
  BY <1>1, Invariance, PTL

\* The ranks leave Run together, with no message under way.
THEOREM EndsTogetherCorrect == Spec => []EndsTogether
<1>1. IInv => EndsTogether
  BY DEF IInv
<1> QED
  BY <1>1, Invariance, PTL

\* The assertion of ProcessOneEvent, next.key.m_ts >= m_currentTs: the event
\* list never holds an event of the past, received messages included.
NoEventInThePast == \A r \in Ranks : \A e \in events[r] : now[r] <= e.ts
THEOREM TimeForward == Spec => []NoEventInThePast
<1>1. IInv => NoEventInThePast
  BY DEF IInv, Windows, NoEventInThePast
<1> QED
  BY <1>1, Invariance, PTL
=============================================================================
