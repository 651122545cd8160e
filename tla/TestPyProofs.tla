---------------------------- MODULE TestPyProofs ----------------------------
(***************************************************************************)
(* Proofs about TestPy for any number of workers and jobs and an interrupt *)
(* at any time.                                                            *)
(***************************************************************************)
EXTENDS TestPy, FunctionTheorems, SequenceTheorems,
        FiniteSetTheorems, WellFoundedInduction, TLAPS

(***************************************************************************)
(* Natural numbers                                                         *)
(***************************************************************************)

\* A set of natural numbers has a smallest element: its elements are compared
\* by the sets of the numbers below them, which are finite.
LEMMA SmallestExists ==
  ASSUME NEW T \in SUBSET Nat, T # {}
  PROVE  \E n \in T : \A m \in T : n <= m
<1> DEFINE R == OpToRel(<, Nat)
<1>1. \E n \in T : \A m \in T : ~ (<<m, n>> \in R)
  BY NatLessThanWellFounded, WFMin, Zenon
<1>2. PICK n \in T : \A m \in T : ~ (<<m, n>> \in R)
  BY <1>1, Zenon
<1>3. R = {p \in Nat \X Nat : p[1] < p[2]}
  BY Zenon DEF OpToRel
<1> HIDE DEF R
<1>4. \A m \in T : <<m, n>> \in Nat \X Nat /\ ~ (m < n)
  BY <1>2, <1>3
<1>5. \A m \in T : n \in Nat /\ m \in Nat /\ ~ (m < n)
  BY <1>4
<1>6. \A m \in T : n <= m
  BY <1>5
<1> QED
  BY <1>6, Zenon

\* Induction on 0 .. n, for the set T of the numbers that have the property.
LEMMA Climb ==
  ASSUME NEW n \in Nat, NEW T, 0 \in T,
         \A k \in 0 .. n - 1 : k \in T => k + 1 \in T
  PROVE  0 .. n \subseteq T
<1> DEFINE out == (0 .. n) \ T
<1> SUFFICES ASSUME out # {} PROVE FALSE
  OBVIOUS
<1>1. out \in SUBSET Nat
  OBVIOUS
<1>2. PICK m \in out : \A k \in out : m <= k
  BY <1>1, SmallestExists, Zenon
<1>3. m \in 1 .. n /\ m - 1 \in 0 .. n - 1
  BY <1>2
<1>4. m - 1 \in T
  BY <1>2, <1>3
<1>5. m - 1 + 1 \in T
  BY <1>3, <1>4, Zenon
<1> QED
  BY <1>2, <1>3, <1>5

(***************************************************************************)
(* The shape of a state                                                    *)
(***************************************************************************)

N == Len(jobs)
K == Cardinality(Workers)

Statuses == {"PASS", "SKIP", "FAIL", "VALGR", "CRASH"}
JobRecords == [kind : Kinds, is_skip : BOOLEAN, is_break : BOOLEAN,
               returncode : 0 .. 3, file : Files]
Results == {"pending", "interrupted", "skipped", "passed", "broken"}
Entries == Statuses \cup Files

Shape ==
  /\ jobs \in Seq(JobRecords)
  /\ queued \in Nat
  /\ input \in Seq(0 .. N)
  /\ worker \in [Workers -> [pc : {"get", "test", "run", "exit"}, job : 0 .. N]]
  /\ output \in Seq(1 .. N) /\ collected \in Seq(1 .. N) /\ Len(collected) <= N
  /\ report \in Seq([job : 1 .. N, entry : Entries])
  /\ tally \in [Statuses -> Nat]
  /\ threadExit \in BOOLEAN /\ dir \in BOOLEAN
  /\ main \in {"dispatch", "collect", "raised", "done"}
  /\ code \in 0 .. 1
  /\ real \in [1 .. N -> Results]

-----------------------------------------------------------------------------
(* The inductive invariant *)

\* The jobs in a queue, and whether each is in it once.
JobsIn(s) == {s[k] : k \in DOMAIN s} \ {Break}
Once(s) == \A k, l \in DOMAIN s : s[k] = s[l] /\ s[k] # Break => k = l

InHand == {worker[w].job : w \in Workers} \ {Break}
OneHolder == \A v, w \in Workers :
               worker[v].job = worker[w].job /\ worker[v].job # Break => v = w

\* Every job queued is in exactly one place.
Placed ==
  /\ Once(input) /\ Once(output) /\ Once(collected) /\ OneHolder
  /\ JobsIn(input) \cap InHand = {}
  /\ JobsIn(input) \cap JobsIn(output) = {}
  /\ JobsIn(input) \cap JobsIn(collected) = {}
  /\ InHand \cap JobsIn(output) = {}
  /\ InHand \cap JobsIn(collected) = {}
  /\ JobsIn(output) \cap JobsIn(collected) = {}
  /\ JobsIn(input) \cup InHand \cup JobsIn(output) \cup JobsIn(collected)
       = {i \in 1 .. N : i <= queued}

\* A worker that has taken a break job, and those that need not be told.
Ending(w) == worker[w].pc = "exit" \/ worker[w] = [pc |-> "test", job |-> Break]
OnlyBreaks == \A k \in DOMAIN input : input[k] = Break

\* Break jobs come after all others.
BreaksLast ==
  /\ queued <= N => /\ \A k \in DOMAIN input : input[k] # Break
                    /\ \A w \in Workers : ~ Ending(w)
  /\ \A k, l \in DOMAIN input : k < l /\ input[k] = Break => input[l] = Break
  /\ (\E w \in Workers : Ending(w)) => OnlyBreaks
  /\ \A w \in Workers : /\ worker[w].pc \in {"get", "exit"} => worker[w].job = Break
                        /\ worker[w].pc = "run" => worker[w].job # Break

\* Where the main thread is.
MainSound ==
  /\ IF main = "dispatch" THEN queued < N + K ELSE queued = N + K
  /\ main # "done" => code = 1 /\ dir
  /\ main = "done" => AllReturned

\* A job as a worker left it, and what became of it.
Left(job, became) ==
  /\ became = "interrupted" <=> job.is_break
  /\ became \in {"passed", "skipped"}
       <=> ~ job.is_break /\ (job.is_skip \/ job.returncode = 0)
  /\ became = "skipped" <=> ~ job.is_break /\ job.is_skip
  /\ became = "passed" /\ job.kind = "suite" => job.file = "PASS"
  /\ ~ job.is_break /\ CopiesFile(job) /\ job.file = "none" => became = "broken"
Ended == JobsIn(output) \cup JobsIn(collected)
ResultsTrue ==
  /\ \A i \in 1 .. N : IF i \in Ended THEN Left(jobs[i], real[i])
                       ELSE ~ jobs[i].is_break
  /\ \A w \in Workers : worker[w].pc = "run" => ~ Held(w).is_skip
  /\ main = "raised" => \E i \in JobsIn(collected) : real[i] = "broken"

\* The tally counts what was collected.
CollectedAs(s) == {k \in DOMAIN collected : /\ ~ jobs[collected[k]].is_break
                                            /\ Status(jobs[collected[k]]) = s}
TallyExact == \A s \in Statuses : tally[s] = Cardinality(CollectedAs(s))

EntriesTell ==
  \A k \in DOMAIN report :
    EntryTells(jobs[report[k].job], real[report[k].job], report[k].entry)

ReportSound ==
  /\ EntriesInOrder /\ EntriesTell
  /\ \A k \in DOMAIN report : report[k].job \in JobsIn(collected)
  /\ main \in {"dispatch", "collect"} => Named = Without(collected, Interrupted)

IInv == /\ Shape /\ Placed /\ BreaksLast /\ MainSound /\ ResultsTrue
        /\ TallyExact /\ ReportSound /\ ExitCodeTrue

-----------------------------------------------------------------------------
(* Queues *)

\* A job joins a queue.
LEMMA QueueAppend ==
  ASSUME NEW s \in Seq(Nat), NEW x \in Nat
  PROVE  /\ JobsIn(Append(s, x)) = JobsIn(s) \cup ({x} \ {Break})
         /\ Once(s) /\ x \notin JobsIn(s) => Once(Append(s, x))
<1> DEFINE t == Append(s, x)
<1>1. /\ DOMAIN t = 1 .. Len(s) + 1 /\ DOMAIN s = 1 .. Len(s) /\ Len(s) \in Nat
      /\ t[Len(s) + 1] = x
      /\ \A k \in 1 .. Len(s) : t[k] = s[k]
  BY AppendProperties
<1> HIDE DEF t
<1>2. JobsIn(t) = JobsIn(s) \cup ({x} \ {Break})
  <2>1. {t[k] : k \in DOMAIN t} = {s[k] : k \in DOMAIN s} \cup {x}
    BY <1>1
  <2> QED
    BY <2>1 DEF JobsIn
<1>3. ASSUME Once(s), x \notin JobsIn(s) PROVE Once(t)
  <2> SUFFICES ASSUME NEW k \in DOMAIN t, NEW l \in DOMAIN t, t[k] = t[l], t[k] # Break
               PROVE  k = l
    BY DEF Once
  <2>1. \A j \in DOMAIN s : s[j] # Break => s[j] # x
    BY <1>3 DEF JobsIn
  <2> QED
    BY <1>1, <1>3, <2>1 DEF Once
<1> QED
  BY <1>2, <1>3 DEF t

\* The first job leaves a queue.
LEMMA QueueTail ==
  ASSUME NEW s \in Seq(Nat), s # <<>>
  PROVE  /\ JobsIn(s) = JobsIn(Tail(s)) \cup ({Head(s)} \ {Break})
         /\ Once(s) => Once(Tail(s)) /\ Head(s) \notin JobsIn(Tail(s))
<1> DEFINE t == Tail(s)
           x == Head(s)
<1>1. /\ DOMAIN s = 1 .. Len(s) /\ Len(s) \in Nat \ {0} /\ x = s[1]
      /\ DOMAIN t = 1 .. Len(s) - 1
      /\ \A k \in 1 .. Len(s) - 1 : t[k] = s[k + 1]
  BY HeadTailProperties
<1> HIDE DEF t, x
<1>2. \A k \in DOMAIN s : k = 1 \/ (k - 1 \in DOMAIN t /\ s[k] = t[k - 1])
  BY <1>1
<1>3. JobsIn(s) = JobsIn(t) \cup ({x} \ {Break})
  <2>1. {s[k] : k \in DOMAIN s} \subseteq {t[k] : k \in DOMAIN t} \cup {x}
    BY <1>1, <1>2
  <2>2. {t[k] : k \in DOMAIN t} \cup {x} \subseteq {s[k] : k \in DOMAIN s}
    <3>1. \A k \in DOMAIN t : k + 1 \in DOMAIN s /\ t[k] = s[k + 1]
      BY <1>1
    <3>2. 1 \in DOMAIN s /\ x = s[1]
      BY <1>1
    <3> QED
      BY <3>1, <3>2
  <2> QED
    BY <2>1, <2>2 DEF JobsIn
<1>4. ASSUME Once(s) PROVE Once(t) /\ x \notin JobsIn(t)
  <2>1. \A k \in DOMAIN t : /\ k \in Nat /\ k + 1 \in DOMAIN s /\ t[k] = s[k + 1]
                             /\ k + 1 # 1
    BY <1>1
  <2>2. 1 \in DOMAIN s /\ x = s[1]
    BY <1>1
  <2>3. ASSUME NEW k \in DOMAIN t, NEW l \in DOMAIN t, t[k] = t[l], t[k] # Break
        PROVE  k = l
    <3>1. k + 1 = l + 1
      BY <1>4, <2>1, <2>3 DEF Once
    <3> QED
      BY <2>1, <3>1
  <2>4. ASSUME NEW k \in DOMAIN t, t[k] = x, x # Break PROVE FALSE
    BY <1>4, <2>1, <2>2, <2>4 DEF Once
  <2> QED
    BY <2>3, <2>4 DEF JobsIn, Once
<1> QED
  BY <1>3, <1>4 DEF t, x

\* A job that is in a queue at most once is found there once or not at all.
LEMMA TimesIn ==
  ASSUME NEW s \in Seq(Nat), Once(s), NEW i \in Nat \ {Break}
  PROVE  Cardinality({k \in DOMAIN s : s[k] = i}) = IF i \in JobsIn(s) THEN 1 ELSE 0
<1> DEFINE T == {k \in DOMAIN s : s[k] = i}
<1>1. CASE i \in JobsIn(s)
  <2>1. PICK k \in DOMAIN s : s[k] = i
    BY <1>1 DEF JobsIn
  <2>2. T = {k}
    BY <2>1 DEF Once
  <2> QED
    BY <1>1, <2>2, FS_Singleton
<1>2. CASE i \notin JobsIn(s)
  <2>1. T = {}
    BY <1>2 DEF JobsIn
  <2> QED
    BY <1>2, <2>1, FS_EmptySet
<1> QED
  BY <1>1, <1>2

\* The hands of the workers, likewise.
LEMMA TimesHeld ==
  ASSUME OneHolder, NEW i \in Nat \ {Break}
  PROVE  Cardinality({w \in Workers : worker[w].job = i})
           = IF i \in InHand THEN 1 ELSE 0
<1> DEFINE T == {w \in Workers : worker[w].job = i}
<1>1. CASE i \in InHand
  <2>1. PICK w \in Workers : worker[w].job = i
    BY <1>1 DEF InHand
  <2>2. T = {w}
    BY <2>1 DEF OneHolder
  <2> QED
    BY <1>1, <2>2, FS_Singleton
<1>2. CASE i \notin InHand
  <2>1. T = {}
    BY <1>2 DEF InHand
  <2> QED
    BY <1>2, <2>1, FS_EmptySet
<1> QED
  BY <1>1, <1>2

-----------------------------------------------------------------------------
(* The jobs of the report *)

\* f gives what is kept of each prefix of s.
KeepsTo(s, out, f) ==
  /\ f \in [0 .. Len(s) -> Seq(Nat)]
  /\ f[0] = <<>>
  /\ \A n \in 1 .. Len(s) :
       f[n] = IF s[n] \in out THEN f[n - 1] ELSE Append(f[n - 1], s[n])

LEMMA KeepsExist ==
  ASSUME NEW s \in Seq(Nat), NEW out
  PROVE  \E f : KeepsTo(s, out, f)
<1> DEFINE L == Len(s)
           add(q, n) == IF s[n] \in out THEN q ELSE Append(q, s[n])
           upTo(m, f) == /\ f \in [0 .. m -> Seq(Nat)] /\ f[0] = <<>>
                         /\ \A n \in 1 .. m : f[n] = add(f[n - 1], n)
           T == {m \in 0 .. L : \E f : upTo(m, f)}
<1>1. L \in Nat /\ \A n \in 1 .. L : \A q \in Seq(Nat) : add(q, n) \in Seq(Nat)
  OBVIOUS
<1> HIDE DEF add
<1>2. 0 \in T
  <2>1. upTo(0, [i \in 0 .. 0 |-> <<>>])
    OBVIOUS
  <2> HIDE DEF upTo
  <2> QED
    BY <1>1, <2>1
<1>3. ASSUME NEW m \in 0 .. L - 1, m \in T PROVE m + 1 \in T
  <2>1. PICK f : upTo(m, f)
    BY <1>3
  <2> DEFINE g == [i \in 0 .. m + 1 |-> IF i = m + 1 THEN add(f[m], m + 1) ELSE f[i]]
  <2>2. m + 1 \in 1 .. L /\ add(f[m], m + 1) \in Seq(Nat)
    BY <1>1, <2>1
  <2>3. g \in [0 .. m + 1 -> Seq(Nat)] /\ g[0] = <<>>
    BY <2>1, <2>2
  <2>4. \A n \in 1 .. m + 1 : g[n] = add(g[n - 1], n)
    <3> SUFFICES ASSUME NEW n \in 1 .. m + 1 PROVE g[n] = add(g[n - 1], n)
      OBVIOUS
    <3>1. CASE n = m + 1
      <4>1. g[n] = add(f[m], m + 1) /\ g[n - 1] = f[m]
        BY <3>1
      <4> QED
        BY <3>1, <4>1
    <3>2. CASE n # m + 1
      <4>1. n \in 1 .. m /\ g[n] = f[n] /\ g[n - 1] = f[n - 1]
        BY <3>2
      <4> QED
        BY <2>1, <4>1
    <3> QED
      BY <3>1, <3>2
  <2>5. upTo(m + 1, g)
    BY <2>3, <2>4
  <2> HIDE DEF upTo, g
  <2> QED
    BY <2>2, <2>5
<1>4. 0 .. L \subseteq T
  <2> HIDE DEF T
  <2> QED
    BY <1>1, <1>2, <1>3, Climb
<1>5. \E f : upTo(L, f)
  <2> HIDE DEF upTo
  <2>1. L \in 0 .. L
    BY <1>1
  <2> QED
    BY <1>4, <2>1
<1> QED
  BY <1>5 DEF KeepsTo, add

\* Only one function does, and Without is its last value.
LEMMA KeepsUnique ==
  ASSUME NEW s \in Seq(Nat), NEW out, NEW f, KeepsTo(s, out, f)
  PROVE  Without(s, out) = f[Len(s)]
<1> DEFINE L == Len(s)
           add(q, n) == IF s[n] \in out THEN q ELSE Append(q, s[n])
           next(g) == [n \in 0 .. L |-> IF n = 0 THEN <<>>
                                        ELSE IF s[n] \in out THEN g[n - 1]
                                        ELSE Append(g[n - 1], s[n])]
           p == KeptUpTo(s, out)
<1>1. p = CHOOSE g : g = next(g)
  BY Zenon DEF KeptUpTo
<1>2. L \in Nat
  OBVIOUS
<1>3. /\ f \in [0 .. L -> Seq(Nat)] /\ f[0] = <<>>
      /\ \A n \in 1 .. L : f[n] = add(f[n - 1], n)
  BY DEF KeepsTo
<1>4. \A g : next(g) = [n \in 0 .. L |-> IF n = 0 THEN <<>> ELSE add(g[n - 1], n)]
  BY Zenon
<1> HIDE DEF add, next
<1>5. f = next(f)
  <2>1. next(f) = [n \in 0 .. L |-> IF n = 0 THEN <<>> ELSE add(f[n - 1], n)]
    BY <1>4, Zenon
  <2>2. \A n \in 0 .. L : f[n] = IF n = 0 THEN <<>> ELSE add(f[n - 1], n)
    BY <1>2, <1>3
  <2>3. f = [n \in 0 .. L |-> f[n]]
    BY <1>3
  <2> QED
    BY <2>1, <2>2, <2>3, Zenon
<1>6. p = next(p)
  <2> HIDE DEF p
  <2> QED
    BY <1>1, <1>5, Zenon
<1>7. p[0] = <<>> /\ \A n \in 1 .. L : p[n] = add(p[n - 1], n)
  <2> HIDE DEF p
  <2>1. p = [n \in 0 .. L |-> IF n = 0 THEN <<>> ELSE add(p[n - 1], n)]
    BY <1>4, <1>6, Zenon
  <2>2. \A n \in 0 .. L : p[n] = IF n = 0 THEN <<>> ELSE add(p[n - 1], n)
    BY <2>1, Zenon
  <2> QED
    BY <1>2, <2>2
<1> HIDE DEF p
<1> DEFINE T == {n \in 0 .. L : p[n] = f[n]}
<1>8. 0 \in T
  BY <1>2, <1>3, <1>7
<1>9. ASSUME NEW n \in 0 .. L - 1, n \in T PROVE n + 1 \in T
  <2>1. n + 1 \in 1 .. L /\ n + 1 - 1 = n /\ p[n] = f[n]
    BY <1>2, <1>9
  <2>2. p[n + 1] = add(p[n], n + 1) /\ f[n + 1] = add(f[n], n + 1)
    BY <1>3, <1>7, <2>1
  <2> QED
    BY <1>2, <2>1, <2>2
<1>10. 0 .. L \subseteq T
  <2> HIDE DEF T
  <2> QED
    BY <1>2, <1>8, <1>9, Climb
<1> QED
  BY <1>2, <1>10 DEF Without, p

\* What is kept when one more job is collected.
LEMMA WithoutAppend ==
  ASSUME NEW s \in Seq(Nat), NEW out, NEW x \in Nat
  PROVE  /\ Without(s, out) \in Seq(Nat)
         /\ x \in out => Without(Append(s, x), out) = Without(s, out)
         /\ x \notin out => Without(Append(s, x), out) = Append(Without(s, out), x)
<1> DEFINE L == Len(s)
           t == Append(s, x)
<1>1. PICK g : KeepsTo(t, out, g)
  <2>1. t \in Seq(Nat)
    OBVIOUS
  <2> QED
    BY <2>1, KeepsExist
<1>2. /\ L \in Nat /\ Len(t) = L + 1 /\ t \in Seq(Nat) /\ t[L + 1] = x
      /\ \A n \in 1 .. L : t[n] = s[n]
  BY AppendProperties
<1> HIDE DEF t
<1>3. /\ g \in [0 .. L + 1 -> Seq(Nat)] /\ g[0] = <<>>
      /\ \A n \in 1 .. L + 1 :
           g[n] = IF t[n] \in out THEN g[n - 1] ELSE Append(g[n - 1], t[n])
  BY <1>1, <1>2 DEF KeepsTo
<1> DEFINE f == [n \in 0 .. L |-> g[n]]
<1>4. f \in [0 .. L -> Seq(Nat)] /\ f[0] = <<>>
  BY <1>2, <1>3
<1>5. \A n \in 1 .. L : f[n] = IF s[n] \in out THEN f[n - 1] ELSE Append(f[n - 1], s[n])
  <2> SUFFICES ASSUME NEW n \in 1 .. L
               PROVE  f[n] = IF s[n] \in out THEN f[n - 1] ELSE Append(f[n - 1], s[n])
    OBVIOUS
  <2>1. f[n] = g[n] /\ f[n - 1] = g[n - 1] /\ t[n] = s[n] /\ n \in 1 .. L + 1
    BY <1>2
  <2> HIDE DEF f
  <2> QED
    BY <1>3, <2>1
<1>6. KeepsTo(s, out, f)
  <2> HIDE DEF f
  <2> QED
    BY <1>4, <1>5 DEF KeepsTo
<1>7. Without(s, out) = g[L] /\ Without(t, out) = g[L + 1]
  <2>1. Without(s, out) = f[L]
    <3> HIDE DEF f
    <3> QED
      BY <1>6, KeepsUnique
  <2>2. Without(t, out) = g[Len(t)]
    BY <1>1, <1>2, KeepsUnique
  <2> QED
    BY <1>2, <2>1, <2>2
<1>8. g[L] \in Seq(Nat) /\ g[L + 1] = IF x \in out THEN g[L] ELSE Append(g[L], x)
  <2>1. L + 1 \in 1 .. L + 1 /\ L + 1 - 1 = L /\ L \in 0 .. L + 1
    BY <1>2
  <2> HIDE DEF L
  <2>2. g[L + 1] = IF t[L + 1] \in out THEN g[L + 1 - 1] ELSE Append(g[L + 1 - 1], t[L + 1])
    BY <1>3, <2>1
  <2>3. g[L] \in Seq(Nat)
    BY <1>3, <2>1
  <2> QED
    BY <1>2, <2>1, <2>2, <2>3, Zenon
<1> QED
  BY <1>7, <1>8 DEF t

\* Only the jobs of s matter.
LEMMA WithoutSame ==
  ASSUME NEW s \in Seq(Nat), NEW out, NEW new,
         \A k \in DOMAIN s : s[k] \in out <=> s[k] \in new
  PROVE  Without(s, out) = Without(s, new)
<1>1. PICK f : KeepsTo(s, out, f)
  BY KeepsExist
<1>2. KeepsTo(s, new, f)
  <2>1. DOMAIN s = 1 .. Len(s)
    OBVIOUS
  <2> QED
    BY <1>1, <2>1 DEF KeepsTo
<1> QED
  BY <1>1, <1>2, KeepsUnique

\* Nothing is kept of nothing.
LEMMA WithoutEmpty == ASSUME NEW out PROVE Without(<<>>, out) = <<>>
<1>1. KeepsTo(<<>>, out, [n \in 0 .. 0 |-> <<>>])
  BY DEF KeepsTo
<1> QED
  BY <1>1, KeepsUnique

-----------------------------------------------------------------------------
(* Frames: what an action that leaves some variables alone preserves *)

LEMMA WorkersCounted == K \in Nat \ {0}
<1>1. Cardinality(Workers) \in Nat /\ Cardinality(Workers) # 0
  BY SomeWorker, FS_CardinalityType, FS_EmptySet
<1> QED
  BY <1>1 DEF K

LEMMA Numbers ==
  ASSUME Shape
  PROVE  /\ N \in Nat /\ DOMAIN jobs = 1 .. N /\ \A i \in 1 .. N : jobs[i] \in JobRecords
         /\ input \in Seq(Nat) /\ output \in Seq(Nat) /\ collected \in Seq(Nat)
         /\ Len(collected) \in Nat /\ \A k \in DOMAIN collected : collected[k] \in 1 .. N
         /\ \A w \in Workers : worker[w].job \in 0 .. N
         /\ JobsIn(input) \subseteq 1 .. N /\ JobsIn(output) \subseteq 1 .. N
         /\ JobsIn(collected) \subseteq 1 .. N /\ InHand \subseteq 1 .. N
<1>1. N \in Nat /\ DOMAIN jobs = 1 .. N /\ \A i \in 1 .. N : jobs[i] \in JobRecords
  BY DEF Shape, N
<1>2. 0 .. N \subseteq Nat /\ 1 .. N \subseteq Nat /\ (0 .. N) \ {0} = 1 .. N
  BY <1>1
<1>3. input \in Seq(Nat) /\ output \in Seq(Nat) /\ collected \in Seq(Nat)
  BY <1>2, SeqMonotonic DEF Shape
<1>4. \A w \in Workers : worker[w].job \in 0 .. N
  BY DEF Shape
<1>5. /\ \A k \in DOMAIN input : input[k] \in 0 .. N
      /\ \A k \in DOMAIN output : output[k] \in 1 .. N
      /\ \A k \in DOMAIN collected : collected[k] \in 1 .. N
      /\ Len(collected) \in Nat
  <2>1. \A S : \A s \in Seq(S) : Len(s) \in Nat /\ \A k \in DOMAIN s : s[k] \in S
    OBVIOUS
  <2>2. input \in Seq(0 .. N) /\ output \in Seq(1 .. N) /\ collected \in Seq(1 .. N)
    BY DEF Shape
  <2> QED
    BY <2>1, <2>2, Zenon
<1>6. JobsIn(input) \subseteq 1 .. N
  BY <1>2, <1>5 DEF JobsIn, Break
<1>7. JobsIn(output) \subseteq 1 .. N /\ JobsIn(collected) \subseteq 1 .. N
  BY <1>5 DEF JobsIn
<1>8. InHand \subseteq 1 .. N
  BY <1>2, <1>4 DEF InHand, Break
<1> QED
  BY <1>1, <1>3, <1>4, <1>5, <1>6, <1>7, <1>8

LEMMA PlacedFrame ==
  ASSUME Placed, UNCHANGED <<jobs, queued, input, worker, output, collected>>
  PROVE  Placed'
BY DEF Placed, InHand, OneHolder, N

LEMMA BreaksFrame ==
  ASSUME BreaksLast, UNCHANGED <<jobs, queued, input, worker>>
  PROVE  BreaksLast'
BY DEF BreaksLast, Ending, OnlyBreaks, N

LEMMA ResultsFrame ==
  ASSUME ResultsTrue, UNCHANGED <<jobs, real, worker, output, collected>>,
         main' = main \/ main' # "raised"
  PROVE  ResultsTrue'
BY DEF ResultsTrue, Ended, Held, N

LEMMA TallyFrame ==
  ASSUME TallyExact, UNCHANGED <<jobs, collected, tally>>
  PROVE  TallyExact'
BY DEF TallyExact, CollectedAs

LEMMA ReportFrame ==
  ASSUME ReportSound, UNCHANGED <<jobs, real, collected, report, code>>,
         main' = main \/ {main, main'} = {"dispatch", "collect"}
  PROVE  ReportSound'
BY DEF ReportSound, EntriesInOrder, EntriesTell, EntryTells, Interrupted, Named

\* A worker or the main thread is at work, so the driver has not returned.
LEMMA NotDone ==
  ASSUME MainSound, NEW w \in Workers, worker[w].pc # "exit"
  PROVE  main # "done"
BY DEF MainSound, AllReturned

-----------------------------------------------------------------------------
(* The initial state *)

LEMMA InitIInv == Init => IInv
<1> SUFFICES ASSUME Init PROVE IInv
  OBVIOUS
<1>1. jobs \in Seq(NewJob) /\ NewJob \subseteq JobRecords
  <2>1. NewJob \subseteq JobRecords
    <3>1. {FALSE} \subseteq BOOLEAN /\ {0} \subseteq 0 .. 3 /\ {"none"} \subseteq Files
      BY DEF Files
    <3> QED
      BY <3>1 DEF NewJob, JobRecords
  <2>2. jobs \in UNION {[1 .. m -> NewJob] : m \in 0 .. MaxJobs}
    BY DEF Init, BoundedSeq, SeqOf
  <2>3. PICK m \in 0 .. MaxJobs : jobs \in [1 .. m -> NewJob]
    BY <2>2
  <2>4. m \in Nat
    BY <2>3, SomeWorker
  <2> QED
    BY <2>1, <2>3, <2>4, IsASeq
<1>2. jobs \in Seq(JobRecords) /\ N \in Nat /\ DOMAIN jobs = 1 .. N
      /\ \A i \in 1 .. N : jobs[i] \in NewJob
  BY <1>1, SeqMonotonic DEF N
<1>3. /\ queued = 0 /\ input = <<>> /\ output = <<>> /\ collected = <<>>
      /\ report = <<>> /\ worker = [w \in Workers |-> [pc |-> "get", job |-> Break]]
      /\ tally = [s \in Statuses |-> 0]
      /\ threadExit = FALSE /\ dir = TRUE /\ main = "dispatch" /\ code = 1
      /\ real = [i \in 1 .. N |-> "pending"]
  BY <1>2 DEF Init, Statuses
<1>4. JobsIn(<<>>) = {} /\ Once(<<>>) /\ DOMAIN <<>> = {}
  BY DEF JobsIn, Once
<1>5. Shape
  <2>1. \A S : <<>> \in Seq(S)
    OBVIOUS
  <2>2. worker \in [Workers -> [pc : {"get", "test", "run", "exit"}, job : 0 .. N]]
    BY <1>2, <1>3 DEF Break
  <2>3. tally \in [Statuses -> Nat] /\ real \in [1 .. N -> Results]
    BY <1>3 DEF Results
  <2>4. queued \in Nat /\ Len(collected) <= N /\ code \in 0 .. 1
    BY <1>2, <1>3
  <2> QED
    BY <1>2, <1>3, <2>1, <2>2, <2>3, <2>4 DEF Shape
<1>6. Placed
  BY <1>2, <1>3, <1>4 DEF Placed, InHand, OneHolder
<1>7. BreaksLast
  BY <1>3, <1>4 DEF BreaksLast, Ending, OnlyBreaks
<1>8. MainSound
  BY <1>2, <1>3, WorkersCounted DEF MainSound
<1>9. ResultsTrue
  BY <1>2, <1>3, <1>4 DEF ResultsTrue, Ended, NewJob
<1>10. TallyExact
  <2>1. \A s \in Statuses : CollectedAs(s) = {}
    BY <1>3, <1>4 DEF CollectedAs
  <2> QED
    BY <1>3, <2>1, FS_EmptySet DEF TallyExact
<1>11. ReportSound
  <2>1. Named = <<>>
    BY <1>3, <1>4 DEF Named
  <2> QED
    BY <1>3, <2>1, WithoutEmpty DEF ReportSound, EntriesInOrder, EntriesTell
<1>12. ExitCodeTrue
  BY <1>3 DEF ExitCodeTrue
<1> QED
  BY <1>5, <1>6, <1>7, <1>8, <1>9, <1>10, <1>11, <1>12 DEF IInv

-----------------------------------------------------------------------------
(* The main thread dispatches, and SIGINT *)

LEMMA DispatchJobIInv == ASSUME IInv, DispatchJob PROVE IInv'
<1> DEFINE n == queued + 1
<1>1. /\ Shape /\ Placed /\ BreaksLast /\ MainSound /\ ResultsTrue /\ TallyExact
      /\ ReportSound
  BY DEF IInv
<1>2. /\ main = "dispatch" /\ queued < N /\ input' = Append(input, n) /\ queued' = n
      /\ UNCHANGED <<jobs, worker, output, collected, report, tally, threadExit,
                     dir, main, code, real>>
  BY DEF DispatchJob, N
<1>3. /\ N' = N /\ N \in Nat /\ queued \in Nat /\ n \in 1 .. N /\ n \in Nat \ {Break}
      /\ input \in Seq(Nat)
  BY <1>1, <1>2, Numbers DEF N, Shape, Break
<1>4. Shape'
  <2>1. Append(input, n) \in Seq(0 .. N)
    BY <1>1, <1>3 DEF Shape
  <2> HIDE DEF n
  <2> QED
    BY <1>1, <1>2, <1>3, <2>1 DEF Shape
<1>5. Placed'
  <2>1. n \notin JobsIn(input) /\ n \notin InHand /\ n \notin JobsIn(output)
        /\ n \notin JobsIn(collected)
    BY <1>1, <1>3 DEF Placed
  <2>2. JobsIn(input') = JobsIn(input) \cup {n} /\ Once(input')
    BY <1>1, <1>2, <1>3, <2>1, QueueAppend DEF Placed
  <2>3. {i \in 1 .. N : i <= n} = {i \in 1 .. N : i <= queued} \cup {n}
    BY <1>3
  <2> HIDE DEF n
  <2>4. InHand' = InHand /\ OneHolder'
    BY <1>1, <1>2 DEF InHand, OneHolder, Placed
  <2> QED
    BY <1>1, <1>2, <1>3, <2>1, <2>2, <2>3, <2>4 DEF Placed
<1>6. BreaksLast'
  <2>1. /\ \A k \in DOMAIN input : input[k] # Break
        /\ \A w \in Workers : ~ Ending(w)
    BY <1>1, <1>2, <1>3 DEF BreaksLast
  <2>2. \A k \in DOMAIN input' : input'[k] # Break
    BY <1>2, <1>3, <2>1
  <2> QED
    BY <1>1, <1>2, <1>3, <2>1, <2>2 DEF BreaksLast, Ending, OnlyBreaks
<1>7. MainSound'
  BY <1>1, <1>2, <1>3, WorkersCounted DEF MainSound, K
<1>8. ResultsTrue' /\ TallyExact' /\ ReportSound'
  BY <1>1, <1>2, ResultsFrame, TallyFrame, ReportFrame
<1>9. ExitCodeTrue'
  BY <1>2 DEF ExitCodeTrue
<1> QED
  BY <1>4, <1>5, <1>6, <1>7, <1>8, <1>9 DEF IInv

LEMMA DispatchBreakIInv == ASSUME IInv, DispatchBreak PROVE IInv'
<1>1. /\ Shape /\ Placed /\ BreaksLast /\ MainSound /\ ResultsTrue /\ TallyExact
      /\ ReportSound
  BY DEF IInv
<1>2. /\ main = "dispatch" /\ queued >= N /\ input' = Append(input, Break)
      /\ queued' = queued + 1
      /\ main' = IF queued' = N + K THEN "collect" ELSE main
      /\ UNCHANGED <<jobs, worker, output, collected, report, tally, threadExit,
                     dir, code, real>>
  BY DEF DispatchBreak, N, K
<1>3. /\ N' = N /\ N \in Nat /\ queued \in Nat /\ input \in Seq(Nat) /\ Break \in Nat
      /\ main' \in {"dispatch", "collect"}
  BY <1>1, <1>2, Numbers DEF N, Shape, Break
<1>4. Shape'
  <2>1. Append(input, Break) \in Seq(0 .. N)
    BY <1>1, <1>3 DEF Shape, Break
  <2>2. queued' \in Nat
    BY <1>2, <1>3
  <2> QED
    BY <1>1, <1>2, <1>3, <2>1, <2>2 DEF Shape
<1>5. Placed'
  <2>1. Break \notin JobsIn(input)
    BY DEF JobsIn
  <2>2. JobsIn(input') = JobsIn(input) /\ Once(input')
    BY <1>1, <1>2, <1>3, <2>1, QueueAppend DEF Placed
  <2>3. {i \in 1 .. N : i <= queued + 1} = {i \in 1 .. N : i <= queued}
    BY <1>2, <1>3
  <2>4. InHand' = InHand /\ OneHolder'
    BY <1>1, <1>2 DEF InHand, OneHolder, Placed
  <2> QED
    BY <1>1, <1>2, <1>3, <2>2, <2>3, <2>4 DEF Placed
<1>6. BreaksLast'
  <2>1. ~ (queued' <= N')
    BY <1>2, <1>3
  <2>2. /\ DOMAIN input' = 1 .. Len(input) + 1 /\ Len(input) \in Nat
        /\ DOMAIN input = 1 .. Len(input)
        /\ input'[Len(input) + 1] = Break
        /\ \A k \in 1 .. Len(input) : input'[k] = input[k]
    BY <1>2, <1>3
  <2>3. \A k, l \in DOMAIN input' : k < l /\ input'[k] = Break => input'[l] = Break
    <3> SUFFICES ASSUME NEW k \in DOMAIN input', NEW l \in DOMAIN input', k < l,
                        input'[k] = Break
                 PROVE  input'[l] = Break
      OBVIOUS
    <3>1. CASE l = Len(input) + 1
      BY <2>2, <3>1
    <3>2. CASE l # Len(input) + 1
      BY <1>1, <2>2, <3>2 DEF BreaksLast
    <3> QED
      BY <3>1, <3>2
  <2>4. OnlyBreaks => OnlyBreaks'
    BY <2>2 DEF OnlyBreaks
  <2> QED
    BY <1>1, <1>2, <2>1, <2>3, <2>4 DEF BreaksLast, Ending
<1>7. MainSound'
  <2>1. queued < N + K /\ K \in Nat /\ K' = K /\ code = 1 /\ dir
    BY <1>1, <1>2, WorkersCounted DEF MainSound, K
  <2>2. CASE queued' = N + K
    BY <1>2, <1>3, <2>1, <2>2 DEF MainSound
  <2>3. CASE queued' # N + K
    BY <1>2, <1>3, <2>1, <2>3 DEF MainSound
  <2> QED
    BY <2>2, <2>3
<1>8. ResultsTrue' /\ TallyExact'
  BY <1>1, <1>2, <1>3, ResultsFrame, TallyFrame
<1>9. ReportSound'
  BY <1>1, <1>2, <1>3, ReportFrame
<1>10. ExitCodeTrue'
  BY <1>3 DEF ExitCodeTrue
<1> QED
  BY <1>4, <1>5, <1>6, <1>7, <1>8, <1>9, <1>10 DEF IInv

LEMMA SigintIInv == ASSUME IInv, sigint_hook PROVE IInv'
<1>1. /\ threadExit' \in BOOLEAN
      /\ UNCHANGED <<jobs, queued, input, worker, output, collected, report, tally,
                     dir, main, code, real>>
  BY DEF sigint_hook
<1>2. N' = N /\ K' = K
  BY <1>1 DEF N, K
<1>3. Shape'
  BY <1>1, <1>2 DEF IInv, Shape
<1>4. Placed' /\ BreaksLast' /\ ResultsTrue' /\ TallyExact' /\ ReportSound'
  BY <1>1, PlacedFrame, BreaksFrame, ResultsFrame, TallyFrame, ReportFrame DEF IInv
<1>5. MainSound' /\ ExitCodeTrue'
  BY <1>1, <1>2 DEF IInv, MainSound, AllReturned, ExitCodeTrue
<1> QED
  BY <1>3, <1>4, <1>5 DEF IInv

-----------------------------------------------------------------------------
(* A worker thread *)

LEMMA WorkerSet ==
  ASSUME Shape, NEW w \in Workers, NEW r, worker' = [worker EXCEPT ![w] = r]
  PROVE  worker'[w] = r /\ \A v \in Workers \ {w} : worker'[v] = worker[v]
BY DEF Shape

LEMMA GetIInv == ASSUME IInv, NEW w \in Workers, Get(w) PROVE IInv'
<1>1. /\ Shape /\ Placed /\ BreaksLast /\ MainSound /\ ResultsTrue /\ TallyExact
      /\ ReportSound
  BY DEF IInv
<1>2. PICK x : x = Head(input)
  OBVIOUS
<1>3. /\ worker[w].pc = "get" /\ input # <<>>
      /\ worker' = [worker EXCEPT ![w] = [pc |-> "test", job |-> x]]
      /\ input' = Tail(input)
      /\ UNCHANGED <<jobs, queued, output, collected, report, tally, threadExit,
                     dir, main, code, real>>
  BY <1>2 DEF Get
<1>4. /\ N' = N /\ N \in Nat /\ input \in Seq(Nat) /\ x \in 0 .. N /\ x \in Nat
      /\ K' = K
  <2>1. x \in 0 .. N
    <3>1. input \in Seq(0 .. N)
      BY <1>1 DEF Shape
    <3> QED
      BY <1>2, <1>3, <3>1, HeadTailProperties
  <2> QED
    BY <1>1, <1>3, <2>1, Numbers DEF N, K
<1>5. /\ worker'[w] = [pc |-> "test", job |-> x] /\ worker[w].job = Break
      /\ \A v \in Workers \ {w} : worker'[v] = worker[v]
  <2>1. worker[w].job = Break
    BY <1>1, <1>3 DEF BreaksLast
  <2> QED
    BY <1>1, <1>3, <2>1, WorkerSet
<1>6. Shape'
  <2>1. input' \in Seq(0 .. N)
    BY <1>1, <1>3 DEF Shape
  <2>2. worker' \in [Workers -> [pc : {"get", "test", "run", "exit"}, job : 0 .. N]]
    BY <1>1, <1>3, <1>4 DEF Shape
  <2> QED
    BY <1>1, <1>3, <1>4, <2>1, <2>2 DEF Shape
<1>7. Placed'
  <2>1. /\ JobsIn(input) = JobsIn(input') \cup ({x} \ {Break})
        /\ Once(input') /\ x \notin JobsIn(input')
    BY <1>1, <1>2, <1>3, <1>4, QueueTail DEF Placed
  <2>2. InHand' = InHand \cup ({x} \ {Break})
    BY <1>5 DEF InHand
  <2>3. x # Break => x \notin InHand
    BY <1>1, <2>1 DEF Placed
  <2>4. OneHolder'
    <3> SUFFICES ASSUME NEW u \in Workers, NEW v \in Workers,
                        worker'[u].job = worker'[v].job, worker'[u].job # Break
                 PROVE  u = v
      BY DEF OneHolder
    <3>1. \A y \in Workers \ {w} : worker[y].job # Break => worker[y].job # x
      BY <2>3 DEF InHand
    <3>2. OneHolder
      BY <1>1 DEF Placed
    <3> QED
      BY <1>5, <3>1, <3>2 DEF OneHolder
  <2> QED
    BY <1>1, <1>3, <1>4, <2>1, <2>2, <2>3, <2>4 DEF Placed
<1>8. BreaksLast'
  <2>1. /\ DOMAIN input = 1 .. Len(input) /\ Len(input) \in Nat \ {0} /\ x = input[1]
        /\ DOMAIN input' = 1 .. Len(input) - 1
        /\ \A k \in 1 .. Len(input) - 1 : input'[k] = input[k + 1]
    BY <1>2, <1>3, <1>4, HeadTailProperties
  <2>2. \A k \in DOMAIN input' : k + 1 \in DOMAIN input /\ input'[k] = input[k + 1]
    BY <2>1
  <2>3. /\ \A v \in Workers \ {w} : Ending(v)' = Ending(v)
        /\ Ending(w)' <=> x = Break
        /\ ~ Ending(w)
    BY <1>3, <1>5 DEF Ending
  <2>4. queued' <= N' => /\ \A k \in DOMAIN input' : input'[k] # Break
                         /\ \A v \in Workers : ~ Ending(v)'
    <3>1. ASSUME queued <= N PROVE \A k \in DOMAIN input : input[k] # Break
      BY <1>1, <3>1 DEF BreaksLast
    <3>2. ASSUME queued <= N PROVE x # Break
      BY <2>1, <3>1, <3>2
    <3>3. ASSUME queued <= N PROVE \A v \in Workers : ~ Ending(v)
      BY <1>1, <3>3 DEF BreaksLast
    <3> QED
      BY <1>3, <1>4, <2>2, <2>3, <3>1, <3>2, <3>3
  <2>5. \A k, l \in DOMAIN input' : k < l /\ input'[k] = Break => input'[l] = Break
    <3> SUFFICES ASSUME NEW k \in DOMAIN input', NEW l \in DOMAIN input', k < l,
                        input'[k] = Break
                 PROVE  input'[l] = Break
      OBVIOUS
    <3>1. k + 1 < l + 1
      BY <2>1
    <3> QED
      BY <1>1, <2>2, <3>1 DEF BreaksLast
  <2>6. (\E v \in Workers : Ending(v)') => OnlyBreaks'
    <3>1. ASSUME NEW v \in Workers, Ending(v) PROVE OnlyBreaks'
      BY <1>1, <2>2, <3>1 DEF BreaksLast, OnlyBreaks
    <3>2. ASSUME x = Break PROVE OnlyBreaks'
      <4>1. \A k \in DOMAIN input' : 1 < k + 1 /\ 1 \in DOMAIN input
        BY <2>1
      <4> QED
        BY <1>1, <2>1, <2>2, <3>2, <4>1 DEF BreaksLast, OnlyBreaks
    <3> QED
      BY <2>3, <3>1, <3>2
  <2>7. \A v \in Workers : /\ worker'[v].pc \in {"get", "exit"} => worker'[v].job = Break
                           /\ worker'[v].pc = "run" => worker'[v].job # Break
    BY <1>1, <1>5 DEF BreaksLast
  <2> QED
    BY <2>4, <2>5, <2>6, <2>7 DEF BreaksLast
<1>9. main # "done"
  BY <1>1, <1>3, NotDone
<1>10. MainSound' /\ ExitCodeTrue'
  BY <1>1, <1>3, <1>4, <1>9 DEF MainSound, ExitCodeTrue
<1>11. ResultsTrue'
  <2>1. \A v \in Workers : worker'[v].pc = "run" => worker'[v] = worker[v]
    BY <1>5
  <2> QED
    BY <1>1, <1>3, <1>4, <2>1 DEF ResultsTrue, Ended, Held
<1>12. TallyExact' /\ ReportSound'
  BY <1>1, <1>3, TallyFrame, ReportFrame
<1> QED
  BY <1>6, <1>7, <1>8, <1>10, <1>11, <1>12 DEF IInv

\* A thread moves on with the job it holds.
LEMMA MovesIInv ==
  ASSUME IInv, NEW w \in Workers, NEW p \in {"run", "exit"},
         worker[w].pc = "test", worker' = [worker EXCEPT ![w].pc = p],
         p = "exit" <=> worker[w].job = Break,
         p = "run" => ~ Held(w).is_skip,
         UNCHANGED <<jobs, queued, input, output, collected, report, tally,
                     threadExit, dir, main, code, real>>
  PROVE  IInv'
<1>1. /\ Shape /\ Placed /\ BreaksLast /\ MainSound /\ ResultsTrue /\ TallyExact
      /\ ReportSound
  BY DEF IInv
<1>2. N' = N /\ K' = K /\ N \in Nat
  BY <1>1, Numbers DEF N, K
<1>3. /\ worker'[w].pc = p /\ \A v \in Workers : worker'[v].job = worker[v].job
      /\ \A v \in Workers \ {w} : worker'[v] = worker[v]
  BY <1>1 DEF Shape
<1>4. Shape'
  <2>1. worker' \in [Workers -> [pc : {"get", "test", "run", "exit"}, job : 0 .. N]]
    BY <1>1 DEF Shape
  <2> QED
    BY <1>1, <1>2, <2>1 DEF Shape
<1>5. Placed'
  <2>1. InHand' = InHand /\ OneHolder'
    BY <1>1, <1>3 DEF InHand, OneHolder, Placed
  <2> QED
    BY <1>1, <1>2, <2>1 DEF Placed
<1>6. BreaksLast'
  <2>1. worker[w] = [pc |-> "test", job |-> worker[w].job]
    BY <1>1 DEF Shape
  <2>2. \A v \in Workers : Ending(v)' <=> Ending(v)
    <3>1. Ending(w)' <=> p = "exit"
      BY <1>3 DEF Ending
    <3>2. Ending(w) <=> worker[w].job = Break
      BY <2>1 DEF Ending
    <3> QED
      BY <1>3, <3>1, <3>2 DEF Ending
  <2>3. OnlyBreaks' = OnlyBreaks
    BY DEF OnlyBreaks
  <2>4. \A v \in Workers : /\ worker'[v].pc \in {"get", "exit"} => worker'[v].job = Break
                           /\ worker'[v].pc = "run" => worker'[v].job # Break
    BY <1>1, <1>3 DEF BreaksLast
  <2> QED
    BY <1>1, <1>2, <2>2, <2>3, <2>4 DEF BreaksLast
<1>7. main # "done"
  BY <1>1, NotDone
<1>8. MainSound' /\ ExitCodeTrue'
  BY <1>1, <1>2, <1>7 DEF MainSound, ExitCodeTrue
<1>9. ResultsTrue'
  <2>1. \A v \in Workers : Held(v)' = Held(v)
    BY <1>3 DEF Held
  <2>2. \A v \in Workers : worker'[v].pc = "run" => ~ Held(v).is_skip
    BY <1>1, <1>3 DEF ResultsTrue
  <2> QED
    BY <1>1, <1>2, <2>1, <2>2 DEF ResultsTrue, Ended
<1>10. TallyExact' /\ ReportSound'
  BY <1>1, TallyFrame, ReportFrame
<1> QED
  BY <1>4, <1>5, <1>6, <1>8, <1>9, <1>10 DEF IInv

LEMMA ThreadReturnsIInv == ASSUME IInv, NEW w \in Workers, ThreadReturns(w) PROVE IInv'
<1>1. worker[w].pc = "test" /\ worker[w].job = Break
  BY DEF ThreadReturns
<1>2. /\ worker' = [worker EXCEPT ![w].pc = "exit"]
      /\ UNCHANGED <<jobs, queued, input, output, collected, report, tally,
                     threadExit, dir, main, code, real>>
  BY DEF ThreadReturns
<1>3. \A p \in {"exit"} : p \in {"run", "exit"} /\ p # "run"
  OBVIOUS
<1> QED
  BY <1>1, <1>2, <1>3, MovesIInv

LEMMA LaunchJobIInv == ASSUME IInv, NEW w \in Workers, LaunchJob(w) PROVE IInv'
BY MovesIInv DEF LaunchJob

\* A job is put on the output queue, as one of three actions leaves it.
LEMMA PutIInv ==
  ASSUME IInv, NEW w \in Workers, worker[w].pc \in {"test", "run"},
         worker[w].job # Break,
         NEW job \in JobRecords, NEW became \in Results, Left(job, became),
         Put(w, job, became),
         UNCHANGED <<queued, input, collected, report, tally, threadExit, dir,
                     main, code>>
  PROVE  IInv'
<1>1. /\ Shape /\ Placed /\ BreaksLast /\ MainSound /\ ResultsTrue /\ TallyExact
      /\ ReportSound
  BY DEF IInv
<1>2. PICK i : i = worker[w].job
  OBVIOUS
<1>3. /\ jobs' = [jobs EXCEPT ![i] = job] /\ output' = Append(output, i)
      /\ worker' = [worker EXCEPT ![w] = [pc |-> "get", job |-> Break]]
      /\ real' = [real EXCEPT ![i] = became]
  BY <1>2, Zenon DEF Put
<1>4. /\ N \in Nat /\ i \in 1 .. N /\ i \in Nat \ {Break} /\ output \in Seq(Nat)
      /\ collected \in Seq(Nat) /\ DOMAIN jobs = 1 .. N
  BY <1>1, <1>2, Numbers DEF Break
<1>5. /\ N' = N /\ K' = K /\ jobs' \in Seq(JobRecords)
      /\ jobs'[i] = job /\ \A j \in 1 .. N : j # i => jobs'[j] = jobs[j]
      /\ DOMAIN jobs' = 1 .. N
  <2>1. jobs \in Seq(JobRecords)
    BY <1>1 DEF Shape
  <2>2. jobs' \in Seq(JobRecords) /\ Len(jobs') = Len(jobs)
    BY <1>3, <1>4, <2>1, ExceptSeq DEF N
  <2>3. jobs'[i] = job /\ \A j \in 1 .. N : j # i => jobs'[j] = jobs[j]
    BY <1>3, <1>4
  <2> QED
    BY <1>4, <2>2, <2>3 DEF N, K
<1>6. /\ real' \in [1 .. N -> Results] /\ real'[i] = became
      /\ \A j \in 1 .. N : j # i => real'[j] = real[j]
  BY <1>1, <1>3, <1>4 DEF Shape
<1>7. /\ worker'[w] = [pc |-> "get", job |-> Break]
      /\ \A v \in Workers \ {w} : worker'[v] = worker[v]
  BY <1>1, <1>3, WorkerSet
<1>8. main # "done"
  BY <1>1, NotDone
<1>9. /\ i \in InHand /\ i \notin JobsIn(input) /\ i \notin JobsIn(output)
      /\ i \notin JobsIn(collected)
      /\ \A v \in Workers \ {w} : worker[v].job # i
  <2>1. i \in InHand
    BY <1>2 DEF InHand
  <2>2. \A v \in Workers \ {w} : worker[v].job # i
    BY <1>1, <1>2 DEF Placed, OneHolder
  <2> QED
    BY <1>1, <2>1, <2>2 DEF Placed
<1>10. \A k \in DOMAIN collected : collected[k] \in (1 .. N) \ {i}
  <2>1. \A k \in DOMAIN collected : collected[k] \in 1 .. N
    BY <1>1, Numbers
  <2> QED
    BY <1>4, <1>9, <2>1 DEF JobsIn
<1>11. Shape'
  <2>1. output' \in Seq(1 .. N)
    <3>1. output \in Seq(1 .. N)
      BY <1>1 DEF Shape
    <3> QED
      BY <1>3, <1>4, <3>1, AppendProperties
  <2>2. worker' \in [Workers -> [pc : {"get", "test", "run", "exit"}, job : 0 .. N]]
    BY <1>1, <1>3, <1>4 DEF Shape, Break
  <2> QED
    BY <1>1, <1>5, <1>6, <2>1, <2>2 DEF Shape
<1>12. JobsIn(output') = JobsIn(output) \cup {i} /\ Once(output')
  BY <1>1, <1>3, <1>4, <1>9, QueueAppend DEF Placed
<1>13. Placed'
  <2>1. InHand' = InHand \ {i}
    BY <1>2, <1>7, <1>9 DEF InHand
  <2>2. OneHolder'
    BY <1>1, <1>7 DEF OneHolder, Placed
  <2> QED
    BY <1>1, <1>5, <1>9, <1>12, <2>1, <2>2 DEF Placed
<1>14. BreaksLast'
  <2>1. /\ \A v \in Workers : Ending(v)' => Ending(v)
        /\ OnlyBreaks' = OnlyBreaks
    BY <1>7 DEF Ending, OnlyBreaks
  <2>2. \A v \in Workers : /\ worker'[v].pc \in {"get", "exit"} => worker'[v].job = Break
                           /\ worker'[v].pc = "run" => worker'[v].job # Break
    BY <1>1, <1>7 DEF BreaksLast
  <2> QED
    BY <1>1, <1>5, <2>1, <2>2 DEF BreaksLast
<1>15. MainSound' /\ ExitCodeTrue'
  BY <1>1, <1>5, <1>8 DEF MainSound, ExitCodeTrue
<1>16. ResultsTrue'
  <2>1. Ended' = Ended \cup {i} /\ i \notin Ended
    BY <1>9, <1>12 DEF Ended
  <2>2. ASSUME NEW j \in 1 .. N
        PROVE  IF j \in Ended' THEN Left(jobs'[j], real'[j]) ELSE ~ jobs'[j].is_break
    <3>1. CASE j = i
      BY <1>5, <1>6, <2>1, <3>1
    <3>2. CASE j # i
      BY <1>1, <1>5, <1>6, <2>1, <3>2 DEF ResultsTrue
    <3> QED
      BY <3>1, <3>2
  <2>3. ASSUME NEW v \in Workers, worker'[v].pc = "run" PROVE ~ Held(v)'.is_skip
    <3>1. worker'[v] = worker[v] /\ worker[v].job # i /\ worker[v].job \in 1 .. N
      BY <1>1, <1>4, <1>7, <1>9, <2>3, Numbers DEF BreaksLast, Break
    <3>2. Held(v)' = Held(v)
      BY <1>5, <3>1 DEF Held
    <3> QED
      BY <1>1, <2>3, <3>1, <3>2 DEF ResultsTrue
  <2>4. main = "raised" => \E j \in JobsIn(collected) : real'[j] = "broken"
    <3>1. JobsIn(collected) \subseteq 1 .. N
      BY <1>1, Numbers
    <3> QED
      BY <1>1, <1>6, <1>9, <3>1 DEF ResultsTrue
  <2> QED
    BY <1>5, <2>2, <2>3, <2>4 DEF ResultsTrue
<1>17. TallyExact'
  <2>1. \A k \in DOMAIN collected : jobs'[collected[k]] = jobs[collected[k]]
    BY <1>5, <1>10
  <2>2. \A s \in Statuses : CollectedAs(s)' = CollectedAs(s)
    BY <2>1 DEF CollectedAs
  <2> QED
    BY <1>1, <2>2 DEF TallyExact
<1>18. ReportSound'
  <2>1. \A k \in DOMAIN collected : collected[k] \in Interrupted <=> collected[k] \in Interrupted'
    BY <1>4, <1>5, <1>6, <1>10 DEF Interrupted
  <2>2. Without(collected, Interrupted') = Without(collected, Interrupted)
    BY <1>4, <2>1, WithoutSame
  <2>3. Named' = Named
    BY DEF Named
  <2>4. EntriesInOrder'
    <3>1. Without(collected, Interrupted) # <<>> => collected # <<>>
      BY WithoutEmpty
    <3>2. collected # <<>> => real'[Last(collected)] = real[Last(collected)]
      <4> SUFFICES ASSUME collected # <<>>
                   PROVE  real'[Last(collected)] = real[Last(collected)]
        OBVIOUS
      <4>1. Len(collected) \in DOMAIN collected
        BY <1>4
      <4> QED
        BY <1>6, <1>10, <4>1 DEF Last
    <3> QED
      BY <1>1, <2>2, <2>3, <3>1, <3>2 DEF ReportSound, EntriesInOrder
  <2>5. ASSUME NEW k \in DOMAIN report
        PROVE  report[k].job \in (1 .. N) \ {i} /\ report[k].job \in JobsIn(collected)
    <3>1. report[k].job \in JobsIn(collected)
      BY <1>1 DEF ReportSound
    <3> QED
      BY <1>9, <3>1, <1>10 DEF JobsIn
  <2>6. EntriesTell'
    <3>1. \A k \in DOMAIN report : /\ jobs'[report[k].job] = jobs[report[k].job]
                                   /\ real'[report[k].job] = real[report[k].job]
      BY <1>5, <1>6, <2>5
    <3> QED
      BY <1>1, <3>1 DEF ReportSound, EntriesTell
  <2> QED
    BY <1>1, <2>2, <2>3, <2>4, <2>5, <2>6 DEF ReportSound
<1> QED
  BY <1>11, <1>13, <1>14, <1>15, <1>16, <1>17, <1>18 DEF IInv

\* The job a worker holds has not been thrown back.
LEMMA HeldJob ==
  ASSUME IInv, NEW w \in Workers, worker[w].job # Break
  PROVE  Held(w) \in JobRecords /\ ~ Held(w).is_break
<1>1. Shape /\ Placed /\ ResultsTrue
  BY DEF IInv
<1>2. worker[w].job \in 1 .. N
  BY <1>1, Numbers DEF Break
<1>3. worker[w].job \in InHand
  BY DEF InHand
<1>4. worker[w].job \notin Ended
  BY <1>1, <1>3 DEF Placed, Ended
<1> QED
  BY <1>1, <1>2, <1>4, Numbers DEF ResultsTrue, Held

LEMMA ThrowBackIInv == ASSUME IInv, NEW w \in Workers, ThrowBack(w) PROVE IInv'
<1>1. PICK job : job = [Held(w) EXCEPT !.is_break = TRUE]
  OBVIOUS
<1>2. /\ worker[w].pc = "test" /\ worker[w].job # Break /\ Put(w, job, "interrupted")
      /\ UNCHANGED <<queued, input, collected, report, tally, threadExit, dir,
                     main, code>>
  BY <1>1 DEF ThrowBack
<1>3. job \in JobRecords /\ job.is_break
  BY <1>1, <1>2, HeldJob DEF JobRecords
<1>4. "interrupted" \in Results /\ Left(job, "interrupted")
  BY <1>3 DEF Results, Left
<1> QED
  BY <1>2, <1>3, <1>4, PutIInv

LEMMA SkipJobIInv == ASSUME IInv, NEW w \in Workers, SkipJob(w) PROVE IInv'
<1>1. PICK job : job = Held(w)
  OBVIOUS
<1>2. /\ worker[w].pc = "test" /\ worker[w].job # Break /\ job.is_skip
      /\ Put(w, job, "skipped")
      /\ UNCHANGED <<queued, input, collected, report, tally, threadExit, dir,
                     main, code>>
  BY <1>1 DEF SkipJob
<1>3. job \in JobRecords /\ ~ job.is_break
  BY <1>1, <1>2, HeldJob
<1>4. "skipped" \in Results /\ Left(job, "skipped")
  BY <1>2, <1>3 DEF Results, Left, CopiesFile
<1> QED
  BY <1>2, <1>3, <1>4, PutIInv

LEMMA JobEndsIInv == ASSUME IInv, NEW w \in Workers, JobEnds(w) PROVE IInv'
<1>1. worker[w].pc = "run" /\ worker[w].job # Break /\ ~ Held(w).is_skip
  BY DEF JobEnds, IInv, BreaksLast, ResultsTrue
<1>2. PICK held : held = Held(w)
  OBVIOUS
<1>3. PICK o \in Outcomes(held.kind) :
        Put(w, [held EXCEPT !.returncode = ReturnCode(o), !.file = o.file],
            IF o.exit = 0 /\ o.decodable THEN "passed" ELSE "broken")
  BY <1>2 DEF JobEnds
<1>4. PICK job : job = [held EXCEPT !.returncode = ReturnCode(o), !.file = o.file]
  OBVIOUS
<1>5. PICK became : became = IF o.exit = 0 /\ o.decodable THEN "passed" ELSE "broken"
  OBVIOUS
<1>6. Put(w, job, became)
  BY <1>3, <1>4, <1>5
<1>7. held \in JobRecords /\ ~ held.is_break /\ ~ held.is_skip
  BY <1>1, <1>2, HeldJob
<1>8. /\ o.exit \in 0 .. 3 /\ o.decodable \in BOOLEAN /\ o.file \in Files
      /\ held.kind \in Kinds
      /\ held.kind = "suite" /\ o.file = "none" => o.exit = 3
      /\ held.kind = "suite" /\ o.exit = 0 => o.file = "PASS"
  <2>1. held.kind \in Kinds
    BY <1>7 DEF JobRecords
  <2>2. /\ o \in [exit : 0 .. 3, decodable : BOOLEAN, file : Files]
        /\ IF held.kind = "example" THEN o.file = "none"
           ELSE CASE o.exit = 0 -> o.file = "PASS"
                  [] o.exit = 1 -> o.file = "FAIL"
                  [] o.exit = 2 -> o.file # "none"
                  [] OTHER -> TRUE
    BY <1>3 DEF Outcomes
  <2>3. o.exit \in 0 .. 3 /\ o.decodable \in BOOLEAN /\ o.file \in Files
    BY <2>2
  <2> QED
    BY <2>1, <2>2, <2>3
<1>9. /\ ReturnCode(o) \in 0 .. 3
      /\ ReturnCode(o) = 0 <=> o.exit = 0 /\ o.decodable
      /\ o.exit = 3 /\ ReturnCode(o) <= 2 => ~ o.decodable
  BY <1>8 DEF ReturnCode
<1>10. /\ job \in JobRecords /\ ~ job.is_break /\ ~ job.is_skip
       /\ job.kind = held.kind /\ job.returncode = ReturnCode(o) /\ job.file = o.file
  BY <1>4, <1>7, <1>8, <1>9 DEF JobRecords
<1>11. became \in {"passed", "broken"} /\ (became = "passed" <=> ReturnCode(o) = 0)
  BY <1>5, <1>9
<1>12. became \in Results
  BY <1>11 DEF Results
<1>13. Left(job, became)
  <2>1. job.kind = "suite" /\ job.returncode <= 2 /\ job.file = "none"
          => became = "broken"
    BY <1>8, <1>9, <1>10, <1>11
  <2>2. became = "passed" /\ job.kind = "suite" => job.file = "PASS"
    BY <1>8, <1>9, <1>10, <1>11
  <2> QED
    BY <1>10, <1>11, <2>1, <2>2 DEF Left, CopiesFile
<1> QED
  BY <1>1, <1>6, <1>10, <1>12, <1>13, PutIInv DEF JobEnds

-----------------------------------------------------------------------------
(* The main thread collects *)

\* The status the driver writes, and the two it counts as success.
LEMMA StatusOf ==
  ASSUME NEW job \in JobRecords
  PROVE  /\ Status(job) \in Statuses
         /\ Status(job) = "SKIP" <=> job.is_skip
         /\ Status(job) = "PASS" <=> ~ job.is_skip /\ job.returncode = 0
<1>1. job.returncode \in 0 .. 3
  BY DEF JobRecords
<1>2. CASE job.returncode = 0
  BY <1>2 DEF Status, Statuses
<1>3. CASE job.returncode = 1
  BY <1>3 DEF Status, Statuses
<1>4. CASE job.returncode = 2
  BY <1>4 DEF Status, Statuses
<1>5. CASE job.returncode = 3
  BY <1>5 DEF Status, Statuses
<1> QED
  BY <1>1, <1>2, <1>3, <1>4, <1>5

LEMMA FrontAppend ==
  ASSUME NEW s \in Seq(Nat), NEW x \in Nat
  PROVE  Append(s, x) # <<>> /\ Front(Append(s, x)) = s
<1> DEFINE t == Append(s, x)
<1>1. /\ Len(s) \in Nat /\ Len(t) = Len(s) + 1 /\ t \in Seq(Nat)
      /\ \A k \in 1 .. Len(s) : t[k] = s[k]
  BY AppendProperties
<1>2. t # <<>>
  OBVIOUS
<1> HIDE DEF t
<1>3. Front(t) = SubSeq(t, 1, Len(s))
  BY <1>1 DEF Front
<1>4. \A k \in 1 .. Len(s) : t[k] \in Nat
  BY <1>1
<1>5. /\ SubSeq(t, 1, Len(s)) \in Seq(Nat) /\ Len(SubSeq(t, 1, Len(s))) = Len(s)
      /\ \A k \in 1 .. Len(s) : SubSeq(t, 1, Len(s))[k] = s[k]
  BY <1>1, <1>4, SubSeqProperties
<1>6. SubSeq(t, 1, Len(s)) = s
  BY <1>5, SeqEqual
<1> QED
  BY <1>2, <1>3, <1>6 DEF t

\* An entry joins the report.
LEMMA NamedAppend ==
  ASSUME Shape, NEW i \in Nat, NEW e, report' = Append(report, [job |-> i, entry |-> e])
  PROVE  Named' = Append(Named, i)
<1>1. /\ Len(report) \in Nat /\ DOMAIN report = 1 .. Len(report)
      /\ DOMAIN report' = 1 .. Len(report) + 1
      /\ report'[Len(report) + 1] = [job |-> i, entry |-> e]
      /\ \A k \in 1 .. Len(report) : report'[k] = report[k]
  <2>1. report \in Seq([job : 1 .. N, entry : Entries])
    BY DEF Shape
  <2> QED
    BY <2>1
<1>2. \A k \in 1 .. Len(report) : report[k].job \in Nat
  <2>1. \A k \in 1 .. Len(report) : report[k] \in [job : 1 .. N, entry : Entries]
    <3>1. \A S : \A s \in Seq(S) : \A k \in 1 .. Len(s) : s[k] \in S
      OBVIOUS
    <3>2. report \in Seq([job : 1 .. N, entry : Entries])
      BY DEF Shape
    <3> QED
      BY <3>1, <3>2, Zenon
  <2>2. N \in Nat
    BY Numbers
  <2> QED
    BY <2>1, <2>2
<1> DEFINE L == Len(report)
<1>3. Named \in Seq(Nat) /\ Len(Named) = L
  <2>1. Named = [k \in 1 .. L |-> report[k].job]
    BY <1>1 DEF Named
  <2> QED
    BY <1>1, <1>2, <2>1, IsASeq
<1>4. \A k \in 1 .. L : Named[k] = report[k].job
  BY <1>1 DEF Named
<1> DEFINE m == Append(Named, i)
<1>5. /\ m \in Seq(Nat) /\ Len(m) = L + 1 /\ m[L + 1] = i
      /\ \A k \in 1 .. L : m[k] = report[k].job
  BY <1>3, <1>4, AppendProperties
<1>6. m = [k \in 1 .. L + 1 |-> m[k]]
  <2> HIDE DEF m
  <2>1. m \in [1 .. L + 1 -> Nat]
    BY <1>5, LenProperties
  <2> QED
    BY <2>1
<1>7. Named' = [k \in 1 .. L + 1 |-> report'[k].job]
  BY <1>1 DEF Named
<1>8. \A k \in 1 .. L + 1 : report'[k].job = m[k]
  <2> SUFFICES ASSUME NEW k \in 1 .. L + 1 PROVE report'[k].job = m[k]
    OBVIOUS
  <2> HIDE DEF m
  <2>1. CASE k = L + 1
    BY <1>1, <1>5, <2>1
  <2>2. CASE k # L + 1
    <3>1. k \in 1 .. L
      BY <1>1, <2>2
    <3> QED
      BY <1>1, <1>5, <3>1
  <2> QED
    BY <2>1, <2>2
<1> HIDE DEF m, L
<1>9. Named' = m
  BY <1>6, <1>7, <1>8, Zenon
<1> QED
  BY <1>9 DEF m

\* The entry the main thread writes tells what became of its job.
LEMMA EntryRight ==
  ASSUME NEW job \in JobRecords, NEW became, Left(job, became), ~ job.is_break,
         NEW e, e = IF CopiesFile(job) THEN job.file ELSE Status(job),
         ~ (CopiesFile(job) /\ job.file = "none")
  PROVE  EntryTells(job, became, e)
<1>1. /\ job.returncode \in 0 .. 3 /\ job.kind \in Kinds /\ job.is_skip \in BOOLEAN
      /\ job.file \in {"none", "PASS", "FAIL"}
  BY DEF JobRecords, Files
<1>2. CASE job.is_skip
  BY <1>1, <1>2 DEF Left, EntryTells, CopiesFile, Status
<1>3. CASE ~ job.is_skip /\ job.returncode = 0
  BY <1>1, <1>3 DEF Left, EntryTells, CopiesFile, Status, Kinds
<1>4. CASE ~ job.is_skip /\ job.returncode = 1
  BY <1>1, <1>4 DEF Left, EntryTells, CopiesFile, Status, Kinds
<1>5. CASE ~ job.is_skip /\ job.returncode = 2
  BY <1>1, <1>5 DEF Left, EntryTells, CopiesFile, Status, Kinds
<1>6. CASE ~ job.is_skip /\ job.returncode = 3
  BY <1>1, <1>6 DEF Left, EntryTells, CopiesFile, Status, Kinds
<1> QED
  BY <1>1, <1>2, <1>3, <1>4, <1>5, <1>6

LEMMA CollectIInv == ASSUME IInv, Collect PROVE IInv'
<1>1. /\ Shape /\ Placed /\ BreaksLast /\ MainSound /\ ResultsTrue /\ TallyExact
      /\ ReportSound
  BY DEF IInv
<1>2. PICK i : i = Head(output)
  OBVIOUS
<1>3. PICK job : job = jobs[i]
  OBVIOUS
<1>4. PICK raises : raises = (~ job.is_break /\ CopiesFile(job) /\ job.file = "none")
  OBVIOUS
<1>5. PICK e : e = IF CopiesFile(job) THEN job.file ELSE Status(job)
  OBVIOUS
<1>6. /\ main = "collect" /\ Len(collected) < N /\ output # <<>>
      /\ collected' = Append(collected, i) /\ output' = Tail(output)
      /\ UNCHANGED <<jobs, queued, input, worker, threadExit, dir, code, real>>
      /\ main' = IF raises THEN "raised" ELSE main
      /\ tally' = IF job.is_break THEN tally
                  ELSE [tally EXCEPT ![Status(job)] = @ + 1]
      /\ report' = IF job.is_break \/ raises THEN report
                   ELSE Append(report, [job |-> i, entry |-> e])
  BY <1>2, <1>3, <1>4, <1>5 DEF Collect, N
<1>7. /\ N' = N /\ K' = K /\ N \in Nat /\ i \in 1 .. N /\ i \in Nat \ {Break}
      /\ output \in Seq(Nat) /\ collected \in Seq(Nat) /\ Len(collected) \in Nat
  <2>1. i \in 1 .. N
    <3>1. output \in Seq(1 .. N)
      BY <1>1 DEF Shape
    <3> QED
      BY <1>2, <1>6, <3>1, HeadTailProperties
  <2> QED
    BY <1>1, <1>6, <2>1, Numbers DEF N, K, Break
<1>8. /\ job \in JobRecords /\ job.file \in Files /\ Status(job) \in Statuses
      /\ job.is_break \in BOOLEAN
  <2>1. job \in JobRecords
    BY <1>1, <1>3, <1>7, Numbers
  <2> QED
    BY <2>1, StatusOf DEF JobRecords
<1>9. /\ JobsIn(output) = JobsIn(output') \cup {i} /\ Once(output')
      /\ i \notin JobsIn(output')
  BY <1>1, <1>2, <1>6, <1>7, QueueTail DEF Placed
<1>10. i \notin JobsIn(collected)
  BY <1>1, <1>9 DEF Placed
<1>11. JobsIn(collected') = JobsIn(collected) \cup {i} /\ Once(collected')
  BY <1>1, <1>6, <1>7, <1>10, QueueAppend DEF Placed
<1>12. Left(job, real[i])
  BY <1>1, <1>3, <1>7, <1>9 DEF ResultsTrue, Ended
<1>13. Shape'
  <2>1. output' \in Seq(1 .. N)
    <3>1. output \in Seq(1 .. N)
      BY <1>1 DEF Shape
    <3> QED
      BY <1>6, <3>1, HeadTailProperties
  <2>2. collected' \in Seq(1 .. N) /\ Len(collected') <= N
    <3>1. collected \in Seq(1 .. N)
      BY <1>1 DEF Shape
    <3>2. collected' \in Seq(1 .. N) /\ Len(collected') = Len(collected) + 1
      BY <1>6, <1>7, <3>1, AppendProperties
    <3> QED
      BY <1>6, <1>7, <3>2
  <2>3. report' \in Seq([job : 1 .. N, entry : Entries])
    <3>1. [job |-> i, entry |-> e] \in [job : 1 .. N, entry : Entries]
      BY <1>5, <1>7, <1>8 DEF Entries
    <3>2. report \in Seq([job : 1 .. N, entry : Entries])
      BY <1>1 DEF Shape
    <3> QED
      BY <1>6, <3>1, <3>2, AppendProperties
  <2>4. tally' \in [Statuses -> Nat]
    BY <1>1, <1>6, <1>8 DEF Shape
  <2>5. main' \in {"dispatch", "collect", "raised", "done"}
    BY <1>6
  <2> QED
    BY <1>1, <1>6, <1>7, <2>1, <2>2, <2>3, <2>4, <2>5 DEF Shape
<1>14. Placed'
  <2>1. InHand' = InHand /\ OneHolder'
    BY <1>1, <1>6 DEF InHand, OneHolder, Placed
  <2> QED
    BY <1>1, <1>6, <1>7, <1>9, <1>10, <1>11, <2>1 DEF Placed
<1>15. BreaksLast'
  BY <1>1, <1>6, BreaksFrame
<1>16. MainSound' /\ ExitCodeTrue'
  BY <1>1, <1>6, <1>7 DEF MainSound, ExitCodeTrue
<1>17. ResultsTrue'
  <2>1. Ended' = Ended
    BY <1>9, <1>11 DEF Ended
  <2>2. raises => real[i] = "broken" /\ i \in JobsIn(collected')
    BY <1>4, <1>11, <1>12 DEF Left
  <2>3. main' = "raised" => \E j \in JobsIn(collected') : real[j] = "broken"
    BY <1>6, <2>2
  <2>4. \A v \in Workers : Held(v)' = Held(v)
    BY <1>6 DEF Held
  <2> QED
    BY <1>1, <1>6, <1>7, <2>1, <2>3, <2>4 DEF ResultsTrue
<1>18. TallyExact'
  <2> DEFINE L == Len(collected)
  <2>1. /\ DOMAIN collected = 1 .. L /\ DOMAIN collected' = 1 .. L + 1
        /\ collected'[L + 1] = i /\ \A k \in 1 .. L : collected'[k] = collected[k]
        /\ L \in Nat
    BY <1>6, <1>7, AppendProperties
  <2> HIDE DEF L
  <2>2. /\ jobs'[collected'[L + 1]] = job
        /\ \A k \in 1 .. L : jobs'[collected'[k]] = jobs[collected[k]]
        /\ 1 .. L + 1 = (1 .. L) \cup {L + 1} /\ L + 1 \notin 1 .. L
    BY <1>3, <1>6, <2>1
  <2> SUFFICES ASSUME NEW s \in Statuses PROVE tally'[s] = Cardinality(CollectedAs(s)')
    BY DEF TallyExact
  <2>3. /\ tally[s] = Cardinality(CollectedAs(s)) /\ IsFiniteSet(CollectedAs(s))
        /\ L + 1 \notin CollectedAs(s)
    <3>1. IsFiniteSet(1 .. L)
      BY <2>1, FS_Interval
    <3>2. CollectedAs(s) \subseteq 1 .. L
      BY <2>1 DEF CollectedAs
    <3> QED
      BY <1>1, <2>2, <3>1, <3>2, FS_Subset DEF TallyExact
  <2>4. CASE ~ job.is_break /\ Status(job) = s
    <3>1. CollectedAs(s)' = CollectedAs(s) \cup {L + 1}
      BY <2>1, <2>2, <2>4 DEF CollectedAs
    <3>2. tally'[s] = tally[s] + 1
      BY <1>1, <1>6, <2>4 DEF Shape
    <3> QED
      BY <2>3, <3>1, <3>2, FS_AddElement
  <2>5. CASE job.is_break \/ Status(job) # s
    <3>1. CollectedAs(s)' = CollectedAs(s)
      BY <2>1, <2>2, <2>5 DEF CollectedAs
    <3>2. tally'[s] = tally[s]
      BY <1>1, <1>6, <2>5 DEF Shape
    <3> QED
      BY <2>3, <3>1, <3>2
  <2> QED
    BY <1>8, <2>4, <2>5
<1>19. ReportSound'
  <2>1. Interrupted' = Interrupted /\ (i \in Interrupted <=> job.is_break)
    <3>1. DOMAIN jobs = 1 .. N
      BY <1>1, Numbers
    <3> QED
      BY <1>6, <1>7, <1>12, <3>1 DEF Interrupted, Left
  <2>2. PICK kept : kept = Without(collected, Interrupted)
    OBVIOUS
  <2>3. /\ kept \in Seq(Nat) /\ Named = kept
        /\ Without(collected, Interrupted)' = IF job.is_break THEN kept ELSE Append(kept, i)
    <3>1. Named = kept
      BY <1>1, <1>6, <2>2 DEF ReportSound
    <3>2. \A out : /\ Without(collected, out) \in Seq(Nat)
                   /\ i \in out => Without(Append(collected, i), out)
                                     = Without(collected, out)
                   /\ i \notin out => Without(Append(collected, i), out)
                                        = Append(Without(collected, out), i)
      <4>1. i \in Nat /\ collected \in Seq(Nat)
        BY <1>7
      <4> QED
        BY <4>1, WithoutAppend, Zenon
    <3>3. Without(collected, Interrupted)' = Without(Append(collected, i), Interrupted)
      BY <1>6, <2>1
    <3> QED
      BY <2>1, <2>2, <3>1, <3>2, <3>3
  <2>4. CASE job.is_break
    <3>1. Named' = Named /\ main' = "collect"
      BY <1>4, <1>6, <2>4 DEF Named
    <3>2. EntriesInOrder'
      BY <2>3, <2>4, <3>1 DEF EntriesInOrder
    <3>3. EntriesTell' /\ \A k \in DOMAIN report' : report'[k].job \in JobsIn(collected')
      BY <1>1, <1>6, <1>11, <2>4 DEF ReportSound, EntriesTell
    <3> QED
      BY <2>3, <2>4, <3>1, <3>2, <3>3 DEF ReportSound
  <2>5. CASE ~ job.is_break /\ ~ raises
    <3>1. Named' = Append(Named, i)
      BY <1>1, <1>6, <1>7, <2>5, NamedAppend
    <3>2. EntriesInOrder'
      BY <2>3, <2>5, <3>1 DEF EntriesInOrder
    <3>3. EntryTells(job, real[i], e)
      BY <1>4, <1>5, <1>8, <1>12, <2>5, EntryRight
    <3> DEFINE L == Len(report)
    <3>4. /\ DOMAIN report = 1 .. L /\ DOMAIN report' = 1 .. L + 1 /\ L \in Nat
          /\ report'[L + 1] = [job |-> i, entry |-> e]
          /\ \A k \in 1 .. L : report'[k] = report[k]
      <4>1. report \in Seq([job : 1 .. N, entry : Entries])
        BY <1>1 DEF Shape
      <4>2. report' = Append(report, [job |-> i, entry |-> e])
        BY <1>6, <2>5
      <4> QED
        BY <4>1, <4>2
    <3> HIDE DEF L
    <3>5. ASSUME NEW k \in DOMAIN report'
          PROVE  /\ EntryTells(jobs[report'[k].job], real[report'[k].job], report'[k].entry)
                 /\ report'[k].job \in JobsIn(collected')
      <4>1. CASE k = L + 1
        BY <1>3, <1>11, <3>3, <3>4, <4>1
      <4>2. CASE k # L + 1
        <5>1. k \in DOMAIN report /\ report'[k] = report[k]
          BY <3>4, <3>5, <4>2
        <5> QED
          BY <1>1, <1>11, <5>1 DEF ReportSound, EntriesTell
      <4> QED
        BY <4>1, <4>2
    <3>6. EntriesTell'
      BY <1>6, <3>5 DEF EntriesTell
    <3> QED
      BY <2>3, <2>5, <3>1, <3>2, <3>5, <3>6 DEF ReportSound
  <2>6. CASE ~ job.is_break /\ raises
    <3>1. Named' = Named /\ main' = "raised" /\ code' = 1
      BY <1>1, <1>6, <2>6 DEF Named, MainSound
    <3>2. Append(kept, i) # <<>> /\ Front(Append(kept, i)) = kept
      BY <1>7, <2>3, FrontAppend
    <3>3. Without(collected, Interrupted)' = Append(kept, i)
      BY <2>3, <2>6
    <3>4. real'[Last(collected')] = "broken"
      <4>1. Last(collected') = i
        BY <1>6, <1>7 DEF Last
      <4> QED
        BY <1>4, <1>6, <1>12, <2>6, <4>1 DEF Left
    <3>5. EntriesInOrder'
      BY <2>3, <3>1, <3>2, <3>3, <3>4 DEF EntriesInOrder
    <3>6. EntriesTell' /\ \A k \in DOMAIN report' : report'[k].job \in JobsIn(collected')
      BY <1>1, <1>6, <1>11, <2>6 DEF ReportSound, EntriesTell
    <3> QED
      BY <3>1, <3>5, <3>6 DEF ReportSound
  <2> QED
    BY <1>4, <2>4, <2>5, <2>6
<1> QED
  BY <1>13, <1>14, <1>15, <1>16, <1>17, <1>18, <1>19 DEF IInv

\* When as many jobs have been collected as there are, all of them have.
LEMMA AllCollected ==
  ASSUME Shape, Placed, Len(collected) = N
  PROVE  JobsIn(collected) = 1 .. N
<1>1. N \in Nat /\ DOMAIN collected = 1 .. N /\ collected \in [1 .. N -> 1 .. N]
  <2>1. N \in Nat /\ collected \in Seq(1 .. N)
    BY Numbers, Zenon DEF Shape
  <2> QED
    BY <2>1, LenProperties
<1>2. collected \in Injection(1 .. N, 1 .. N)
  <2>1. \A k \in 1 .. N : collected[k] # Break
    BY <1>1 DEF Break
  <2>2. \A k, l \in 1 .. N : collected[k] = collected[l] => k = l
    BY <1>1, <2>1 DEF Placed, Once
  <2> QED
    BY <1>1, <2>2 DEF Injection, IsInjective
<1>3. IsFiniteSet(1 .. N)
  BY <1>1, FS_Interval
<1>4. collected \in Surjection(1 .. N, 1 .. N)
  BY <1>2, <1>3, FS_Injection
<1>5. \A i \in 1 .. N : \E k \in 1 .. N : collected[k] = i
  BY <1>4 DEF Surjection
<1> QED
  BY <1>1, <1>5 DEF JobsIn, Break

\* The two counters add up to the number of jobs exactly when every job passed
\* or was skipped.
LEMMA TallyTells ==
  ASSUME IInv, Len(collected) = N
  PROVE  tally["PASS"] + tally["SKIP"] = N
           <=> \A i \in 1 .. N : real[i] \in {"passed", "skipped"}
<1>1. /\ Shape /\ Placed /\ ResultsTrue /\ TallyExact
      /\ N \in Nat /\ DOMAIN collected = 1 .. N
      /\ \A k \in 1 .. N : collected[k] \in 1 .. N
  <2>1. Shape /\ Placed /\ ResultsTrue /\ TallyExact
    BY DEF IInv
  <2>2. N \in Nat /\ collected \in Seq(Nat)
        /\ \A k \in DOMAIN collected : collected[k] \in 1 .. N
    BY <2>1, Numbers
  <2>3. DOMAIN collected = 1 .. N
    BY <2>2
  <2> QED
    BY <2>1, <2>2, <2>3
<1>2. JobsIn(collected) = 1 .. N
  BY <1>1, AllCollected
<1> DEFINE P == CollectedAs("PASS")
           S == CollectedAs("SKIP")
<1>3. P \subseteq 1 .. N /\ S \subseteq 1 .. N /\ P \cap S = {}
  BY <1>1 DEF CollectedAs
<1>4. tally["PASS"] = Cardinality(P) /\ tally["SKIP"] = Cardinality(S)
  BY <1>1 DEF TallyExact, Statuses
<1>5. \A i \in 1 .. N : jobs[i] \in JobRecords /\ Left(jobs[i], real[i])
  BY <1>1, <1>2, Numbers DEF ResultsTrue, Ended
<1>6. \A k \in 1 .. N : k \in P \cup S <=> real[collected[k]] \in {"passed", "skipped"}
  <2> SUFFICES ASSUME NEW k \in 1 .. N
               PROVE  k \in P \cup S <=> real[collected[k]] \in {"passed", "skipped"}
    OBVIOUS
  <2>1. PICK job : job = jobs[collected[k]]
    OBVIOUS
  <2>2. job \in JobRecords /\ Left(job, real[collected[k]])
    BY <1>1, <1>5, <2>1
  <2>3. k \in P \cup S <=> ~ job.is_break /\ Status(job) \in {"PASS", "SKIP"}
    BY <1>1, <2>1 DEF CollectedAs
  <2>4. Status(job) \in {"PASS", "SKIP"} <=> job.is_skip \/ job.returncode = 0
    BY <2>2, StatusOf
  <2> QED
    BY <2>2, <2>3, <2>4 DEF Left
<1>7. (P \cup S = 1 .. N) <=> \A i \in 1 .. N : real[i] \in {"passed", "skipped"}
  <2>1. \A i \in 1 .. N : \E k \in 1 .. N : collected[k] = i
    BY <1>1, <1>2 DEF JobsIn
  <2> HIDE DEF P, S
  <2> QED
    BY <1>1, <1>3, <1>6, <2>1
<1>8. (Cardinality(P) + Cardinality(S) = N) <=> P \cup S = 1 .. N
  <2> HIDE DEF P, S
  <2>1. IsFiniteSet(1 .. N) /\ Cardinality(1 .. N) = N
    BY <1>1, FS_Interval
  <2>2. IsFiniteSet(P) /\ IsFiniteSet(S)
    BY <1>3, <2>1, FS_Subset
  <2>3. Cardinality(P) \in Nat /\ Cardinality(S) \in Nat /\ Cardinality(P \cap S) = 0
    BY <1>3, <2>2, FS_CardinalityType, FS_EmptySet
  <2>4. Cardinality(P \cup S) = Cardinality(P) + Cardinality(S)
    <3>1. Cardinality(P \cup S)
            = Cardinality(P) + Cardinality(S) - Cardinality(P \cap S)
      BY <2>2, FS_Union
    <3> QED
      BY <2>3, <3>1
  <2>5. P \cup S \in SUBSET (1 .. N)
    BY <1>3
  <2>6. Cardinality(1 .. N) = Cardinality(P \cup S) => 1 .. N = P \cup S
    BY <2>1, <2>5, FS_Subset
  <2> QED
    BY <2>1, <2>4, <2>6
<1> QED
  BY <1>4, <1>7, <1>8

LEMMA FinishIInv == ASSUME IInv, Finish PROVE IInv'
<1>1. /\ Shape /\ Placed /\ BreaksLast /\ MainSound /\ ResultsTrue /\ TallyExact
      /\ ReportSound
  BY DEF IInv
<1>2. /\ main = "collect" /\ Len(collected) = N /\ AllReturned /\ dir' \in BOOLEAN
      /\ code' = IF tally["PASS"] + tally["SKIP"] = N THEN 0 ELSE 1
      /\ main' = "done"
      /\ UNCHANGED <<jobs, queued, input, worker, output, collected, report, tally,
                     threadExit, real>>
  BY DEF Finish, N
<1>3. N' = N /\ K' = K /\ code' \in 0 .. 1 /\ DOMAIN jobs = 1 .. N
  BY <1>1, <1>2, Numbers DEF N, K
<1>4. Shape'
  BY <1>1, <1>2, <1>3 DEF Shape
<1>5. Placed' /\ BreaksLast' /\ ResultsTrue' /\ TallyExact'
  BY <1>1, <1>2, PlacedFrame, BreaksFrame, ResultsFrame, TallyFrame
<1>6. MainSound'
  BY <1>1, <1>2, <1>3 DEF MainSound, AllReturned
<1>7. ReportSound'
  BY <1>1, <1>2 DEF ReportSound, EntriesInOrder, EntriesTell, EntryTells,
       Interrupted, Named
<1>8. ExitCodeTrue'
  <2>1. code' = 0 <=> \A i \in 1 .. N : real[i] \in {"passed", "skipped"}
    BY <1>2, TallyTells
  <2> QED
    BY <1>2, <1>3, <2>1 DEF ExitCodeTrue
<1> QED
  BY <1>4, <1>5, <1>6, <1>7, <1>8 DEF IInv

LEMMA InterpreterExitsIInv == ASSUME IInv, InterpreterExits PROVE IInv'
<1>1. /\ Shape /\ Placed /\ BreaksLast /\ MainSound /\ ResultsTrue /\ TallyExact
      /\ ReportSound
  BY DEF IInv
<1>2. /\ main = "raised" /\ AllReturned /\ main' = "done" /\ code' = 1
      /\ UNCHANGED <<jobs, queued, input, worker, output, collected, report, tally,
                     threadExit, dir, real>>
  BY DEF InterpreterExits
<1>3. N' = N /\ K' = K
  BY <1>2 DEF N, K
<1>4. Shape'
  BY <1>1, <1>2, <1>3 DEF Shape
<1>5. Placed' /\ BreaksLast' /\ ResultsTrue' /\ TallyExact'
  BY <1>1, <1>2, PlacedFrame, BreaksFrame, ResultsFrame, TallyFrame
<1>6. MainSound'
  BY <1>1, <1>2, <1>3 DEF MainSound, AllReturned
<1>7. ReportSound'
  BY <1>1, <1>2 DEF ReportSound, EntriesInOrder, EntriesTell, EntryTells,
       Interrupted, Named
<1>8. ExitCodeTrue'
  <2>1. \E i \in DOMAIN jobs : real[i] = "broken"
    BY <1>1, <1>2, Numbers DEF ResultsTrue
  <2> QED
    BY <1>2, <2>1 DEF ExitCodeTrue
<1> QED
  BY <1>4, <1>5, <1>6, <1>7, <1>8 DEF IInv

-----------------------------------------------------------------------------
(* Results *)

LEMMA NextIInv == IInv /\ [Next]_vars => IInv'
<1> SUFFICES ASSUME IInv, [Next]_vars PROVE IInv'
  OBVIOUS
<1>1. CASE DispatchJob
  BY <1>1, DispatchJobIInv
<1>2. CASE DispatchBreak
  BY <1>2, DispatchBreakIInv
<1>3. CASE Collect
  BY <1>3, CollectIInv
<1>4. CASE Finish
  BY <1>4, FinishIInv
<1>5. CASE InterpreterExits
  BY <1>5, InterpreterExitsIInv
<1>6. CASE sigint_hook
  BY <1>6, SigintIInv
<1>7. ASSUME NEW w \in Workers, WorkerStep(w) PROVE IInv'
  BY <1>7, GetIInv, ThreadReturnsIInv, ThrowBackIInv, SkipJobIInv, LaunchJobIInv,
     JobEndsIInv, Zenon DEF WorkerStep
<1>8. CASE UNCHANGED vars
  <2>1. UNCHANGED <<jobs, queued, input, worker, output, collected, report, tally,
                    threadExit, dir, main, code, real>>
    BY <1>8 DEF vars
  <2>2. N' = N /\ K' = K
    BY <2>1 DEF N, K
  <2>3. Shape'
    BY <2>1, <2>2 DEF IInv, Shape
  <2>4. Placed' /\ BreaksLast' /\ ResultsTrue' /\ TallyExact' /\ ReportSound'
    BY <2>1, PlacedFrame, BreaksFrame, ResultsFrame, TallyFrame, ReportFrame DEF IInv
  <2>5. MainSound' /\ ExitCodeTrue'
    BY <2>1, <2>2 DEF IInv, MainSound, AllReturned, ExitCodeTrue
  <2> QED
    BY <2>3, <2>4, <2>5 DEF IInv
<1> QED
  BY <1>1, <1>2, <1>3, <1>4, <1>5, <1>6, <1>7, <1>8 DEF Next, MainStep

LEMMA Typed == IInv => TypeOK
<1> SUFFICES ASSUME IInv PROVE TypeOK
  OBVIOUS
<1>1. Shape /\ MainSound /\ TallyExact
  BY DEF IInv
<1>2. N \in Nat /\ K \in Nat /\ queued \in Nat
  BY <1>1, Numbers, WorkersCounted DEF Shape
<1>3. queued \in 0 .. Len(jobs) + Cardinality(Workers)
  <2>1. queued <= N + K
    BY <1>1, <1>2 DEF MainSound
  <2> QED
    BY <1>2, <2>1 DEF N, K
<1>4. ToSet(input) \subseteq 0 .. Len(jobs)
  <2>1. \A S : \A s \in Seq(S) : \A k \in DOMAIN s : s[k] \in S
    OBVIOUS
  <2>2. input \in Seq(0 .. N)
    BY <1>1 DEF Shape
  <2>3. \A k \in DOMAIN input : input[k] \in 0 .. N
    BY <2>1, <2>2, Zenon
  <2> QED
    BY <2>3 DEF ToSet, N
<1>5. \A s \in DOMAIN tally : tally[s] \in 0 .. Len(jobs)
  <2> SUFFICES ASSUME NEW s \in Statuses PROVE tally[s] \in 0 .. N
    BY <1>1 DEF Shape, N
  <2>1. tally[s] = Cardinality(CollectedAs(s))
    BY <1>1 DEF TallyExact
  <2>2. PICK L : L = Len(collected)
    OBVIOUS
  <2>3. L \in Nat /\ L <= N /\ DOMAIN collected = 1 .. L
    <3>1. collected \in Seq(Nat)
      BY <1>1, Numbers
    <3> QED
      BY <1>1, <2>2, <3>1 DEF Shape
  <2>4. CollectedAs(s) \in SUBSET (1 .. L)
    BY <2>3 DEF CollectedAs
  <2>5. IsFiniteSet(1 .. L) /\ Cardinality(1 .. L) = L
    BY <2>3, FS_Interval
  <2>6. Cardinality(CollectedAs(s)) \in Nat /\ Cardinality(CollectedAs(s)) <= L
    BY <2>4, <2>5, FS_Subset, FS_CardinalityType
  <2> QED
    BY <1>2, <2>1, <2>3, <2>6
<1> QED
  BY <1>1, <1>3, <1>4, <1>5 DEF TypeOK, Shape, N

LEMMA Conserved == IInv => JobsConserved
<1> SUFFICES ASSUME IInv PROVE JobsConserved
  OBVIOUS
<1>1. Shape /\ Placed /\ BreaksLast
  BY DEF IInv
<1> DEFINE times(s, i) == Cardinality({k \in DOMAIN s : s[k] = i})
           held(i) == Cardinality({w \in Workers : worker[w].job = i})
<1>2. ASSUME NEW i \in 1 .. N
      PROVE  times(input, i) + times(output, i) + times(collected, i) + held(i)
               = IF i <= queued THEN 1 ELSE 0
  <2>1. i \in Nat \ {Break}
    BY <1>1, Numbers DEF Break
  <2>2. /\ times(input, i) = IF i \in JobsIn(input) THEN 1 ELSE 0
        /\ times(output, i) = IF i \in JobsIn(output) THEN 1 ELSE 0
        /\ times(collected, i) = IF i \in JobsIn(collected) THEN 1 ELSE 0
    BY <1>1, <2>1, Numbers, TimesIn DEF Placed
  <2>3. held(i) = IF i \in InHand THEN 1 ELSE 0
    BY <1>1, <2>1, TimesHeld DEF Placed
  <2> HIDE DEF times, held
  <2>4. (i \in JobsIn(input) \/ i \in InHand \/ i \in JobsIn(output)
           \/ i \in JobsIn(collected)) <=> i <= queued
    BY <1>1 DEF Placed
  <2>5. /\ i \in JobsIn(input) => i \notin InHand /\ i \notin JobsIn(output)
                                   /\ i \notin JobsIn(collected)
        /\ i \in InHand => i \notin JobsIn(output) /\ i \notin JobsIn(collected)
        /\ i \in JobsIn(output) => i \notin JobsIn(collected)
    BY <1>1 DEF Placed
  <2>6. CASE i \in JobsIn(input)
    BY <2>2, <2>3, <2>4, <2>5, <2>6
  <2>7. CASE i \in InHand
    BY <2>2, <2>3, <2>4, <2>5, <2>7
  <2>8. CASE i \in JobsIn(output)
    BY <2>2, <2>3, <2>4, <2>5, <2>8
  <2>9. CASE i \in JobsIn(collected)
    BY <2>2, <2>3, <2>4, <2>5, <2>9
  <2>10. CASE ~ (i <= queued)
    BY <2>2, <2>3, <2>4, <2>10
  <2> QED
    BY <2>4, <2>6, <2>7, <2>8, <2>9, <2>10
<1>3. (\E w \in Workers : worker[w].pc = "exit") => ToSet(input) \subseteq {Break}
  BY <1>1 DEF BreaksLast, Ending, OnlyBreaks, ToSet
<1> QED
  BY <1>2, <1>3 DEF JobsConserved, N

LEMMA DirectorySafe == IInv => DirectoryOutlivesJobs
<1> SUFFICES ASSUME IInv PROVE DirectoryOutlivesJobs
  OBVIOUS
<1>1. MainSound
  BY DEF IInv
<1>2. ASSUME NEW w \in Workers, worker[w].pc = "run" PROVE dir
  <2>1. main # "done"
    BY <1>1, <1>2, NotDone
  <2> QED
    BY <1>1, <2>1 DEF MainSound
<1> QED
  BY <1>1, <1>2 DEF DirectoryOutlivesJobs, MainSound

LEMMA AlwaysIInv == Spec => []IInv
BY InitIInv, NextIInv, PTL DEF Spec

\* Whatever the number of workers and jobs and whenever SIGINT arrives, the
\* threads of test.py lose no job and run none twice, no worker returns while
\* jobs are queued, no process outlives the temporary directory and no thread
\* the driver.
THEOREM JobsSafeCorrect == Spec => []JobsSafe
<1>1. IInv => JobsSafe
  BY Typed, Conserved, DirectorySafe DEF JobsSafe
<1> QED
  BY AlwaysIInv, <1>1, PTL

\* The code test.py exits with is 0 exactly when every job passed or was
\* skipped: counters of what was collected are compared with the number of
\* jobs, and an interrupt, an undecodable output or an exception is an error.
THEOREM ExitCodeCorrect == Spec => []ExitCodeTrue
<1>1. IInv => ExitCodeTrue
  BY DEF IInv
<1> QED
  BY AlwaysIInv, <1>1, PTL

\* results.xml names, in the order they ended, the jobs collected that were
\* not thrown back, except one whose results file is missing, and tells passed,
\* skipped and crashed jobs apart; what it shows of a suite with code 1 or 2 is
\* the suite's own file.
THEOREM ReportMatchesCorrect == Spec => []ReportMatches
<1>1. IInv => ReportMatches
  BY DEF IInv, ReportSound, EntriesTell, ReportMatches
<1> QED
  BY AlwaysIInv, <1>1, PTL
=============================================================================
