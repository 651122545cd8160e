----------------------------- MODULE DrrFairness -----------------------------
(***************************************************************************)
(* How evenly DrrQueueDisc serves two flows.  The disc is extended with    *)
(* two history variables that compare each pair of flows since the later   *)
(* of the two became active: turnLead counts the turns (quantum grants)    *)
(* and byteLead the bytes that one got more than the other.                *)
(***************************************************************************)
EXTENDS DrrQueueDisc

VARIABLES turnLead, byteLead

fairVars == <<vars, turnLead, byteLead>>

Pairs == Flows \X Flows

FairInit ==
  /\ Init
  /\ turnLead = [p \in Pairs |-> 0]
  /\ byteLead = [p \in Pairs |-> 0]

\* Flow f gains n over every flow that is active with it.
Gain(lead, f, n) ==
  [p \in Pairs |->
     IF p[1] = p[2] \/ \E g \in {p[1], p[2]} : m_status[g] = "INACTIVE" THEN 0
     ELSE IF p[1] = f THEN lead[p] + n
     ELSE IF p[2] = f THEN lead[p] - n ELSE lead[p]]

\* The comparison with f starts afresh.
Restart(lead, f) ==
  [p \in Pairs |-> IF f \in {p[1], p[2]} THEN 0 ELSE lead[p]]

\* A turn begins when the loop grants the head flow its quantum.
TurnBegins == IF m_hasDeficitBumped[Head(m_activeList)] THEN 0 ELSE 1

FairEnqueue(f, s) ==
  /\ Enqueue(f, s)
  /\ IF m_status[f] = "INACTIVE"
     THEN /\ turnLead' = Restart(turnLead, f)
          /\ byteLead' = Restart(byteLead, f)
     ELSE UNCHANGED <<turnLead, byteLead>>

FairServe ==
  /\ ServeFlow
  /\ LET f == Head(m_activeList)
     IN  /\ turnLead' = Gain(turnLead, f, TurnBegins)
         /\ byteLead' = Gain(byteLead, f, Head(fifo[f]).size)

FairSkip ==
  /\ SkipFlow
  /\ turnLead' = Gain(turnLead, Head(m_activeList), TurnBegins)
  /\ UNCHANGED byteLead

FairOther ==
  /\ DequeueRequeued \/ Dequeue \/ Peek \/ ReturnNull
  /\ UNCHANGED <<turnLead, byteLead>>

FairNext == \/ \E f \in Flows, s \in Sizes : FairEnqueue(f, s)
            \/ FairServe \/ FairSkip \/ FairOther

FairnessSpec == FairInit /\ [][FairNext]_fairVars /\ WF_vars(Loop)

-----------------------------------------------------------------------------
BothActive(f, g) == f # g /\ m_status[f] = "ACTIVE" /\ m_status[g] = "ACTIVE"

\* Turns are dealt round robin: of two flows active together neither is ever
\* more than one turn ahead, whoever joins, runs empty or is dropped from.
TurnsAlternate ==
  \A f, g \in Flows : BothActive(f, g) => turnLead[<<f, g>>] \in -1 .. 1

\* What a waiting flow may carry over: see DeficitBounded.
CarryOver == {Quantum} \cup {s - 1 : s \in Sizes}

\* The bytes sent by two flows active together never drift apart by more than
\* a constant, however long they are active: the fairness that the per-flow
\* byte deficit is there for.
BytesFair ==
  \A f, g \in Flows : BothActive(f, g) =>
    \E c \in CarryOver : \/ byteLead[<<f, g>>] <= 2 * Quantum + c
                         \/ byteLead[<<f, g>>] <= 2 * c

\* Service is fair: turns alternate, bytes stay within a bound of each other,
\* and no flow hoards credit while it waits (DeficitBounded), over overflow
\* drops, flows that run empty and turns that span several calls of DoDequeue.
ServiceFair == DeficitBounded /\ TurnsAlternate /\ BytesFair
=============================================================================
