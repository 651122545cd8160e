----------------------------- MODULE SfqFairness -----------------------------
(***************************************************************************)
(* How evenly SfqQueueDisc serves two flows: the disc with a history       *)
(* variable that compares, for each pair of flows, the packets each has    *)
(* sent since the later of the two joined m_flowList.                      *)
(***************************************************************************)
EXTENDS SfqQueueDisc

VARIABLE lead

fairVars == <<vars, lead>>

Pairs == Flows \X Flows

Both(p) == /\ p[1] # p[2]
           /\ m_status[p[1]] = "SFQ_IN_USE" /\ m_status[p[2]] = "SFQ_IN_USE"

FairInit == Init /\ lead = [p \in Pairs |-> 0]

FairEnqueue(f, s) ==
  /\ Enqueue(f, s)
  /\ lead' = [p \in Pairs |-> IF Both(p) THEN lead[p] ELSE 0]

FairServe ==
  /\ ServeFlow
  /\ LET f == Head(m_flowList)
     IN  lead' = [p \in Pairs |-> IF ~ Both(p) THEN 0
                                  ELSE IF p[1] = f THEN lead[p] + 1
                                  ELSE IF p[2] = f THEN lead[p] - 1
                                  ELSE lead[p]]

FairOther ==
  /\ \/ DequeueRequeued \/ ReturnNull \/ SkipFlow
     \/ \E peek \in BOOLEAN : CallDoDequeue(peek)
  /\ UNCHANGED lead

FairNext == \/ \E f \in Flows, s \in Sizes : FairEnqueue(f, s)
            \/ FairServe \/ FairOther

FairnessSpec == FairInit /\ [][FairNext]_fairVars /\ WF_vars(Loop)

-----------------------------------------------------------------------------
\* Service is round robin by packet: of two flows in the list together neither
\* is ever more than one packet ahead, whoever joins, leaves or is dropped
\* from meanwhile.
PacketsAlternate == \A p \in Pairs : Both(p) => lead[p] \in -1 .. 1
=============================================================================
