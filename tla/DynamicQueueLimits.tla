------------------------- MODULE DynamicQueueLimits -------------------------
(***************************************************************************)
(* ns3::DynamicQueueLimits (network/utils/dynamic-queue-limits.cc): the    *)
(* byte queue limit that adapts itself on every completion, as operators   *)
(* on a record with the fields of the class.                               *)
(*                                                                         *)
(* Counters are unsigned words that wrap at Word.  Two things the code     *)
(* leaves open are in the choice c of Completed: whether the hold time has *)
(* elapsed (any time may pass between two completions), and what the       *)
(* signed subtraction of Posdiff yields where it overflows.                *)
(***************************************************************************)
EXTENDS Integers, FiniteSetsExt

CONSTANTS
  Word,       \* 2^32
  MaxObject,  \* DQL_MAX_OBJECT
  MinLimit,   \* attribute MinLimit
  MaxLimit    \* attribute MaxLimit, at most DQL_MAX_LIMIT

ASSUME WordAssumption ==
  /\ Word \in Nat \ {0} /\ Word % 2 = 0
  /\ MaxObject \in Nat \ {0} /\ MinLimit \in Nat /\ MaxLimit \in Nat
  /\ MinLimit <= MaxLimit /\ MaxLimit + MaxObject < Word \div 2

Outcomes == [elapsed : BOOLEAN, wraps : BOOLEAN]

Unsigned(n) == n % Word
Signed(n) == LET u == Unsigned(n) IN IF u >= Word \div 2 THEN u - Word ELSE u

\* Posdiff converts both arguments to int32_t; where a - b overflows, either
\* the wrapped or the true difference is compared with 0.
Posdiff(a, b, c) ==
  Unsigned(Max({0, IF c.wraps THEN Signed(Signed(a) - Signed(b))
                   ELSE Signed(a) - Signed(b)}))

\* The constructor: Reset does not initialise m_adjLimit, which holds garbage
\* until the first completion.
NewLimits(garbage) ==
  [m_limit |-> 0, m_numQueued |-> 0, m_numCompleted |-> 0, m_lastObjCnt |-> 0,
   m_prevNumQueued |-> 0, m_prevLastObjCnt |-> 0, m_prevOvlimit |-> 0,
   m_lowestSlack |-> Word - 1, m_adjLimit |-> garbage]

Queued(q, count) ==
  [q EXCEPT !.m_lastObjCnt = count, !.m_numQueued = Unsigned(@ + count)]

Available(q) == Signed(q.m_adjLimit - q.m_numQueued)

\* The limit and the lowest slack that Completed computes, bounds aside.
Starved(q, count, c) ==
  LET completed == Unsigned(q.m_numCompleted + count)
  IN  \/ /\ Posdiff(q.m_numQueued - q.m_numCompleted, q.m_limit, c) # 0
         /\ completed = q.m_numQueued
      \/ /\ q.m_prevOvlimit # 0
         /\ Signed(completed - q.m_prevNumQueued) >= 0
BusyThroughout(q, count) ==
  LET completed == Unsigned(q.m_numCompleted + count)
  IN  /\ completed # q.m_numQueued
      /\ q.m_prevNumQueued # q.m_numCompleted
      /\ Signed(completed - q.m_prevNumQueued) < 0

Slack(q, count, c) ==
  LET lastObjs == IF q.m_prevOvlimit = 0 THEN 0
                  ELSE Posdiff(q.m_prevLastObjCnt, q.m_prevOvlimit, c)
  IN  Min({q.m_lowestSlack,
           Max({Posdiff(q.m_limit + q.m_prevOvlimit, 2 * count, c), lastObjs})})

Adapted(q, count, c) ==
  IF Starved(q, count, c)
  THEN <<Unsigned(q.m_limit + q.m_prevOvlimit
                  + Posdiff(q.m_numCompleted + count, q.m_prevNumQueued, c)),
         Word - 1>>
  ELSE IF ~ BusyThroughout(q, count) THEN <<q.m_limit, q.m_lowestSlack>>
  ELSE IF c.elapsed
  THEN <<Posdiff(q.m_limit, Slack(q, count, c), c), Word - 1>>
  ELSE <<q.m_limit, Slack(q, count, c)>>

Bounded(limit) == Min({Max({limit, MinLimit}), MaxLimit})

Completed(q, count, c) ==
  LET completed == Unsigned(q.m_numCompleted + count)
      adapted == Adapted(q, count, c)
      limit == Bounded(adapted[1])
      ovlimit == Posdiff(q.m_numQueued - q.m_numCompleted, q.m_limit, c)
  IN  [q EXCEPT !.m_limit = limit,
                !.m_lowestSlack = adapted[2],
                !.m_adjLimit = Unsigned(limit + completed),
                !.m_prevOvlimit = IF limit = q.m_limit THEN ovlimit ELSE 0,
                !.m_prevLastObjCnt = q.m_lastObjCnt,
                !.m_numCompleted = completed,
                !.m_prevNumQueued = q.m_numQueued]

InFlight(q) == Unsigned(q.m_numQueued - q.m_numCompleted)
=============================================================================
