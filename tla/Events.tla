------------------------------- MODULE Events -------------------------------
(***************************************************************************)
(* Scheduler::Event (core/model/scheduler.h), reduced to the part of its   *)
(* key that orders it: the time stamp and the unique id.                   *)
(***************************************************************************)
EXTENDS Integers

\* operator < on Scheduler::EventKey.
Before(a, b) == a.ts < b.ts \/ (a.ts = b.ts /\ a.uid < b.uid)

\* The event that a scheduler holding S must hand out next.
Earliest(S) == CHOOSE e \in S : \A f \in S \ {e} : Before(e, f)
=============================================================================
