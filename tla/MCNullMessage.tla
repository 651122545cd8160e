---------------------------- MODULE MCNullMessage ----------------------------
(* NullMessageSimulatorImpl for TLC: the programs it is checked with. *)
EXTENDS NullMessageSimulatorImpl

Program(percent, end, bound, starts, stops, links) ==
  [ranks |-> UNION DOMAIN links, tune |-> percent, stop |-> end, max |-> bound,
   starts |-> starts, mayStop |-> stops, delay |-> links]

\* A chain of three ranks with two delays; two ranks far apart whose null
\* messages go out before the delay is over, one of which may stop early; two
\* parallel channels with different delays; two ranks without a link.
MCPrograms ==
  {Program(100, 4, 1, {1, 2, 3}, {},
           [l \in {{1, 2}, {2, 3}} |-> [c \in {1} |-> IF l = {1, 2} THEN 1 ELSE 2]]),
   Program(70, 5, 2, {1, 2}, {1}, [l \in {{1, 2}} |-> [c \in {1} |-> 3]]),
   Program(100, 4, 3, {1}, {}, [l \in {{1, 2}} |-> [c \in {1, 2} |-> 4 - c]]),
   [ranks |-> {1, 3}, tune |-> 100, stop |-> 2, max |-> 1, starts |-> {1},
    mayStop |-> {}, delay |-> [l \in {} |-> <<>>]]}
=============================================================================
