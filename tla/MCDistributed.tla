---------------------------- MODULE MCDistributed ----------------------------
EXTENDS DistributedSimulatorImpl

\* Three ranks: a chain with two delays, a chain with a link that has none, a
\* triangle whose direct link is no faster than the detour, one link and a rank
\* without any, no link at all.
Topology(d12, d23, d13) ==
  [p \in Links |-> CASE p = {1, 2} -> d12 [] p = {2, 3} -> d23 [] OTHER -> d13]
MCTopologies == {Topology(1, 2, Infinity), Topology(0, 1, Infinity), Topology(1, 1, 3),
                 Topology(1, Infinity, Infinity),
                 Topology(Infinity, Infinity, Infinity)}
=============================================================================
