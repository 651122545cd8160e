-------------------------- MODULE MCTrafficControl --------------------------
(* TrafficControl for TLC: the devices it is checked with. *)
EXTENDS TrafficControl

CONSTANTS q1, q2

Device(queues, inBytes, limit, header, limits, runQuota, deletes) ==
  [txQueues |-> queues, inBytes |-> inBytes, devLimit |-> limit,
   linkHeader |-> header, limits |-> limits, quota |-> runQuota,
   mayDelete |-> deletes]

MCDevices == {
  Device({q1, q2}, FALSE, 2, 1, FALSE, 9, TRUE),   \* multi-queue device
  Device({q1}, TRUE, 9, 1, FALSE, 9, TRUE),        \* queue limited in bytes
  Device({q1}, FALSE, 3, 1, TRUE, 9, FALSE),       \* byte queue limits
  Device({q1}, FALSE, 2, 1, FALSE, 1, FALSE)}      \* quota of one packet

MCOneDevice == {Device({q1}, FALSE, 1, 1, FALSE, 9, TRUE)}
=============================================================================
