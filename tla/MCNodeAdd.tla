------------------------------- MODULE MCNodeAdd -------------------------------
(* One or two servers with and without load balancer, agent, memory limit and *)
(* registries; commands that add one node or two.                             *)
EXTENDS NodeAdd
CONSTANTS n1, n2

MCNew == {n1, n2}
C(servers, agents, lb, mem, files, userInit) ==
  [servers |-> servers, agents |-> agents, lb |-> lb, mem |-> mem, files |-> files, userInit |-> userInit]
MCClusters ==
  {C(1, 0, TRUE, 5120, FALSE, FALSE), C(1, 0, FALSE, 0, TRUE, FALSE), C(1, 1, FALSE, 0, FALSE, TRUE),
   C(2, 0, TRUE, 0, TRUE, FALSE), C(2, 1, FALSE, 9400, TRUE, FALSE), C(2, 0, FALSE, 0, FALSE, TRUE)}
R(role, mem, token, init, replicas) ==
  [role |-> role, mem |-> mem, token |-> token, init |-> init, replicas |-> replicas]
MCRequests ==
  {R("server", 0, None, FALSE, 1), R("server", 6000, "given", FALSE, 2), R("server", 0, None, TRUE, 1),
   R("agent", 0, None, FALSE, 2), R("agent", 6000, None, TRUE, 1)}
=============================================================================
