-------------------------------- MODULE MCIpam --------------------------------
(* A cluster of two servers, an agent and a load balancer in subnets of four, *)
(* eight and sixteen addresses.                                               *)
EXTENDS Ipam, TLC
CONSTANTS n1, agent, lb, registry, a, b
MCAdded == {n1}
MCOthers == {agent, lb}
MCOutsiders == {registry}
MCLasts == {3, 7, 15}
MCSubnets == {a, b}
MCSymmetry == Permutations(MCOthers) \cup Permutations(MCSubnets)
=============================================================================
