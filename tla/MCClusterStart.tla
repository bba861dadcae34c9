---------------------------- MODULE MCClusterStart ----------------------------
(* An initializing server, two more servers, two agents, a load balancer, a registry. *)
EXTENDS ClusterStart
MCInit == {"server-0"}
MCServers == <<"server-1", "server-2">>
MCAgents == {"agent-0", "agent-1"}
MCLB == {"serverlb"}
MCRegistries == {"registry"}
=============================================================================
