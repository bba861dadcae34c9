----------------------------- MODULE MCClusterRun -----------------------------
(* Two servers (the first initializes the cluster) and an agent. *)
EXTENDS ClusterRun

MCSetup == <<"server-0", "server-1", "agent-0">>
MCServers == {"server-0", "server-1"}
MCPeerNames == {"server-0", "tools"}

\* Registry, loadbalancer and volume options vary; the other switches are paired up.
MCOptions ==
  {o \in OptionType : o.lb = o.imageVolume /\ o.rollback = (o.imageVolume \/ o.useReg)
                      /\ o.desktop = o.createReg /\ o.timed # o.useReg}
=============================================================================
