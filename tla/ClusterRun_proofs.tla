--------------------------- MODULE ClusterRun_proofs ---------------------------
(***************************************************************************)
(* For every configuration and every set of names a peer may take: types,   *)
(* the order in which containers appear, when a network of the user's can be *)
(* lost, that a success is complete and that a clean rollback restores.     *)
(***************************************************************************)
EXTENDS ClusterRun, WellFoundedInduction, TLAPS

\* A node of the configuration is a node, and not one of the three helpers.
LEMMA SetupFacts ==
  /\ \A i \in DOMAIN Setup : Setup[i] \in SetupNodes
  /\ Len(Setup) \in Nat \ {0} /\ DOMAIN Setup = 1 .. Len(Setup)
  /\ SetupNodes \subseteq Nodes /\ LB \in Nodes /\ Tools \in Nodes /\ NewReg \in Nodes
  /\ PeerNames \subseteq Nodes \ {NewReg} /\ Servers \subseteq Nodes
  BY ClusterRunAssumption DEF SetupNodes, Nodes

\* The initial state has the types of TypeOK.
LEMMA TypeInit == Init => TypeOK
<1> SUFFICES ASSUME Init PROVE TypeOK
  OBVIOUS
<1>1. regAttached \in BOOLEAN
  <2>1. opts \in OptionType /\ opts.useReg \in BOOLEAN /\ net \in BOOLEAN
    BY ClusterRunAssumption DEF Init, OptionType
  <2>2. (opts.useReg /\ net) \in BOOLEAN
    BY <2>1
  <2> QED
    BY <2>2 DEF Init
<1>2. next \in 1 .. Len(Setup) + 1
  BY SetupFacts DEF Init
<1>3. cont \in [Nodes -> {"absent", "created", "running", "peer"}]
  BY DEF Init
<1> QED
  BY <1>1, <1>2, <1>3 DEF Init, TypeOK, TypeRuntime, TypeControl, TypeSets, TypeFlags, CreatePCs

\* Every step keeps them.
LEMMA TypeStep == TypeOK /\ [Next]_vars => TypeOK'
<1> SUFFICES ASSUME TypeOK, [Next]_vars PROVE TypeOK'
  OBVIOUS
<1> USE DEF TypeOK, TypeRuntime, TypeControl, TypeSets, TypeFlags
<1>o. opts \in OptionType
  BY ClusterRunAssumption
<1>s. /\ Len(Setup) \in Nat \ {0} /\ DOMAIN Setup = 1 .. Len(Setup)
      /\ \A i \in DOMAIN Setup : Setup[i] \in SetupNodes
      /\ SetupNodes \subseteq Nodes /\ LB \in Nodes /\ Tools \in Nodes /\ NewReg \in Nodes
      /\ PeerNames \subseteq Nodes
  BY SetupFacts
<1>a. CASE UNCHANGED vars
  BY <1>a DEF vars
<1>1. CASE ClusterPrepNetwork
  <2>1. TypeRuntime'
    BY <1>1 DEF ClusterPrepNetwork, AtStep, Abort, CreateNetworkIfNotPresent
  <2>2. TypeControl'
    BY <1>1 DEF ClusterPrepNetwork, AtStep, Abort, CreatePCs, RollbackPCs, Terminal
  <2>3. TypeSets'
    BY <1>1 DEF ClusterPrepNetwork, AtStep, Abort
  <2>4. TypeFlags'
    BY <1>1 DEF ClusterPrepNetwork, AtStep, Abort
  <2> QED
    BY <2>1, <2>2, <2>3, <2>4
<1>2. CASE ClusterPrepImageVolume
  <2>1. TypeRuntime'
    BY <1>2, <1>o DEF ClusterPrepImageVolume, AtStep, Abort, OptionType
  <2>2. TypeControl'
    BY <1>2 DEF ClusterPrepImageVolume, AtStep, Abort, CreatePCs, RollbackPCs, Terminal
  <2>3. TypeSets'
    BY <1>2 DEF ClusterPrepImageVolume, AtStep, Abort
  <2>4. TypeFlags'
    BY <1>2 DEF ClusterPrepImageVolume, AtStep, Abort
  <2> QED
    BY <2>1, <2>2, <2>3, <2>4
<1>3. CASE FindUsedRegistry
  <2>1. TypeRuntime'
    BY <1>3 DEF FindUsedRegistry, AtStep, Abort, docker
  <2>2. TypeControl'
    BY <1>3 DEF FindUsedRegistry, AtStep, Abort, CreatePCs, RollbackPCs, Terminal
  <2>3. TypeSets'
    BY <1>3 DEF FindUsedRegistry, AtStep, Abort
  <2>4. TypeFlags'
    BY <1>3 DEF FindUsedRegistry, AtStep, Abort
  <2> QED
    BY <2>1, <2>2, <2>3, <2>4
<1>4. CASE RegistryCreate
  <2>1. TypeRuntime'
    BY <1>4 DEF RegistryCreate, AtStep, Abort
  <2>2. TypeControl'
    BY <1>4 DEF RegistryCreate, AtStep, Abort, CreatePCs, RollbackPCs, Terminal
  <2>3. TypeSets'
    BY <1>4 DEF RegistryCreate, AtStep, Abort
  <2>4. TypeFlags'
    BY <1>4 DEF RegistryCreate, AtStep, Abort
  <2> QED
    BY <2>1, <2>2, <2>3, <2>4
<1>5. CASE ConnectRegistries
  <2>1. TypeRuntime'
    BY <1>5 DEF ConnectRegistries, AtStep, Abort, ConnectNodeToNetwork
  <2>2. TypeControl'
    BY <1>5 DEF ConnectRegistries, AtStep, Abort, CreatePCs, RollbackPCs, Terminal
  <2>3. TypeSets'
    BY <1>5 DEF ConnectRegistries, AtStep, Abort
  <2>4. TypeFlags'
    BY <1>5 DEF ConnectRegistries, AtStep, Abort
  <2> QED
    BY <2>1, <2>2, <2>3, <2>4
<1>6. CASE SpawnToolsGoroutine
  <2>1. TypeRuntime'
    BY <1>6 DEF SpawnToolsGoroutine, docker
  <2>2. TypeControl'
    BY <1>6 DEF SpawnToolsGoroutine, CreatePCs, RollbackPCs, Terminal
  <2>3. TypeSets'
    BY <1>6 DEF SpawnToolsGoroutine
  <2>4. TypeFlags'
    BY <1>6 DEF SpawnToolsGoroutine, history
  <2> QED
    BY <2>1, <2>2, <2>3, <2>4
<1>7. CASE NodeSetup
  <2>1. TypeRuntime'
    BY <1>7 DEF NodeSetup, AtStep, Abort, CreateContainer
  <2>2. TypeControl'
    BY <1>7, <1>s DEF NodeSetup, AtStep, Abort, CreatePCs, RollbackPCs, Terminal
  <2>3. TypeSets'
    BY <1>7, <1>s DEF NodeSetup, AtStep, Abort
  <2>4. TypeFlags'
    BY <1>7 DEF NodeSetup, AtStep, Abort
  <2> QED
    BY <2>1, <2>2, <2>3, <2>4
<1>8. CASE CreateLoadbalancer
  <2>1. TypeRuntime'
    BY <1>8 DEF CreateLoadbalancer, AtStep, Abort, CreateContainer
  <2>2. TypeControl'
    BY <1>8 DEF CreateLoadbalancer, AtStep, Abort, CreatePCs, RollbackPCs, Terminal
  <2>3. TypeSets'
    BY <1>8 DEF CreateLoadbalancer, AtStep, Abort
  <2>4. TypeFlags'
    BY <1>8 DEF CreateLoadbalancer, AtStep, Abort
  <2> QED
    BY <2>1, <2>2, <2>3, <2>4
<1>9. CASE ToolsGetNode
  <2>1. TypeRuntime'
    BY <1>9 DEF ToolsGetNode, GoroutineStep
  <2>2. TypeControl'
    BY <1>9 DEF ToolsGetNode, GoroutineStep, CreatePCs, RollbackPCs, Terminal
  <2>3. TypeSets'
    BY <1>9 DEF ToolsGetNode, GoroutineStep
  <2>4. TypeFlags'
    BY <1>9 DEF ToolsGetNode, GoroutineStep
  <2> QED
    BY <2>1, <2>2, <2>3, <2>4
<1>10. CASE ToolsCreate
  <2>1. TypeRuntime'
    BY <1>10 DEF ToolsCreate, GoroutineStep, CreateContainer
  <2>2. TypeControl'
    BY <1>10 DEF ToolsCreate, GoroutineStep, CreatePCs, RollbackPCs, Terminal
  <2>3. TypeSets'
    BY <1>10 DEF ToolsCreate, GoroutineStep
  <2>4. TypeFlags'
    BY <1>10 DEF ToolsCreate, GoroutineStep
  <2> QED
    BY <2>1, <2>2, <2>3, <2>4
<1>11. CASE ToolsStart
  <2>1. TypeRuntime'
    BY <1>11 DEF ToolsStart, GoroutineStep
  <2>2. TypeControl'
    BY <1>11 DEF ToolsStart, GoroutineStep, CreatePCs, RollbackPCs, Terminal
  <2>3. TypeSets'
    BY <1>11 DEF ToolsStart, GoroutineStep
  <2>4. TypeFlags'
    BY <1>11 DEF ToolsStart, GoroutineStep
  <2> QED
    BY <2>1, <2>2, <2>3, <2>4
<1>12. CASE WaitForTools
  <2>1. TypeRuntime'
    BY <1>12 DEF WaitForTools, AtStep, docker
  <2>2. TypeControl'
    BY <1>12 DEF WaitForTools, AtStep, CreatePCs, RollbackPCs, Terminal
  <2>3. TypeSets'
    BY <1>12 DEF WaitForTools, AtStep
  <2>4. TypeFlags'
    BY <1>12 DEF WaitForTools, AtStep
  <2> QED
    BY <2>1, <2>2, <2>3, <2>4
<1>13. CASE GatherEnvironmentInfo
  <2>1. TypeRuntime'
    BY <1>13, <1>s DEF GatherEnvironmentInfo, AtStep, Abort
  <2>2. TypeControl'
    BY <1>13 DEF GatherEnvironmentInfo, AtStep, Abort, CreatePCs, RollbackPCs, Terminal
  <2>3. TypeSets'
    BY <1>13 DEF GatherEnvironmentInfo, AtStep, Abort
  <2>4. TypeFlags'
    BY <1>13 DEF GatherEnvironmentInfo, AtStep, Abort
  <2> QED
    BY <2>1, <2>2, <2>3, <2>4
<1>14. ASSUME NEW p, NEW S, NEW q \in {"agents", "aux", "post"}, StartPhase(p, S, q) PROVE TypeOK'
  <2>1. TypeRuntime'
    BY <1>14 DEF StartPhase, AtStep, Abort, Start
  <2>2. TypeControl'
    BY <1>14 DEF StartPhase, AtStep, Abort, CreatePCs, RollbackPCs, Terminal
  <2>3. TypeSets'
    BY <1>14 DEF StartPhase, AtStep, Abort
  <2>4. TypeFlags'
    BY <1>14 DEF StartPhase, AtStep, Abort
  <2> QED
    BY <2>1, <2>2, <2>3, <2>4
<1>15. CASE PostStart
  <2>1. TypeRuntime'
    BY <1>15 DEF PostStart, AtStep, Abort, docker
  <2>2. TypeControl'
    BY <1>15 DEF PostStart, AtStep, Abort, CreatePCs, RollbackPCs, Terminal
  <2>3. TypeSets'
    BY <1>15 DEF PostStart, AtStep, Abort
  <2>4. TypeFlags'
    BY <1>15 DEF PostStart, AtStep, Abort
  <2> QED
    BY <2>1, <2>2, <2>3, <2>4
<1>16. CASE RollbackGet
  <2>1. TypeRuntime'
    BY <1>16 DEF RollbackGet, RollbackStep, docker
  <2>2. TypeControl'
    BY <1>16 DEF RollbackGet, RollbackStep, CreatePCs, RollbackPCs, Terminal
  <2>3. TypeSets'
    BY <1>16, <1>s DEF RollbackGet, RollbackStep, StructNodes
  <2>4. TypeFlags'
    <3>1. ExternalFromLabels \in BOOLEAN
      BY DEF ExternalFromLabels, NetworkLabel
    <3> QED
      BY <1>16, <3>1 DEF RollbackGet, RollbackStep
  <2> QED
    BY <2>1, <2>2, <2>3, <2>4
<1>17. ASSUME NEW n \in Nodes, RollbackDeleteNode(n) PROVE TypeOK'
  <2>1. TypeRuntime'
    BY <1>17 DEF RollbackDeleteNode, RollbackStep, NodeDelete
  <2>2. TypeControl'
    BY <1>17 DEF RollbackDeleteNode, RollbackStep, CreatePCs, RollbackPCs, Terminal
  <2>3. TypeSets'
    BY <1>17 DEF RollbackDeleteNode, RollbackStep
  <2>4. TypeFlags'
    BY <1>17 DEF RollbackDeleteNode, RollbackStep, NodeDelete
  <2> QED
    BY <2>1, <2>2, <2>3, <2>4
<1>18. CASE RollbackDeleteNetwork
  <2>1. TypeRuntime'
    BY <1>18 DEF RollbackDeleteNetwork, RollbackStep, DeleteNetwork
  <2>2. TypeControl'
    BY <1>18 DEF RollbackDeleteNetwork, RollbackStep, CreatePCs, RollbackPCs, Terminal
  <2>3. TypeSets'
    BY <1>18 DEF RollbackDeleteNetwork, RollbackStep
  <2>4. TypeFlags'
    BY <1>18 DEF RollbackDeleteNetwork, RollbackStep
  <2> QED
    BY <2>1, <2>2, <2>3, <2>4
<1>19. CASE RollbackDeleteVolume
  <2>1. TypeRuntime'
    BY <1>19 DEF RollbackDeleteVolume, RollbackStep, DeleteVolume
  <2>2. TypeControl'
    BY <1>19 DEF RollbackDeleteVolume, RollbackStep, CreatePCs, RollbackPCs, Terminal
  <2>3. TypeSets'
    BY <1>19 DEF RollbackDeleteVolume, RollbackStep
  <2>4. TypeFlags'
    BY <1>19 DEF RollbackDeleteVolume, RollbackStep
  <2> QED
    BY <2>1, <2>2, <2>3, <2>4
<1>20. ASSUME NEW n \in PeerNames, PeerCreates(n) PROVE TypeOK'
  <2>1. TypeRuntime'
    BY <1>20 DEF PeerCreates
  <2>2. TypeControl'
    BY <1>20 DEF PeerCreates, CreatePCs, RollbackPCs, Terminal
  <2>3. TypeSets'
    BY <1>20 DEF PeerCreates
  <2>4. TypeFlags'
    BY <1>20 DEF PeerCreates, history
  <2> QED
    BY <2>1, <2>2, <2>3, <2>4
<1> QED
  BY <1>a, <1>1, <1>2, <1>3, <1>4, <1>5, <1>6, <1>7, <1>8, <1>9, <1>10, <1>11, <1>12,
     <1>13, <1>14, <1>15, <1>16, <1>17, <1>18, <1>19, <1>20
  DEF Next, Command, Goroutine, StartServers, StartAgents, StartHelpers

\* Type correctness of ClusterRun for every configuration.
THEOREM TypeCorrect == Spec => []TypeOK
  BY TypeInit, TypeStep, PTL DEF Spec
-----------------------------------------------------------------------------
\* What the labels are good for: before the network step nothing is labelled and a network of
\* the user's is there; a container of the command's own, other than a registry, appears when
\* something is labelled; so while the rollback deletes nodes, a network of the user's does
\* not count as external only when nothing had been labelled and no labelled container was
\* there.
LostEarly == labelled = {} /\ (opts.createReg \/ Tools \in PeerNames)
NetInv ==
  /\ pc = "network" => labelled = {} /\ (netMaker = "user" => net)
  /\ pc \notin CreatePCs \/ pc = "spawn" => labelled # {} \/ tools = "off"
  /\ pc \in {"network", "volume", "findReg", "createReg", "connectReg"} => tools = "off"
  /\ pc \in {"lb", "wait", "gather", "servers", "agents", "aux", "post"} => labelled # {}
  /\ \A n \in SetupNodes \cup {LB} : Own(n) => labelled # {}
  /\ Own(NewReg) => opts.createReg
  /\ Own(Tools) => labelled # {} \/ tools # "off"
  /\ \A n \in Nodes : cont[n] = "peer" => n \in PeerNames
  /\ pc = "deleteNodes" /\ netMaker = "user" /\ ~external => LostEarly

\* Initially nothing is labelled.
LEMMA NetInit == Init => NetInv
  BY SetupFacts DEF Init, NetInv, Own, CreatePCs

\* Whatever node decides, the labels say that a network of the user's is external.
LEMMA LabelsSayExternal ==
  ASSUME TypeOK, netMaker = "user", NEW n \in SetupNodes \cup {LB}, n \in labelled \/ cont[n] = "peer"
  PROVE  ExternalFromLabels
<1>1. \A m : NetworkLabel(m)
  BY DEF NetworkLabel
<1>2. \E i \in DOMAIN StructOrder : StructOrder[i] = n
  <2>1. Setup \in Seq(SetupNodes) /\ DOMAIN Setup = 1 .. Len(Setup) /\ Len(Setup) \in Nat
    BY ClusterRunAssumption
  <2>2. /\ DOMAIN StructOrder = 1 .. Len(Setup) + 1
        /\ StructOrder[1] = LB
        /\ \A i \in DOMAIN Setup : StructOrder[i + 1] = Setup[i]
    BY <2>1 DEF StructOrder
  <2>3. CASE n = LB
    BY <2>1, <2>2, <2>3
  <2>4. CASE n \in SetupNodes
    <3>1. PICK i \in DOMAIN Setup : Setup[i] = n
      BY <2>4 DEF SetupNodes
    <3>2. i + 1 \in DOMAIN StructOrder
      BY <2>1, <2>2
    <3> QED
      BY <2>2, <3>1, <3>2
  <2> QED
    BY <2>3, <2>4
<1>3. n # Tools
  BY ClusterRunAssumption
<1> QED
  BY <1>1, <1>2, <1>3 DEF ExternalFromLabels, HasNetworkLabel

\* What the rollback finds when its labels do not say so: nothing that is labelled.
LEMMA FoundUnlabelled ==
  ASSUME TypeOK, NetInv, pc = "failed", netMaker = "user", ~ExternalFromLabels,
         NEW n \in Nodes, cont[n] # "absent"
  PROVE  LostEarly
<1> USE DEF NetInv
<1>1. labelled = {}
  BY LabelsSayExternal DEF TypeOK, TypeSets
<1>2. tools = "off"
  BY <1>1 DEF CreatePCs
<1>3. n \notin SetupNodes \cup {LB}
  <2>1. cont[n] = "peer" \/ Own(n)
    BY DEF Own, TypeOK, TypeRuntime
  <2> QED
    BY <2>1, <1>1, LabelsSayExternal
<1>4. n \in {Tools, NewReg}
  BY <1>3 DEF Nodes
<1>5. cont[n] = "peer" => Tools \in PeerNames
  BY <1>4, SetupFacts
<1>6. Own(n) => opts.createReg
  BY <1>1, <1>2, <1>4
<1> QED
  BY <1>1, <1>5, <1>6 DEF LostEarly, Own, TypeOK, TypeRuntime

\* Every step keeps the invariant.
LEMMA NetStep == TypeOK /\ NetInv /\ [Next]_vars => NetInv'
<1> SUFFICES ASSUME TypeOK, NetInv, [Next]_vars PROVE NetInv'
  OBVIOUS
<1> USE DEF NetInv, LostEarly
<1>s. /\ SetupNodes \subseteq Nodes /\ LB \in Nodes /\ Tools \in Nodes /\ NewReg \in Nodes
      /\ \A n \in SetupNodes \cup {LB} : n # Tools /\ n # NewReg
      /\ Tools # NewReg
  BY SetupFacts, ClusterRunAssumption
<1>t. /\ cont \in [Nodes -> {"absent", "created", "running", "peer"}]
      /\ \A i \in DOMAIN Setup : Setup[i] \in SetupNodes
  BY SetupFacts DEF TypeOK, TypeRuntime
<1>1. CASE RollbackGet
  <2>1. UNCHANGED <<cont, netMaker, net, opts, labelled, tools>> /\ pc = "failed"
    BY <1>1 DEF RollbackGet, RollbackStep, docker
  <2>2. pc' \in {"abandoned", "rollbackFailed", "deleteNodes"}
    BY <1>1 DEF RollbackGet
  <2>3. ASSUME pc' = "deleteNodes", netMaker = "user", ~external' PROVE LostEarly
    <3>1. (\E n \in Nodes : cont[n] # "absent") /\ ~ExternalFromLabels
      BY <1>1, <2>3 DEF RollbackGet
    <3> QED
      BY <3>1, <2>1, <2>3, FoundUnlabelled
  <2> QED
    BY <2>1, <2>2, <2>3 DEF CreatePCs, Own
<1>2. ASSUME NEW n \in Nodes, RollbackDeleteNode(n) PROVE NetInv'
  <2>1. UNCHANGED <<pc, net, netMaker, external, opts, labelled, tools>>
    BY <1>2 DEF RollbackDeleteNode, RollbackStep
  <2>2. cont' = cont \/ cont' = [cont EXCEPT ![n] = "absent"]
    BY <1>2 DEF RollbackDeleteNode, NodeDelete
  <2>3. \A m \in Nodes : cont'[m] = cont[m] \/ cont'[m] = "absent"
    BY <2>2, <1>t
  <2> QED
    BY <2>1, <2>3, <1>s DEF Own
<1>3. CASE ClusterPrepNetwork \/ ClusterPrepImageVolume \/ FindUsedRegistry \/ ConnectRegistries
  <2>1. UNCHANGED <<cont, opts, labelled, tools, external>>
    BY <1>3 DEF ClusterPrepNetwork, ClusterPrepImageVolume, FindUsedRegistry, ConnectRegistries, AtStep,
       docker
  <2>2. /\ pc \in {"network", "volume", "findReg", "connectReg"}
        /\ pc' \in {"volume", "findReg", "createReg", "spawn", "failed"}
    BY <1>3 DEF ClusterPrepNetwork, ClusterPrepImageVolume, FindUsedRegistry, ConnectRegistries, AtStep, Abort
  <2> QED
    BY <2>1, <2>2 DEF CreatePCs, Own
<1>4. CASE RegistryCreate
  <2>1. /\ UNCHANGED <<opts, labelled, tools, external>> /\ pc = "createReg" /\ pc' \in {"connectReg", "failed"}
        /\ cont' = cont \/ (cont' = [cont EXCEPT ![NewReg] = IF opts.createReg THEN "created" ELSE @])
    BY <1>4 DEF RegistryCreate, AtStep, Abort
  <2>2. \A n \in Nodes : n # NewReg => cont'[n] = cont[n]
    BY <2>1, <1>t
  <2>3. cont'[NewReg] = cont[NewReg] \/ (opts.createReg /\ cont'[NewReg] = "created")
    BY <2>1, <1>t, <1>s
  <2> QED
    BY <2>1, <2>2, <2>3, <1>s DEF CreatePCs, Own
<1>5. CASE SpawnToolsGoroutine
  BY <1>5 DEF SpawnToolsGoroutine, docker, CreatePCs, Own
<1>6. CASE NodeSetup
  <2>1. /\ UNCHANGED <<opts, tools, external>> /\ pc = "setup" /\ pc' \in {"setup", "lb", "failed"}
        /\ labelled' = labelled \cup {Setup[next]}
        /\ cont' = cont \/ cont' = [cont EXCEPT ![Setup[next]] = "created"]
    BY <1>6 DEF NodeSetup, AtStep, Abort, CreateContainer
  <2>2. CASE Setup[next] \in SetupNodes
    <3>1. \A n \in Nodes : n # Setup[next] => cont'[n] = cont[n]
      BY <2>1, <1>t
    <3>2. cont'[Setup[next]] # "peer" \/ cont'[Setup[next]] = cont[Setup[next]]
      BY <2>1, <1>t, <1>s, <2>2
    <3> QED
      BY <2>1, <2>2, <3>1, <3>2, <1>s DEF CreatePCs, Own
  <2>3. next \in DOMAIN Setup
    BY <1>6, SetupFacts DEF NodeSetup, TypeOK, TypeControl
  <2> QED
    BY <2>2, <2>3, <1>t
<1>7. CASE CreateLoadbalancer
  <2>1. /\ UNCHANGED <<opts, tools, external>> /\ pc = "lb" /\ pc' \in {"wait", "failed"}
        /\ labelled \subseteq labelled'
        /\ cont' = cont \/ cont' = [cont EXCEPT ![LB] = "created"]
    BY <1>7 DEF CreateLoadbalancer, AtStep, Abort, CreateContainer
  <2>2. labelled' # {}
    BY <2>1
  <2>3. \A n \in Nodes : cont'[n] = cont[n] \/ (n = LB /\ cont'[n] = "created")
    BY <2>1, <1>t
  <2> QED
    BY <2>1, <2>2, <2>3, <1>s DEF CreatePCs, Own
<1>8. CASE WaitForTools \/ PostStart
  <2>1. /\ UNCHANGED <<cont, opts, tools, external, labelled>> /\ pc \in {"wait", "post"}
        /\ pc' \in {"gather", "failed", "done"}
    BY <1>8 DEF WaitForTools, PostStart, AtStep, Abort, docker
  <2> QED
    BY <2>1 DEF CreatePCs, Own
<1>9. CASE GatherEnvironmentInfo
  <2>1. /\ UNCHANGED <<opts, tools, external, labelled>> /\ pc = "gather" /\ pc' \in {"servers", "failed"}
        /\ \E u \in {cont[Tools], "absent", "created", "running"} : cont' = [cont EXCEPT ![Tools] = u]
    BY <1>9 DEF GatherEnvironmentInfo, AtStep, Abort
  <2>2. \A n \in Nodes : (n # Tools => cont'[n] = cont[n]) /\ (cont'[n] = "peer" => cont[n] = "peer")
    BY <2>1, <1>t, <1>s
  <2> QED
    BY <2>1, <2>2, <1>s DEF CreatePCs, Own
<1>10. ASSUME NEW p \in {"servers", "agents", "aux"}, NEW S \in SUBSET Nodes,
              NEW q \in {"agents", "aux", "post"}, StartPhase(p, S, q),
              NewReg \in S => opts.createReg
       PROVE  NetInv'
  <2>1. /\ UNCHANGED <<opts, tools, external, labelled>> /\ pc = p /\ pc' \in {q, "failed"}
        /\ \E T \in SUBSET S : cont' = [n \in Nodes |-> IF n \in T THEN "running" ELSE cont[n]]
    BY <1>10 DEF StartPhase, AtStep, Abort, Start
  <2>2. \A n \in Nodes : cont'[n] = cont[n] \/ (n \in S /\ cont'[n] = "running")
    BY <2>1
  <2> QED
    BY <2>1, <2>2, <1>s, <1>10 DEF CreatePCs, Own
<1>11. CASE StartServers \/ StartAgents \/ StartHelpers
  <2>1. /\ Servers \in SUBSET Nodes /\ SetupNodes \ Servers \in SUBSET Nodes /\ AuxNodes \in SUBSET Nodes
        /\ NewReg \notin SetupNodes /\ (NewReg \in AuxNodes => opts.createReg) /\ Servers \subseteq SetupNodes
    BY SetupFacts, ClusterRunAssumption DEF AuxNodes
  <2> QED
    BY <1>10, <1>11, <2>1 DEF StartServers, StartAgents, StartHelpers
<1>12. CASE RollbackDeleteNetwork \/ RollbackDeleteVolume
  <2>1. UNCHANGED <<cont, opts, labelled, tools, external>> /\ pc' \in {"deleteVolume", "rolledBack"}
        /\ pc \in {"deleteNodes", "deleteVolume"}
    BY <1>12 DEF RollbackDeleteNetwork, RollbackDeleteVolume, RollbackStep
  <2> QED
    BY <2>1 DEF CreatePCs, Own
<1>13. CASE Goroutine
  <2>1. /\ UNCHANGED <<pc, net, netMaker, opts, labelled, external>> /\ tools # "off" /\ tools' # "off"
        /\ cont' = cont \/ \E u \in {cont[Tools], "created", "running"} : cont' = [cont EXCEPT ![Tools] = u]
    BY <1>13 DEF Goroutine, ToolsGetNode, ToolsCreate, ToolsStart, GoroutineStep, CreateContainer
  <2>2. \A n \in Nodes : (n # Tools => cont'[n] = cont[n]) /\ (cont'[n] = "peer" => cont[n] = "peer")
    BY <2>1, <1>t, <1>s
  <2> QED
    BY <2>1, <2>2, <1>s DEF Own
<1>14. CASE \E n \in PeerNames : PeerCreates(n)
  <2>1. PICK m \in PeerNames : PeerCreates(m)
    BY <1>14
  <2>2. /\ UNCHANGED <<pc, net, netMaker, opts, labelled, tools, external>>
        /\ cont' = [cont EXCEPT ![m] = "peer"]
    BY <2>1 DEF PeerCreates
  <2>3. \A n \in Nodes : cont'[n] = cont[n] \/ (n = m /\ cont'[n] = "peer")
    BY <2>2, <1>t
  <2> QED
    BY <2>1, <2>2, <2>3, <1>s DEF Own
<1>15. CASE UNCHANGED vars
  BY <1>15 DEF vars, Own
<1> QED
  BY <1>1, <1>2, <1>3, <1>4, <1>5, <1>6, <1>7, <1>8, <1>9, <1>11, <1>12, <1>13, <1>14, <1>15
  DEF Next, Command

\* Under the invariant a step takes a network of the user's away only early.
LEMMA NetKept ==
  ASSUME NetInv, [Next]_vars, netMaker = "user", net' # net
  PROVE  LostEarly
<1>1. CASE RollbackDeleteNetwork
  BY <1>1 DEF NetInv, RollbackDeleteNetwork, RollbackStep, DeleteNetwork
<1>2. CASE ClusterPrepNetwork
  BY <1>2 DEF NetInv, ClusterPrepNetwork, CreateNetworkIfNotPresent, AtStep
<1>3. CASE ~RollbackDeleteNetwork /\ ~ClusterPrepNetwork
  BY <1>3 DEF Next, Command, Goroutine, vars, docker, history, ClusterPrepImageVolume, FindUsedRegistry,
     RegistryCreate, ConnectRegistries, SpawnToolsGoroutine, NodeSetup, CreateLoadbalancer,
     WaitForTools, GatherEnvironmentInfo, StartServers, StartAgents, StartHelpers, StartPhase,
     PostStart, RollbackGet, RollbackDeleteNode, RollbackDeleteVolume, ToolsGetNode,
     ToolsCreate, ToolsStart, GoroutineStep, PeerCreates
<1> QED
  BY <1>1, <1>2, <1>3

\* However the creation fails and whatever a peer labels, the rollback removes a network of the
\* user's only when no node was labelled before (cluster.go:782) and the registry it had
\* created, or a tools node of the peer's, made it find the cluster at all.
THEOREM UserNetworkIsLostEarly == Spec => UserNetworkLostOnlyEarly
<1>1. Init => TypeOK /\ NetInv
  BY TypeInit, NetInit
<1>2. TypeOK /\ NetInv /\ [Next]_vars => (TypeOK /\ NetInv)'
  BY TypeStep, NetStep
<1>3. NetInv /\ [Next]_vars =>
        [netMaker = "user" /\ net' # net =>
           labelled = {} /\ (opts.createReg \/ Tools \in PeerNames)]_vars
  BY NetKept DEF LostEarly
<1> QED
  BY <1>1, <1>2, <1>3, PTL DEF Spec, UserNetworkLostOnlyEarly
-----------------------------------------------------------------------------
\* Why containers appear in order: the index of nodeSetup says exactly which nodes exist,
\* the control state says whether the load balancer and the registry do, and nothing runs
\* before the servers have been started.
AfterSetup == {"lb", "wait", "gather", "servers", "agents", "aux", "post"}
AfterReg == {"connectReg", "spawn", "setup"} \cup AfterSetup
Starting == {"agents", "aux", "post"}

SetupOwned == \A i \in DOMAIN Setup : Own(Setup[i]) <=> i < next
IndexMoves == IF pc \in AfterSetup THEN next = Len(Setup) + 1 ELSE next \in DOMAIN Setup
HelpersOwned ==
  /\ Own(LB) <=> (opts.lb /\ pc \in AfterSetup \ {"lb"})
  /\ Own(NewReg) <=> (opts.createReg /\ pc \in AfterReg)
NoneRunsYet == pc \in Starting \/ \A n \in SetupNodes \cup {LB, NewReg} : cont[n] # "running"

OrderInv == pc \in CreatePCs => SetupOwned /\ IndexMoves /\ HelpersOwned /\ NoneRunsYet

\* Initially there is no container and the index is at the first node.
LEMMA OrderInit == Init => OrderInv
<1> SUFFICES ASSUME Init PROVE OrderInv
  OBVIOUS
<1>1. \A n \in Nodes : ~Own(n)
  BY DEF Init, Own
<1>2. next = 1 /\ pc = "network" /\ 1 \in DOMAIN Setup
  BY SetupFacts DEF Init
<1>3. SetupOwned
  BY <1>1, <1>2, SetupFacts DEF SetupOwned
<1> QED
  BY <1>1, <1>2, <1>3, SetupFacts DEF OrderInv, IndexMoves, HelpersOwned, NoneRunsYet, AfterSetup,
     AfterReg, Own

\* The invariant says all that CreatedInOrder asks for.
LEMMA OrderImplies == OrderInv => CreatedInOrder
<1> SUFFICES ASSUME OrderInv, pc \in CreatePCs
             PROVE  /\ \A i, j \in DOMAIN Setup : i < j /\ Own(Setup[j]) => Own(Setup[i])
                    /\ Own(LB) => \A n \in SetupNodes : Own(n)
                    /\ (\E n \in SetupNodes \cup {LB, NewReg} : cont[n] = "running") =>
                          \A n \in SetupNodes \cup AuxNodes : Own(n)
  BY DEF CreatedInOrder
<1>1. \A i, j \in DOMAIN Setup : i < j /\ Own(Setup[j]) => Own(Setup[i])
  <2> SUFFICES ASSUME NEW i \in DOMAIN Setup, NEW j \in DOMAIN Setup, i < j, j < next
               PROVE  i < next
    BY DEF OrderInv, SetupOwned
  <2> QED
    BY SetupFacts DEF OrderInv, IndexMoves
<1>2. pc \in AfterSetup => \A n \in SetupNodes : Own(n)
  BY SetupFacts DEF OrderInv, SetupOwned, IndexMoves, SetupNodes
<1>3. Own(LB) => \A n \in SetupNodes : Own(n)
  BY <1>2 DEF OrderInv, HelpersOwned
<1>4. pc \in Starting => \A n \in SetupNodes \cup AuxNodes : Own(n)
  BY <1>2 DEF OrderInv, HelpersOwned, AuxNodes, Starting, AfterSetup, AfterReg
<1> QED
  BY <1>1, <1>3, <1>4 DEF OrderInv, NoneRunsYet

\* A step that leaves the index alone and, of the cluster's containers, starts or creates
\* none, keeps the invariant if it does not pass a control state that promises more.
LEMMA OrderKept ==
  ASSUME OrderInv, next' = next, opts' = opts,
         \A n \in SetupNodes \cup {LB, NewReg} :
            cont'[n] = cont[n] \/ (cont[n] = "absent" /\ cont'[n] = "peer"),
         pc' \in CreatePCs => /\ pc \in CreatePCs /\ (pc \in AfterSetup <=> pc' \in AfterSetup)
                              /\ (pc \in AfterReg <=> pc' \in AfterReg)
                              /\ (pc = "lb" <=> pc' = "lb") /\ (pc \in Starting => pc' \in Starting)
  PROVE  OrderInv'
<1> SUFFICES ASSUME pc' \in CreatePCs PROVE OrderInv'
  BY DEF OrderInv
<1>1. \A n \in SetupNodes \cup {LB, NewReg} : /\ Own(n)' <=> Own(n)
                                              /\ cont'[n] = "running" <=> cont[n] = "running"
  BY DEF Own
<1>2. SetupOwned'
  BY <1>1, SetupFacts DEF OrderInv, SetupOwned
<1>3. IndexMoves'
  BY DEF OrderInv, IndexMoves
<1>4. HelpersOwned'
  BY <1>1 DEF OrderInv, HelpersOwned
<1>5. NoneRunsYet'
  BY <1>1 DEF OrderInv, NoneRunsYet
<1> QED
  BY <1>2, <1>3, <1>4, <1>5 DEF OrderInv

\* Every step keeps the invariant.
LEMMA OrderStep == TypeOK /\ OrderInv /\ [Next]_vars => OrderInv'
<1> SUFFICES ASSUME TypeOK, OrderInv, [Next]_vars, pc' \in CreatePCs PROVE OrderInv'
  BY DEF OrderInv
<1> USE DEF CreatePCs, AfterSetup, AfterReg, Starting
<1>s. /\ SetupNodes \subseteq Nodes \ {LB, Tools, NewReg} /\ LB \in Nodes /\ NewReg \in Nodes
      /\ Tools \notin SetupNodes \cup {LB, NewReg} /\ LB # NewReg
  BY SetupFacts, ClusterRunAssumption
<1>1. CASE \/ ClusterPrepNetwork \/ ClusterPrepImageVolume \/ FindUsedRegistry
           \/ ConnectRegistries \/ SpawnToolsGoroutine \/ WaitForTools \/ UNCHANGED vars
  BY <1>1, OrderKept DEF ClusterPrepNetwork, ClusterPrepImageVolume, FindUsedRegistry,
     ConnectRegistries, SpawnToolsGoroutine, WaitForTools, AtStep, Abort, docker, vars
<1>2. CASE RegistryCreate
  <2>1. pc = "createReg" /\ pc' = "connectReg" /\ next' = next /\ opts' = opts
    BY <1>2 DEF RegistryCreate, AtStep, Abort
  <2>2. cont' = [cont EXCEPT ![NewReg] = IF opts.createReg THEN "created" ELSE @]
    BY <1>2 DEF RegistryCreate, AtStep, Abort
  <2>3. \A n \in SetupNodes \cup {LB} : cont'[n] = cont[n]
    BY <2>2, <1>s
  <2>4. SetupOwned'
    BY <2>1, <2>3, SetupFacts DEF OrderInv, SetupOwned, Own
  <2>5. cont'[NewReg] = IF opts.createReg THEN "created" ELSE cont[NewReg]
    BY <2>2, <1>s DEF TypeOK, TypeRuntime
  <2>6. HelpersOwned'
    BY <2>1, <2>3, <2>5 DEF OrderInv, HelpersOwned, Own
  <2>7. NoneRunsYet' /\ IndexMoves'
    BY <2>1, <2>3, <2>5 DEF OrderInv, NoneRunsYet, IndexMoves
  <2> QED
    BY <2>4, <2>6, <2>7 DEF OrderInv
<1>3. CASE NodeSetup
  <2>1. /\ pc = "setup" /\ next \in DOMAIN Setup /\ next' = next + 1 /\ opts' = opts
        /\ pc' = IF next < Len(Setup) THEN "setup" ELSE "lb"
        /\ cont' = [cont EXCEPT ![Setup[next]] = "created"]
    BY <1>3 DEF NodeSetup, AtStep, Abort, CreateContainer, OrderInv, IndexMoves
  <2>2. /\ cont'[Setup[next]] = "created"
        /\ \A n \in Nodes : n # Setup[next] => cont'[n] = cont[n]
    BY <2>1, SetupFacts DEF TypeOK, TypeRuntime
  <2>3. SetupOwned'
    <3> SUFFICES ASSUME NEW i \in DOMAIN Setup PROVE Own(Setup[i])' <=> i < next + 1
      BY <2>1 DEF SetupOwned
    <3>1. CASE i = next
      BY <3>1, <2>2, SetupFacts DEF Own
    <3>2. CASE i # next
      <4>1. Setup[i] # Setup[next] /\ Setup[i] \in Nodes
        BY <3>2, <2>1, SetupFacts, ClusterRunAssumption
      <4>2. Own(Setup[i])' <=> i < next
        BY <4>1, <2>1, <2>2 DEF OrderInv, SetupOwned, Own
      <4> QED
        BY <4>2, <3>2, <2>1, SetupFacts
    <3> QED
      BY <3>1, <3>2
  <2>4. Setup[next] # LB /\ Setup[next] # NewReg
    BY <2>1, <1>s, SetupFacts
  <2>5. HelpersOwned'
    BY <2>1, <2>2, <2>4, <1>s DEF OrderInv, HelpersOwned, Own
  <2>6. NoneRunsYet'
    BY <2>1, <2>2, <1>s DEF OrderInv, NoneRunsYet
  <2>7. IndexMoves'
    BY <2>1, SetupFacts DEF IndexMoves
  <2> QED
    BY <2>3, <2>5, <2>6, <2>7 DEF OrderInv
<1>4. CASE CreateLoadbalancer
  <2>1. /\ pc = "lb" /\ pc' = "wait" /\ next' = next /\ opts' = opts
        /\ cont' = IF opts.lb THEN [cont EXCEPT ![LB] = "created"] ELSE cont
    BY <1>4 DEF CreateLoadbalancer, AtStep, Abort, CreateContainer
  <2>2. \A n \in SetupNodes \cup {NewReg} : cont'[n] = cont[n]
    BY <2>1, <1>s
  <2>3. opts.lb => cont'[LB] = "created"
    BY <2>1, <1>s DEF TypeOK, TypeRuntime
  <2>4. SetupOwned'
    BY <2>1, <2>2, SetupFacts DEF OrderInv, SetupOwned, Own
  <2>5. HelpersOwned'
    BY <2>1, <2>2, <2>3 DEF OrderInv, HelpersOwned, Own
  <2>6. NoneRunsYet' /\ IndexMoves'
    BY <2>1, <2>2, <2>3 DEF OrderInv, NoneRunsYet, IndexMoves
  <2> QED
    BY <2>4, <2>5, <2>6 DEF OrderInv
<1>5. CASE Goroutine
  <2>1. \A n \in SetupNodes \cup {LB, NewReg} : cont'[n] = cont[n]
    BY <1>5, <1>s DEF Goroutine, ToolsGetNode, ToolsCreate, ToolsStart, GoroutineStep,
       CreateContainer, TypeOK, TypeRuntime
  <2> QED
    BY <1>5, <2>1, OrderKept DEF Goroutine, ToolsGetNode, ToolsCreate, ToolsStart, GoroutineStep
<1>6. CASE GatherEnvironmentInfo
  <2>1. \A n \in SetupNodes \cup {LB, NewReg} : cont'[n] = cont[n]
    BY <1>6, <1>s DEF GatherEnvironmentInfo, TypeOK, TypeRuntime
  <2> QED
    BY <1>6, <2>1, OrderKept DEF GatherEnvironmentInfo, AtStep, Abort
<1>7. ASSUME NEW S \in SUBSET Nodes, NEW q \in {"agents", "aux", "post"},
             StartPhase(pc, S, q), pc \in AfterSetup \ {"lb"}, \A n \in S : Own(n)
      PROVE  OrderInv'
  <2>1. /\ pc' = q /\ next' = next /\ opts' = opts
        /\ cont' = [n \in Nodes |-> IF n \in S THEN "running" ELSE cont[n]]
    BY <1>7 DEF StartPhase, Start, AtStep, Abort
  <2>2. \A n \in Nodes : Own(n)' <=> Own(n)
    BY <1>7, <2>1 DEF Own
  <2>3. SetupOwned'
    <3>1. \A i \in DOMAIN Setup : Setup[i] \in Nodes
      BY SetupFacts
    <3>2. \A i \in DOMAIN Setup : Own(Setup[i])' <=> Own(Setup[i])
      BY <2>2, <3>1
    <3> QED
      BY <2>1, <3>2, <1>7 DEF OrderInv, SetupOwned
  <2>4. HelpersOwned'
    BY <1>7, <2>1, <2>2, <1>s DEF OrderInv, HelpersOwned
  <2>5. NoneRunsYet' /\ IndexMoves'
    BY <1>7, <2>1 DEF OrderInv, NoneRunsYet, IndexMoves
  <2> QED
    BY <2>3, <2>4, <2>5 DEF OrderInv
<1>8. CASE StartServers \/ StartAgents \/ StartHelpers
  <2>1. pc \in {"servers", "agents", "aux"}
    BY <1>8 DEF StartServers, StartAgents, StartHelpers, StartPhase, AtStep
  <2>2. \A n \in SetupNodes : Own(n)
    BY <2>1, SetupFacts DEF OrderInv, SetupOwned, IndexMoves, SetupNodes
  <2>3. \A n \in AuxNodes : Own(n)
    BY <2>1 DEF OrderInv, HelpersOwned, AuxNodes
  <2>4. Servers \subseteq SetupNodes /\ AuxNodes \subseteq Nodes
    BY <1>s, ClusterRunAssumption DEF AuxNodes
  <2>5. CASE StartServers
    BY <2>5, <2>2, <2>4, <1>7, <1>s DEF StartServers, StartPhase, AtStep
  <2>6. CASE StartAgents
    BY <2>6, <2>2, <2>4, <1>7, <1>s DEF StartAgents, StartPhase, AtStep
  <2>7. CASE StartHelpers
    BY <2>7, <2>3, <2>4, <1>7, <1>s DEF StartHelpers, StartPhase, AtStep
  <2> QED
    BY <1>8, <2>5, <2>6, <2>7
<1>9. CASE PostStart
  BY <1>9 DEF PostStart, AtStep, Abort
<1>10. CASE RollbackGet \/ (\E n \in Nodes : RollbackDeleteNode(n))
  BY <1>10 DEF RollbackGet, RollbackDeleteNode, RollbackStep
<1>11. CASE RollbackDeleteNetwork \/ RollbackDeleteVolume
  BY <1>11 DEF RollbackDeleteNetwork, RollbackDeleteVolume, RollbackStep
<1>12. ASSUME NEW n \in PeerNames, PeerCreates(n) PROVE OrderInv'
  <2>1. \A m \in Nodes : cont'[m] = cont[m] \/ (cont[m] = "absent" /\ cont'[m] = "peer")
    BY <1>12 DEF PeerCreates, TypeOK, TypeRuntime
  <2> QED
    BY <1>12, <2>1, <1>s, OrderKept DEF PeerCreates
<1> QED
  BY <1>1, <1>2, <1>3, <1>4, <1>5, <1>6, <1>8, <1>9, <1>10, <1>11, <1>12 DEF Next, Command

\* For every cluster: containers are created in the order of nodeSetup, the load balancer
\* after all nodes, and none is started before all exist, whatever fails and whoever
\* takes names in between.
THEOREM ContainersInOrder == Spec => []CreatedInOrder
<1>1. Init => TypeOK /\ OrderInv
  BY TypeInit, OrderInit
<1>2. TypeOK /\ OrderInv /\ [Next]_vars => (TypeOK /\ OrderInv)'
  BY TypeStep, OrderStep
<1> QED
  BY <1>1, <1>2, OrderImplies, PTL DEF Spec
-----------------------------------------------------------------------------
\* Why a success is complete, along the path that leads to it: what each control state
\* already guarantees of the runtime, and when the tools-node goroutine has ended.
BeforeSpawn == {"network", "volume", "findReg", "createReg", "connectReg", "spawn"}
Joined == {"gather", "servers", "agents", "aux", "post", "done"}
Running(S) == \A n \in S : cont[n] = "running"

NetReady == pc # "network" => net
VolReady == IF pc \in {"network", "volume"} THEN ~vol ELSE vol = opts.imageVolume
RegReady == IF pc \in BeforeSpawn \ {"spawn"} THEN regAttached => opts.useReg
                                              ELSE regAttached = opts.useReg
ToolsReady ==
  /\ pc \in BeforeSpawn => tools = "off"
  /\ pc \in Joined => tools = "ok"
  /\ tools = "create" => opts.imageVolume
  /\ tools = "ok" => cont[Tools] # "created"
  /\ pc \in Joined \ {"gather"} => (opts.desktop => cont[Tools] # "absent")
NodesReady ==
  /\ pc \in {"agents", "aux", "post", "done"} => Running(Servers)
  /\ pc \in {"aux", "post", "done"} => Running(SetupNodes)
  /\ pc \in {"post", "done"} => Running(AuxNodes)

CompleteInv ==
  pc \in CreatePCs \cup {"done"} =>
    NetReady /\ VolReady /\ RegReady /\ ToolsReady /\ NodesReady

\* Initially the goroutine is off, there is no volume, and only a registry the command
\* asks for may be connected.
LEMMA CompleteInit == Init => CompleteInv
<1> SUFFICES ASSUME Init PROVE CompleteInv
  OBVIOUS
<1>1. pc = "network" /\ tools = "off" /\ ~vol
  BY DEF Init
<1>2. regAttached => opts.useReg
  BY DEF Init
<1> QED
  BY <1>1, <1>2 DEF CompleteInv, NetReady, VolReady, RegReady, ToolsReady, NodesReady,
     BeforeSpawn, Joined

\* The last control state makes it what the user is told.
LEMMA CompleteImplies == CompleteInv => SuccessMeansComplete
<1> SUFFICES ASSUME CompleteInv, pc = "done"
             PROVE  /\ \A n \in SetupNodes \cup AuxNodes : cont[n] = "running"
                    /\ net /\ vol = opts.imageVolume /\ regAttached = opts.useReg
                    /\ cont[Tools] # "created" /\ (opts.desktop => cont[Tools] # "absent")
  BY DEF SuccessMeansComplete
<1>1. NetReady /\ VolReady /\ RegReady /\ ToolsReady /\ NodesReady
  BY DEF CompleteInv
<1> QED
  BY <1>1 DEF NetReady, VolReady, RegReady, ToolsReady, NodesReady, Running, BeforeSpawn, Joined

\* The control states of the way to success follow each other: a step that ends on it
\* began on it, and was not one of the rollback's.
LEMMA WayToSuccess ==
  ASSUME [Next]_vars, pc' \in CreatePCs \cup {"done"}
  PROVE  /\ pc \in CreatePCs \cup {"done"} /\ opts' = opts
         /\ \/ ClusterPrepNetwork \/ ClusterPrepImageVolume
            \/ FindUsedRegistry \/ RegistryCreate \/ ConnectRegistries
            \/ SpawnToolsGoroutine \/ NodeSetup \/ CreateLoadbalancer \/ WaitForTools
            \/ GatherEnvironmentInfo \/ StartServers \/ StartAgents \/ StartHelpers \/ PostStart
            \/ Goroutine \/ (\E n \in PeerNames : PeerCreates(n)) \/ UNCHANGED vars
<1> USE DEF CreatePCs
<1>1. ~RollbackGet /\ ~RollbackDeleteNetwork /\ ~RollbackDeleteVolume
  BY DEF RollbackGet, RollbackDeleteNetwork, RollbackDeleteVolume
<1>2. \A n \in Nodes : ~RollbackDeleteNode(n)
  BY DEF RollbackDeleteNode, RollbackStep
<1>3. CASE Goroutine
  BY <1>3 DEF Goroutine, ToolsGetNode, ToolsCreate, ToolsStart, GoroutineStep
<1>4. CASE (\E n \in PeerNames : PeerCreates(n)) \/ UNCHANGED vars
  BY <1>4 DEF PeerCreates, vars
<1>5. CASE Command
  BY <1>5, <1>1, <1>2 DEF Command, ClusterPrepNetwork, ClusterPrepImageVolume,
     FindUsedRegistry, RegistryCreate, ConnectRegistries, SpawnToolsGoroutine, NodeSetup,
     CreateLoadbalancer, WaitForTools, GatherEnvironmentInfo, StartServers, StartAgents,
     StartHelpers, StartPhase, PostStart, AtStep
<1> QED
  BY <1>3, <1>4, <1>5 DEF Next, Command

\* Every step keeps the invariant.
LEMMA CompleteStep == TypeOK /\ CompleteInv /\ [Next]_vars => CompleteInv'
<1> SUFFICES ASSUME TypeOK, CompleteInv, [Next]_vars, pc' \in CreatePCs \cup {"done"}
             PROVE  NetReady' /\ VolReady' /\ RegReady' /\ ToolsReady' /\ NodesReady'
  BY DEF CompleteInv
<1> USE DEF CreatePCs, BeforeSpawn, Joined
<1>s. /\ SetupNodes \subseteq Nodes \ {LB, Tools, NewReg} /\ LB \in Nodes /\ NewReg \in Nodes
      /\ Tools \in Nodes \ {LB, NewReg} /\ LB # NewReg /\ Servers \subseteq SetupNodes
  BY SetupFacts, ClusterRunAssumption
<1>t. /\ cont \in [Nodes -> {"absent", "created", "running", "peer"}]
      /\ opts \in OptionType
  BY ClusterRunAssumption DEF TypeOK, TypeRuntime, TypeControl
<1>i. NetReady /\ VolReady /\ RegReady /\ ToolsReady /\ NodesReady
  BY WayToSuccess DEF CompleteInv
<1>w. opts' = opts
  BY WayToSuccess
<1>1. CASE ClusterPrepNetwork
  <2>1. pc = "network" /\ pc' = "volume" /\ net' /\ vol' = vol /\ tools' = tools
        /\ regAttached' = regAttached
    BY <1>1 DEF ClusterPrepNetwork, AtStep, Abort, CreateNetworkIfNotPresent
  <2> QED
    BY <2>1, <1>i, <1>w DEF NetReady, VolReady, RegReady, ToolsReady, NodesReady
<1>2. CASE ClusterPrepImageVolume
  <2>1. pc = "volume" /\ pc' = "findReg" /\ net' = net /\ vol' = opts.imageVolume
        /\ tools' = tools /\ regAttached' = regAttached
    BY <1>2 DEF ClusterPrepImageVolume, AtStep, Abort
  <2> QED
    BY <2>1, <1>i, <1>w DEF NetReady, VolReady, RegReady, ToolsReady, NodesReady
<1>3. CASE FindUsedRegistry \/ RegistryCreate
  <2>1. /\ pc \in {"findReg", "createReg"} /\ pc' \in {"createReg", "connectReg"}
        /\ net' = net /\ vol' = vol /\ tools' = tools /\ regAttached' = regAttached
    BY <1>3 DEF FindUsedRegistry, RegistryCreate, AtStep, Abort, docker
  <2> QED
    BY <2>1, <1>i, <1>w DEF NetReady, VolReady, RegReady, ToolsReady, NodesReady
<1>4. CASE ConnectRegistries
  <2>1. /\ pc = "connectReg" /\ pc' = "spawn"
        /\ net' = net /\ vol' = vol /\ tools' = tools
        /\ IF opts.useReg THEN regAttached' = TRUE ELSE regAttached' = regAttached
    BY <1>4 DEF ConnectRegistries, ConnectNodeToNetwork, AtStep, Abort
  <2>2. regAttached' = opts.useReg
    BY <2>1, <1>i, <1>t DEF RegReady, OptionType, TypeOK, TypeRuntime
  <2>3. RegReady'
    BY <2>1, <2>2, <1>w DEF RegReady
  <2> QED
    BY <2>1, <2>3, <1>i, <1>w DEF NetReady, VolReady, ToolsReady, NodesReady
<1>5. CASE SpawnToolsGoroutine
  BY <1>5, <1>i, <1>w DEF SpawnToolsGoroutine, docker, NetReady, VolReady, RegReady, ToolsReady,
     NodesReady
<1>6. CASE NodeSetup \/ CreateLoadbalancer
  <2>1. /\ pc \in {"setup", "lb"} /\ pc' \in {"setup", "lb", "wait"}
        /\ net' = net /\ vol' = vol /\ tools' = tools /\ regAttached' = regAttached
    BY <1>6 DEF NodeSetup, CreateLoadbalancer, AtStep, Abort
  <2>2. cont'[Tools] = cont[Tools]
    <3>1. CASE NodeSetup
      <4>1. next \in DOMAIN Setup
        BY <3>1, SetupFacts DEF NodeSetup, TypeOK, TypeControl
      <4>2. Setup[next] # Tools
        BY <4>1, <1>s, SetupFacts
      <4> QED
        BY <3>1, <4>2, <1>s, <1>t DEF NodeSetup, CreateContainer
    <3>2. CASE CreateLoadbalancer
      BY <3>2, <1>s, <1>t DEF CreateLoadbalancer, CreateContainer
    <3> QED
      BY <1>6, <3>1, <3>2
  <2> QED
    BY <2>1, <2>2, <1>i, <1>w DEF NetReady, VolReady, RegReady, ToolsReady, NodesReady
<1>7. CASE WaitForTools
  BY <1>7, <1>i, <1>w DEF WaitForTools, AtStep, docker, NetReady, VolReady, RegReady, ToolsReady,
     NodesReady
<1>8. CASE GatherEnvironmentInfo
  <2>1. /\ pc = "gather" /\ pc' = "servers"
        /\ net' = net /\ vol' = vol /\ tools' = tools /\ regAttached' = regAttached
    BY <1>8 DEF GatherEnvironmentInfo, AtStep, Abort
  <2>2. PICK t \in {cont[Tools], "absent"} :
          cont' = [cont EXCEPT ![Tools] = IF opts.desktop /\ t = "absent" THEN "running" ELSE t]
    BY <1>8, <2>1 DEF GatherEnvironmentInfo, Abort
  <2>3. cont'[Tools] = IF opts.desktop /\ t = "absent" THEN "running" ELSE t
    BY <2>2, <1>s, <1>t
  <2>4. cont'[Tools] # "created" /\ (opts.desktop => cont'[Tools] # "absent")
    BY <2>1, <2>3, <1>i DEF ToolsReady
  <2> QED
    BY <2>1, <2>4, <1>i, <1>w DEF NetReady, VolReady, RegReady, ToolsReady, NodesReady
<1>9. ASSUME NEW p \in {"servers", "agents", "aux"}, NEW S \in SUBSET (Nodes \ {Tools}),
             NEW q \in {"agents", "aux", "post"}, StartPhase(p, S, q)
      PROVE  /\ pc = p /\ pc' = q /\ NetReady' /\ VolReady' /\ RegReady' /\ ToolsReady'
             /\ \A n \in S : cont'[n] = "running"
             /\ \A T \in SUBSET Nodes : Running(T) => Running(T)'
  <2>1. /\ pc = p /\ pc' = q
        /\ net' = net /\ vol' = vol /\ tools' = tools /\ regAttached' = regAttached
    BY <1>9 DEF StartPhase, AtStep, Abort
  <2>2. cont' = [n \in Nodes |-> IF n \in S THEN "running" ELSE cont[n]]
    BY <1>9, <2>1 DEF StartPhase, Start, Abort
  <2>3. (\A n \in S : cont'[n] = "running") /\ \A T \in SUBSET Nodes : Running(T) => Running(T)'
    BY <2>2 DEF Running
  <2>4. cont'[Tools] = cont[Tools]
    BY <2>2, <1>s
  <2>5. NetReady' /\ VolReady' /\ RegReady'
    BY <2>1, <1>i, <1>w DEF NetReady, VolReady, RegReady
  <2>6. ToolsReady'
    BY <2>1, <2>4, <1>i, <1>w DEF ToolsReady
  <2> QED
    BY <2>1, <2>3, <2>5, <2>6
<1>10. CASE StartServers
  <2>1. Servers \in SUBSET (Nodes \ {Tools})
    BY <1>s
  <2>2. /\ pc' = "agents" /\ \A n \in Servers : cont'[n] = "running"
        /\ NetReady' /\ VolReady' /\ RegReady' /\ ToolsReady'
    BY <1>10, <2>1, <1>9 DEF StartServers
  <2> QED
    BY <2>2 DEF NodesReady, Running
<1>11. CASE StartAgents
  <2>1. SetupNodes \ Servers \in SUBSET (Nodes \ {Tools}) /\ Servers \in SUBSET Nodes
    BY <1>s
  <2>2. /\ pc = "agents" /\ pc' = "aux" /\ \A n \in SetupNodes \ Servers : cont'[n] = "running"
        /\ Running(Servers) => Running(Servers)'
        /\ NetReady' /\ VolReady' /\ RegReady' /\ ToolsReady'
    BY <1>11, <2>1, <1>9 DEF StartAgents
  <2>3. Running(Servers)'
    BY <2>2, <1>i DEF NodesReady
  <2>4. Running(SetupNodes)'
    BY <2>2, <2>3 DEF Running
  <2> QED
    BY <2>2, <2>3, <2>4 DEF NodesReady
<1>12. CASE StartHelpers
  <2>1. AuxNodes \in SUBSET (Nodes \ {Tools}) /\ Servers \in SUBSET Nodes /\ SetupNodes \in SUBSET Nodes
    BY <1>s DEF AuxNodes
  <2>2. /\ pc = "aux" /\ pc' = "post" /\ \A n \in AuxNodes : cont'[n] = "running"
        /\ \A T \in SUBSET Nodes : Running(T) => Running(T)'
        /\ NetReady' /\ VolReady' /\ RegReady' /\ ToolsReady'
    BY <1>12, <2>1, <1>9 DEF StartHelpers
  <2>3. Running(Servers)' /\ Running(SetupNodes)'
    BY <2>1, <2>2, <1>i DEF NodesReady
  <2>4. Running(AuxNodes)'
    BY <2>2, <1>w DEF Running, AuxNodes
  <2> QED
    BY <2>2, <2>3, <2>4 DEF NodesReady
<1>13. CASE PostStart
  BY <1>13, <1>i, <1>w DEF PostStart, AtStep, Abort, docker, NetReady, VolReady, RegReady,
     ToolsReady, NodesReady, Running, AuxNodes
<1>14. CASE UNCHANGED vars
  BY <1>14, <1>i DEF vars, NetReady, VolReady, RegReady, ToolsReady, NodesReady, Running, AuxNodes
\* The goroutine and the peer leave running containers alone.
<1>15. ASSUME pc' = pc, net' = net, regAttached' = regAttached,
              pc \notin Terminal, VolReady', ToolsReady',
              \A n \in Nodes : cont[n] = "running" => cont'[n] = "running"
       PROVE  NetReady' /\ VolReady' /\ RegReady' /\ ToolsReady' /\ NodesReady'
  <2>1. NetReady' /\ RegReady'
    BY <1>15, <1>i, <1>w DEF NetReady, RegReady
  <2>2. AuxNodes' = AuxNodes /\ AuxNodes \subseteq Nodes
    BY <1>w, <1>s DEF AuxNodes
  <2>3. \A T \in SUBSET Nodes : Running(T) => Running(T)'
    BY <1>15 DEF Running
  <2>4. NodesReady'
    BY <1>15, <2>2, <2>3, <1>i, <1>s DEF NodesReady, Running
  <2> QED
    BY <1>15, <2>1, <2>4
<1>16. CASE ToolsGetNode
  <2>1. pc' = pc /\ net' = net /\ regAttached' = regAttached /\ vol' = vol /\ cont' = cont
        /\ pc \notin Terminal /\ tools = "get"
        /\ (tools' = "create" => opts.imageVolume) /\ (tools' = "ok" => cont[Tools] = "peer")
    BY <1>16 DEF ToolsGetNode, GoroutineStep
  <2>2. VolReady' /\ ToolsReady'
    BY <2>1, <1>i, <1>w DEF VolReady, ToolsReady
  <2> QED
    BY <2>1, <2>2, <1>15
<1>17. CASE ToolsCreate
  <2>1. pc' = pc /\ net' = net /\ regAttached' = regAttached /\ pc \notin Terminal /\ tools = "create"
        /\ tools' \in {"start", "err"}
    BY <1>17 DEF ToolsCreate, GoroutineStep
  <2>2. opts.imageVolume /\ opts.imageVolume = TRUE
    BY <2>1, <1>i, <1>t DEF ToolsReady, OptionType
  <2>3. vol' = vol \/ vol' = TRUE
    BY <1>17 DEF ToolsCreate
  <2>4. VolReady'
    BY <2>1, <2>2, <2>3, <1>i, <1>w DEF VolReady, ToolsReady
  <2>5. ToolsReady'
    BY <2>1, <1>i DEF ToolsReady
  <2>6. \A n \in Nodes : cont[n] = "running" => cont'[n] = "running"
    BY <1>17, <1>t DEF ToolsCreate, CreateContainer
  <2> QED
    BY <2>1, <2>4, <2>5, <2>6, <1>15
<1>18. CASE ToolsStart
  <2>1. pc' = pc /\ net' = net /\ regAttached' = regAttached /\ pc \notin Terminal /\ tools = "start"
        /\ vol' = vol /\ tools' \in {"ok", "err"}
    BY <1>18 DEF ToolsStart, GoroutineStep
  <2>2. VolReady'
    BY <2>1, <1>i, <1>w DEF VolReady
  <2>3. tools' = "ok" => cont'[Tools] # "created"
    BY <1>18, <1>s, <1>t DEF ToolsStart
  <2>4. ToolsReady'
    BY <2>1, <2>3, <1>i DEF ToolsReady
  <2>5. \A n \in Nodes : cont[n] = "running" => cont'[n] = "running"
    BY <1>18, <1>s, <1>t DEF ToolsStart
  <2> QED
    BY <2>1, <2>2, <2>4, <2>5, <1>15
<1>19. ASSUME NEW n \in PeerNames, PeerCreates(n)
       PROVE  NetReady' /\ VolReady' /\ RegReady' /\ ToolsReady' /\ NodesReady'
  <2>1. pc' = pc /\ net' = net /\ regAttached' = regAttached /\ pc \notin Terminal
        /\ vol' = vol /\ tools' = tools
    BY <1>19 DEF PeerCreates
  <2>2. VolReady'
    BY <2>1, <1>i, <1>w DEF VolReady
  <2>3. \A m \in Nodes : cont'[m] = cont[m] \/ cont'[m] = "peer"
    BY <1>19, <1>t DEF PeerCreates
  <2>4. ToolsReady'
    BY <2>1, <2>3, <1>i, <1>s, <1>w DEF ToolsReady
  <2>5. \A m \in Nodes : cont[m] = "running" => cont'[m] = "running"
    BY <1>19, <1>t DEF PeerCreates
  <2> QED
    BY <2>1, <2>2, <2>4, <2>5, <1>15
<1> QED
  BY WayToSuccess, <1>1, <1>2, <1>3, <1>4, <1>5, <1>6, <1>7, <1>8, <1>10, <1>11, <1>12, <1>13,
     <1>14, <1>16, <1>17, <1>18, <1>19 DEF Goroutine

\* "Cluster created successfully" is true: for every cluster, whatever fails on the way and
\* whatever a peer takes, the success message finds everything that was asked for.
THEOREM SuccessIsComplete == Spec => []SuccessMeansComplete
<1>1. Init => TypeOK /\ CompleteInv
  BY TypeInit, CompleteInit
<1>2. TypeOK /\ CompleteInv /\ [Next]_vars => (TypeOK /\ CompleteInv)'
  BY TypeStep, CompleteStep
<1> QED
  BY <1>1, <1>2, CompleteImplies, PTL DEF Spec
-----------------------------------------------------------------------------
\* Why a clean rollback restores: a rollback that started alone has every container of the
\* command's among those to delete, knows the network is its own, and meets no goroutine
\* that could create the tools node or its volume behind its back.
CleanPCs == {"deleteNodes", "deleteVolume", "rolledBack"}
GoroutineEnded == tools \notin {"get", "create", "start"}
AllDoomed == \A n \in Nodes : Own(n) => pc = "deleteNodes" /\ n \in doomed
NetworkGone == netMaker = "self" => IF pc = "deleteNodes" THEN ~external ELSE ~net
VolumeGone == pc = "rolledBack" => ~vol \/ \E n \in Nodes : cont[n] = "peer"

RollbackInv ==
  pc \in CleanPCs /\ alone /\ ~rollbackFault =>
    GoroutineEnded /\ AllDoomed /\ NetworkGone /\ VolumeGone

\* The least element of a non-empty set of naturals is one of its elements.
LEMMA MinElement == ASSUME NEW S \in SUBSET Nat, S # {} PROVE Min(S) \in S
<1>1. S \subseteq Nat
  OBVIOUS
<1>2. PICK x \in S : \A y \in S : <<y, x>> \notin OpToRel(<, Nat)
  BY <1>1, WFMin, NatLessThanWellFounded, Zenon
<1>3. \A y \in S : ~(y < x)
  BY <1>1, <1>2, Zenon DEF OpToRel
<1>4. \A y \in S : x =< y
  BY <1>1, <1>3
<1> QED
  BY <1>4 DEF Min

\* Where no container is a peer's, the labels say that a network of the command's is its own.
LEMMA LabelsSayOwn ==
  ASSUME netMaker = "self", \A n \in Nodes : cont[n] # "peer"
  PROVE  ~ExternalFromLabels
<1> DEFINE carriers == {i \in DOMAIN StructOrder : HasNetworkLabel(StructOrder[i])}
<1> SUFFICES ASSUME carriers # {} PROVE ~NetworkLabel(StructOrder[Min(carriers)])
  BY DEF ExternalFromLabels
<1>1. Setup \in Seq(SetupNodes) /\ DOMAIN Setup = 1 .. Len(Setup) /\ Len(Setup) \in Nat
  BY ClusterRunAssumption
<1>2. /\ DOMAIN StructOrder = 1 .. Len(Setup) + 1
      /\ StructOrder[1] = LB
      /\ \A i \in DOMAIN Setup : StructOrder[i + 1] = Setup[i]
  BY <1>1 DEF StructOrder
<1>3. \A i \in DOMAIN StructOrder : StructOrder[i] \in Nodes
  <2> SUFFICES ASSUME NEW i \in DOMAIN StructOrder, i # 1 PROVE StructOrder[i] \in Nodes
    BY <1>2, SetupFacts
  <2>1. i - 1 \in DOMAIN Setup /\ i = (i - 1) + 1
    BY <1>1, <1>2
  <2>2. StructOrder[i] = Setup[i - 1]
    BY <1>2, <2>1
  <2> QED
    BY <2>1, <2>2, SetupFacts
<1>4. carriers \in SUBSET Nat
  BY <1>1, <1>2
<1>5. Min(carriers) \in carriers
  BY <1>4, MinElement
<1>6. StructOrder[Min(carriers)] \in Nodes
  BY <1>3, <1>5
<1> QED
  BY <1>6 DEF NetworkLabel

\* Every step keeps the invariant.
LEMMA RollbackInvStep == TypeOK /\ RollbackInv /\ [Next]_vars => RollbackInv'
<1> SUFFICES ASSUME TypeOK, RollbackInv, [Next]_vars, pc' \in CleanPCs, alone', ~rollbackFault'
             PROVE  GoroutineEnded' /\ AllDoomed' /\ NetworkGone' /\ VolumeGone'
  BY DEF RollbackInv
<1> USE DEF CleanPCs
<1>t. cont \in [Nodes -> {"absent", "created", "running", "peer"}]
  BY DEF TypeOK, TypeRuntime
<1>1. CASE \/ ClusterPrepNetwork \/ ClusterPrepImageVolume \/ FindUsedRegistry
           \/ RegistryCreate \/ ConnectRegistries \/ SpawnToolsGoroutine \/ NodeSetup
           \/ CreateLoadbalancer \/ WaitForTools \/ GatherEnvironmentInfo \/ StartServers
           \/ StartAgents \/ StartHelpers \/ PostStart
  BY <1>1 DEF ClusterPrepNetwork, ClusterPrepImageVolume, FindUsedRegistry, RegistryCreate,
     ConnectRegistries, SpawnToolsGoroutine, NodeSetup, CreateLoadbalancer, WaitForTools,
     GatherEnvironmentInfo, StartServers, StartAgents, StartHelpers, StartPhase, PostStart, Abort
<1>2. CASE RollbackGet
  <2>1. /\ pc' = "deleteNodes" /\ cont' = cont /\ netMaker' = netMaker /\ tools' = tools
        /\ tools \notin {"get", "create", "start"} /\ \A n \in Nodes : cont[n] # "peer"
        /\ doomed' = StructNodes \cup {n \in Nodes : cont[n] # "absent"}
        /\ external' = ExternalFromLabels
    BY <1>2 DEF RollbackGet, RollbackStep, docker
  <2>2. AllDoomed'
    BY <2>1 DEF AllDoomed, Own
  <2>3. netMaker = "self" => ~ExternalFromLabels
    BY <2>1, LabelsSayOwn
  <2> QED
    BY <2>1, <2>2, <2>3 DEF GoroutineEnded, NetworkGone, VolumeGone
<1>3. ASSUME NEW m \in Nodes, RollbackDeleteNode(m)
      PROVE  GoroutineEnded' /\ AllDoomed' /\ NetworkGone' /\ VolumeGone'
  <2>1. /\ pc = "deleteNodes" /\ pc' = pc /\ netMaker' = netMaker /\ tools' = tools
        /\ net' = net /\ external' = external /\ alone' = alone /\ doomed' = doomed \ {m}
        /\ (\/ cont' = [cont EXCEPT ![m] = "absent"] /\ rollbackFault' = rollbackFault
            \/ rollbackFault')
    BY <1>3, Zenon DEF RollbackDeleteNode, RollbackStep, NodeDelete
  <2>2. cont' = [cont EXCEPT ![m] = "absent"] /\ ~rollbackFault /\ alone
    BY <2>1
  <2>3. GoroutineEnded /\ AllDoomed /\ NetworkGone
    BY <2>1, <2>2 DEF RollbackInv
  <2>4. AllDoomed'
    BY <2>1, <2>2, <2>3, <1>t DEF AllDoomed, Own
  <2> QED
    BY <2>1, <2>3, <2>4 DEF GoroutineEnded, NetworkGone, VolumeGone
<1>4. CASE RollbackDeleteNetwork
  <2>1. /\ pc = "deleteNodes" /\ pc' = "deleteVolume" /\ doomed = {} /\ cont' = cont
        /\ netMaker' = netMaker /\ tools' = tools /\ alone' = alone
        /\ (\/ external
            \/ rollbackFault'
            \/ RunningNonRegistries # {} /\ rollbackFault' = rollbackFault
            \/ ~net' /\ rollbackFault' = rollbackFault)
    BY <1>4, Zenon DEF RollbackDeleteNetwork, RollbackStep, DeleteNetwork
  <2>2. alone /\ (external \/ ~rollbackFault)
    BY <2>1
  <2>3. ~rollbackFault
    BY <1>4, Zenon DEF RollbackDeleteNetwork, RollbackStep
  <2>4. GoroutineEnded /\ AllDoomed /\ NetworkGone
    BY <2>1, <2>2, <2>3 DEF RollbackInv
  <2>5. \A n \in Nodes : ~Own(n)
    BY <2>1, <2>4 DEF AllDoomed
  <2>6. RunningNonRegistries = {}
    BY <2>5 DEF RunningNonRegistries, Own
  <2>7. NetworkGone'
    BY <2>1, <2>4, <2>6 DEF NetworkGone
  <2>8. AllDoomed'
    BY <2>1, <2>5 DEF AllDoomed, Own
  <2> QED
    BY <2>1, <2>4, <2>7, <2>8 DEF GoroutineEnded, VolumeGone
<1>5. CASE RollbackDeleteVolume
  <2>1. /\ pc = "deleteVolume" /\ pc' = "rolledBack" /\ cont' = cont
        /\ netMaker' = netMaker /\ tools' = tools /\ alone' = alone /\ net' = net
    BY <1>5 DEF RollbackDeleteVolume, RollbackStep
  <2>2. ~rollbackFault /\ (~vol' \/ Mounted)
    <3>1. \/ vol' = FALSE /\ rollbackFault' = rollbackFault
          \/ Mounted /\ rollbackFault' = rollbackFault
          \/ rollbackFault' = TRUE
      BY <1>5 DEF RollbackDeleteVolume, DeleteVolume
    <3>2. CASE vol' = FALSE /\ rollbackFault' = rollbackFault
      BY <3>2, Zenon
    <3>3. CASE Mounted /\ rollbackFault' = rollbackFault
      BY <3>3, Zenon
    <3> QED
      BY <3>1, <3>2, <3>3, Zenon
  <2>3. GoroutineEnded /\ AllDoomed /\ NetworkGone
    BY <2>1, <2>2 DEF RollbackInv
  <2>4. \A n \in Nodes : ~Own(n)
    BY <2>1, <2>3 DEF AllDoomed
  <2>5. Mounted => \E n \in Nodes : cont[n] = "peer"
    BY <2>4, <1>t DEF Mounted, Own
  <2>6. VolumeGone'
    BY <2>1, <2>2, <2>5 DEF VolumeGone
  <2>7. AllDoomed'
    BY <2>1, <2>4 DEF AllDoomed, Own
  <2>8. NetworkGone'
    BY <2>1, <2>3 DEF NetworkGone
  <2> QED
    BY <2>1, <2>3, <2>6, <2>7, <2>8 DEF GoroutineEnded
<1>6. CASE Goroutine
  <2>1. /\ tools \in {"get", "create", "start"} /\ pc' = pc /\ alone' = alone
        /\ rollbackFault' = rollbackFault
    BY <1>6 DEF Goroutine, ToolsGetNode, ToolsCreate, ToolsStart, GoroutineStep
  <2> QED
    BY <2>1 DEF RollbackInv, GoroutineEnded
<1>7. ASSUME NEW m \in PeerNames, PeerCreates(m)
      PROVE  GoroutineEnded' /\ AllDoomed' /\ NetworkGone' /\ VolumeGone'
  <2>1. /\ pc' = pc /\ pc # "rolledBack" /\ netMaker' = netMaker /\ tools' = tools
        /\ alone' = alone /\ net' = net /\ external' = external /\ doomed' = doomed
        /\ rollbackFault' = rollbackFault
    BY <1>7 DEF PeerCreates, history, Terminal
  <2>2. GoroutineEnded /\ AllDoomed /\ NetworkGone
    BY <2>1 DEF RollbackInv
  <2>3. \A n \in Nodes : cont'[n] = cont[n] \/ cont'[n] = "peer"
    BY <1>7, <1>t DEF PeerCreates
  <2>4. AllDoomed'
    BY <2>1, <2>2, <2>3 DEF AllDoomed, Own
  <2> QED
    BY <2>1, <2>2, <2>4 DEF GoroutineEnded, NetworkGone, VolumeGone
<1>8. CASE UNCHANGED vars
  <2>1. GoroutineEnded /\ AllDoomed /\ NetworkGone /\ VolumeGone
    BY <1>8 DEF RollbackInv, vars
  <2> QED
    BY <2>1, <1>8 DEF vars, GoroutineEnded, AllDoomed, NetworkGone, VolumeGone, Own
<1> QED
  BY <1>1, <1>2, <1>3, <1>4, <1>5, <1>6, <1>7, <1>8 DEF Next, Command

\* The message "all changes have been rolled back!" is true of a clean rollback: for every
\* cluster, once the runtime served each of its calls, it started after the tools-node
\* goroutine had ended, and no peer is around, nothing the command created is left.
THEOREM CleanRollbackIsComplete == Spec => []CleanRollbackRestores
<1>1. Init => TypeOK /\ RollbackInv
  BY TypeInit DEF Init, RollbackInv, CleanPCs
<1>2. TypeOK /\ RollbackInv /\ [Next]_vars => (TypeOK /\ RollbackInv)'
  BY TypeStep, RollbackInvStep
<1>3. RollbackInv => CleanRollbackRestores
  BY DEF RollbackInv, CleanPCs, AllDoomed, NetworkGone, VolumeGone, CleanRollbackRestores,
     RestoredState
<1> QED
  BY <1>1, <1>2, <1>3, PTL DEF Spec
=============================================================================
