------------------------------ MODULE ClusterRun ------------------------------
(***************************************************************************)
(* `k3d cluster create`: ClusterRun (preparation, the tools-node goroutine, *)
(* creation and start of the containers) and the rollback that the command *)
(* runs when any of it fails.                                              *)
(*                                                                         *)
(* Every call to the container runtime may fail.  Two parties act beside   *)
(* the command's own thread: the goroutine that ensures the tools node     *)
(* (spawned before ClusterCreate, joined only when ClusterCreate succeeds) *)
(* and a peer, another k3d process creating a cluster of the same name,    *)
(* which passed the same "does it exist" check.                            *)
(***************************************************************************)
EXTENDS Naturals, Sequences, FiniteSetsExt

CONSTANTS
  Setup,      \* the server and agent nodes, in the order nodeSetup handles them
  Servers,    \* those of them with the server role
  LB,         \* the serverlb node
  Tools,      \* the k3d-tools node
  NewReg,     \* the registry that --registry-create asks for
  PeerNames,  \* the container names the peer may take
  Options     \* the command lines considered (records, see OptionType)

SetupNodes == {Setup[i] : i \in DOMAIN Setup}
Nodes == SetupNodes \cup {LB, Tools, NewReg}

\* imageVolume: no --no-image-volume;  lb: no --no-lb;  createReg: --registry-create;
\* useReg: --registry-use with a running registry;  rollback: no --no-rollback;
\* desktop: a runtime (Docker Desktop, Colima) whose host IP is resolved in the tools node;
\* timed: --timeout was given (the default is to wait without one).
OptionType == [imageVolume: BOOLEAN, lb: BOOLEAN, createReg: BOOLEAN, useReg: BOOLEAN,
               rollback: BOOLEAN, desktop: BOOLEAN, timed: BOOLEAN]

ASSUME ClusterRunAssumption ==
  /\ Setup \in Seq(SetupNodes) /\ Len(Setup) > 0
  /\ \A i, j \in DOMAIN Setup : Setup[i] = Setup[j] => i = j
  /\ Servers \subseteq SetupNodes
  /\ LB \notin SetupNodes /\ Tools \notin SetupNodes /\ NewReg \notin SetupNodes
  /\ LB # Tools /\ LB # NewReg /\ Tools # NewReg
  /\ PeerNames \subseteq SetupNodes \cup {LB, Tools}
  /\ Options \subseteq OptionType

VARIABLES
  cont,        \* runtime: what container has this name
  net,         \* runtime: does a network with the cluster network's name exist?
  netMaker,    \* who created it
  vol,         \* runtime: does the image volume exist?
  regAttached, \* runtime: is the used (running) registry connected to the network?
  opts,        \* the command line
  pc,          \* control state of the command
  next,        \* index in Setup of the next node to set up
  labelled,    \* nodes of the Cluster struct whose RuntimeLabels hold the global labels
  tools,       \* control state of the tools-node goroutine
  doomed,      \* nodes ClusterDelete still has to delete
  external,    \* Network.External as ClusterDelete sees it
  fault,       \* history: a runtime call failed during creation
  rollbackFault, \* history: a runtime call of the rollback failed that the runtime could serve
  alone        \* history: no goroutine and no peer's container was there when the rollback began

docker == <<cont, net, netMaker, vol, regAttached>>
history == <<fault, rollbackFault, alone>>
vars == <<cont, net, netMaker, vol, regAttached, opts, pc, next, labelled, tools,
          doomed, external, fault, rollbackFault, alone>>

Terminal == {"done", "rolledBack", "rollbackFailed", "abandoned"}
CreatePCs == {"network", "volume", "findReg", "createReg", "connectReg", "spawn",
              "setup", "lb", "wait", "gather", "servers", "agents", "aux", "post"}
RollbackPCs == {"failed", "deleteNodes", "deleteNetwork", "deleteVolume"}

Own(n) == cont[n] \in {"created", "running"}

-----------------------------------------------------------------------------
\* The runtime may already hold a network of that name: the user's, or the one the
\* peer just created.  A used registry may already be connected to it.
Init ==
  /\ cont = [n \in Nodes |-> "absent"]
  /\ opts \in Options
  /\ netMaker \in {"none", "user"} \cup (IF PeerNames = {} THEN {} ELSE {"peer"})
  /\ net = (netMaker # "none")
  /\ regAttached \in {FALSE, opts.useReg /\ net}
  /\ vol = FALSE
  /\ pc = "network" /\ next = 1 /\ labelled = {} /\ tools = "off"
  /\ doomed = {} /\ external = FALSE
  /\ fault = FALSE /\ rollbackFault = FALSE /\ alone = TRUE

\* An error return of ClusterRun caused by a failed runtime call.
Abort == pc' = "failed" /\ fault' = TRUE

AtStep(p) == pc = p /\ UNCHANGED <<opts, tools, doomed, external, rollbackFault, alone>>
-----------------------------------------------------------------------------
(* ClusterPrep *)

\* A network of that name is re-used.
CreateNetworkIfNotPresent ==
  \/ net /\ UNCHANGED <<net, netMaker>>
  \/ ~net /\ net' = TRUE /\ netMaker' = "self"

\* A network that was there is labelled external from now on.  The step may fail before
\* the network exists or after (inspecting it, reserving an address).
ClusterPrepNetwork ==
  /\ AtStep("network")
  /\ \/ CreateNetworkIfNotPresent /\ pc' = "volume" /\ UNCHANGED fault
     \/ CreateNetworkIfNotPresent /\ Abort
     \/ UNCHANGED <<net, netMaker>> /\ Abort
  /\ UNCHANGED <<cont, vol, regAttached, next, labelled>>

ClusterPrepImageVolume ==
  /\ AtStep("volume")
  /\ \/ vol' = opts.imageVolume /\ pc' = "findReg" /\ UNCHANGED fault
     \/ opts.imageVolume /\ Abort /\ UNCHANGED vol
  /\ UNCHANGED <<cont, net, netMaker, regAttached, next, labelled>>

\* Every registry of Registries.Use has to exist.
FindUsedRegistry ==
  /\ AtStep("findReg")
  /\ \/ pc' = "createReg" /\ UNCHANGED fault
     \/ opts.useReg /\ Abort
  /\ UNCHANGED <<docker, next, labelled>>

RegistryCreate ==
  /\ AtStep("createReg")
  /\ \/ /\ pc' = "connectReg" /\ UNCHANGED fault
        /\ cont' = [cont EXCEPT ![NewReg] = IF opts.createReg THEN "created" ELSE @]
     \/ opts.createReg /\ Abort /\ UNCHANGED cont
  /\ UNCHANGED <<net, netMaker, vol, regAttached, next, labelled>>

\* A container that is connected to the network already is left alone.
ConnectNodeToNetwork == regAttached' = TRUE

\* RegistryConnectNetworks for every used registry, the created one last.
ConnectRegistries ==
  /\ AtStep("connectReg")
  /\ \/ /\ IF opts.useReg THEN ConnectNodeToNetwork ELSE UNCHANGED regAttached
        /\ pc' = "spawn" /\ UNCHANGED fault
     \/ opts.useReg /\ ConnectNodeToNetwork /\ opts.createReg /\ Abort
     \/ (opts.useReg \/ opts.createReg) /\ UNCHANGED regAttached /\ Abort
  /\ UNCHANGED <<cont, net, netMaker, vol, next, labelled>>

\* g.Go(EnsureToolsNode)
SpawnToolsGoroutine ==
  /\ pc = "spawn" /\ pc' = "setup" /\ tools' = "get"
  /\ UNCHANGED <<docker, opts, next, labelled, doomed, external, history>>
-----------------------------------------------------------------------------
(* ClusterCreate *)

\* runtime.CreateNode: fails when the name is taken.
CreateContainer(n) == cont[n] = "absent" /\ cont' = [cont EXCEPT ![n] = "created"]

\* Mutated form of NodeSetup: a node that cannot be created is logged and skipped.
NodeSetupGoesOn ==
  /\ AtStep("setup") /\ next <= Len(Setup)
  /\ labelled' = labelled \cup {Setup[next]}
  /\ CreateContainer(Setup[next]) \/ UNCHANGED cont
  /\ next' = next + 1 /\ pc' = IF next < Len(Setup) THEN "setup" ELSE "lb"
  /\ UNCHANGED <<net, netMaker, vol, regAttached, fault>>

\* nodeSetup: the labels reach the struct before the container is created.
NodeSetup ==
  /\ AtStep("setup")
  /\ next <= Len(Setup)
  /\ labelled' = labelled \cup {Setup[next]}
  /\ \/ /\ CreateContainer(Setup[next]) /\ next' = next + 1
        /\ pc' = IF next < Len(Setup) THEN "setup" ELSE "lb"
        /\ UNCHANGED fault
     \/ Abort /\ UNCHANGED <<cont, next>>
  /\ UNCHANGED <<net, netMaker, vol, regAttached>>

CreateLoadbalancer ==
  /\ AtStep("lb")
  /\ labelled' = IF opts.lb THEN labelled \cup {LB} ELSE labelled
  /\ \/ /\ IF opts.lb THEN CreateContainer(LB) ELSE UNCHANGED cont
        /\ pc' = "wait" /\ UNCHANGED fault
     \/ opts.lb /\ Abort /\ UNCHANGED cont
  /\ UNCHANGED <<net, netMaker, vol, regAttached, next>>
-----------------------------------------------------------------------------
(* The tools-node goroutine: EnsureToolsNode.  It dies with the process. *)

GoroutineStep(s) ==
  /\ pc \notin Terminal
  /\ tools = s
  /\ UNCHANGED <<net, netMaker, regAttached, opts, pc, next, labelled, doomed, external,
                 rollbackFault, alone>>

\* Without an image volume in the struct, the cluster is looked up and its nodes are
\* searched for an image volume label, which none of them carries.
ToolsGetNode ==
  /\ GoroutineStep("get")
  /\ \/ cont[Tools] = "peer" /\ tools' \in {"ok", "start"}
     \/ cont[Tools] # "peer" /\ tools' = IF opts.imageVolume THEN "create" ELSE "err"
  /\ UNCHANGED <<cont, vol, fault>>

\* runToolsNode, NodeCreate: a named volume that is mounted springs into existence.
ToolsCreate ==
  /\ GoroutineStep("create")
  /\ \/ CreateContainer(Tools) /\ vol' = TRUE /\ tools' = "start" /\ UNCHANGED fault
     \/ tools' = "err" /\ fault' = TRUE /\ UNCHANGED <<cont, vol>>

\* NodeStart, or the start of a stopped tools node: needs the container and its network.
ToolsStart ==
  /\ GoroutineStep("start")
  /\ \/ /\ cont[Tools] # "absent" /\ net
        /\ cont' = [cont EXCEPT ![Tools] = IF @ = "created" THEN "running" ELSE @]
        /\ tools' = "ok" /\ UNCHANGED fault
     \/ tools' = "err" /\ fault' = TRUE /\ UNCHANGED cont
  /\ UNCHANGED vol

\* Mutated form of WaitForTools: the goroutine is never joined.
WaitForNothing == AtStep("wait") /\ pc' = "gather" /\ UNCHANGED <<docker, next, labelled, fault>>

\* Mutated form of WaitForTools: only a tools node that came up ends the wait.
WaitForToolsUp ==
  AtStep("wait") /\ tools = "ok" /\ pc' = "gather" /\ UNCHANGED <<docker, next, labelled, fault>>

\* g.Wait(): an error of the goroutine is an error of ClusterRun.
WaitForTools ==
  /\ AtStep("wait")
  /\ tools \in {"ok", "err"}
  /\ pc' = IF tools = "ok" THEN "gather" ELSE "failed"
  /\ UNCHANGED <<docker, next, labelled, fault>>
-----------------------------------------------------------------------------
(* GatherEnvironmentInfo and ClusterStart *)

\* The tools node is ensured and deleted (a failure to delete it is only logged);
\* GetHostIP brings it back where the host IP is resolved from inside it.
GatherEnvironmentInfo ==
  /\ AtStep("gather")
  /\ \E t \in {cont[Tools], "absent"} :
       \/ /\ pc' = "servers" /\ UNCHANGED fault
          /\ cont' = [cont EXCEPT ![Tools] = IF opts.desktop /\ t = "absent" THEN "running" ELSE t]
       \/ /\ Abort
          /\ \E u \in IF opts.desktop /\ t = "absent" THEN {t, "created", "running"} ELSE {t} :
               cont' = [cont EXCEPT ![Tools] = u]
  /\ UNCHANGED <<net, netMaker, vol, regAttached, next, labelled>>

Start(S) == cont' = [n \in Nodes |-> IF n \in S THEN "running" ELSE cont[n]]

\* One phase of ClusterStart (module ClusterStart has the detail): all of its nodes are
\* started, or some are and the phase fails.
StartPhase(p, S, q) ==
  /\ AtStep(p)
  /\ \/ Start(S) /\ pc' = q /\ UNCHANGED fault
     \/ \E T \in SUBSET S : Start(T) /\ S # {} /\ Abort
  /\ UNCHANGED <<net, netMaker, vol, regAttached, next, labelled>>

AuxNodes == (IF opts.lb THEN {LB} ELSE {}) \cup (IF opts.createReg THEN {NewReg} ELSE {})

StartServers == StartPhase("servers", Servers, "agents")
StartAgents == StartPhase("agents", SetupNodes \ Servers, "aux")
StartHelpers == StartPhase("aux", AuxNodes, "post")

PostStart ==
  /\ AtStep("post")
  /\ \/ pc' = "done" /\ UNCHANGED fault
     \/ Abort
  /\ UNCHANGED <<docker, next, labelled>>
-----------------------------------------------------------------------------
(* The rollback: ClusterDelete with SkipRegistryCheck *)

\* The nodes of the Cluster struct; the registry is one of them once it is created.
StructNodes == SetupNodes \cup (IF opts.lb THEN {LB} ELSE {})
                          \cup (IF Own(NewReg) THEN {NewReg} ELSE {})

\* The external-network label a node of the struct carries after ClusterGet merged the
\* existing containers into it: a container's label overrides the struct's.
HasNetworkLabel(n) == n \in labelled \/ (n # Tools /\ cont[n] = "peer")

\* Mutated form of NetworkLabel: a network that exists keeps the label of the struct.
NetworkLabelOfStruct(n) == cont[n] = "peer" /\ netMaker # "peer"

NetworkLabel(n) == IF cont[n] = "peer" THEN netMaker # "peer" ELSE netMaker # "self"

\* populateClusterFieldsFromLabels: the first node of the struct that has the label decides.
StructOrder == <<LB>> \o Setup
ExternalFromLabels ==
  LET carriers == {i \in DOMAIN StructOrder : HasNetworkLabel(StructOrder[i])}
  IN  carriers # {} /\ NetworkLabel(StructOrder[Min(carriers)])

RollbackStep(p) == pc = p /\ UNCHANGED <<opts, next, labelled, tools, fault>>

\* Mutated form of RollbackGet: only the nodes of the configuration are deleted.
RollbackGetStruct ==
  /\ RollbackStep("failed")
  /\ alone' = (tools \notin {"get", "create", "start"} /\ \A n \in Nodes : cont[n] # "peer")
  /\ IF opts.rollback
       THEN doomed' = StructNodes /\ external' = ExternalFromLabels /\ pc' = "deleteNodes"
       ELSE pc' = "abandoned" /\ UNCHANGED <<doomed, external>>
  /\ UNCHANGED <<docker, rollbackFault>>

\* clusterCreate.go leaves everything in place with --no-rollback.  ClusterGet fails
\* when the runtime does, or when no container carries the cluster's label.
RollbackGet ==
  /\ RollbackStep("failed")
  /\ alone' = (tools \notin {"get", "create", "start"} /\ \A n \in Nodes : cont[n] # "peer")
  /\ \/ ~opts.rollback /\ pc' = "abandoned" /\ UNCHANGED <<doomed, external>>
     \/ opts.rollback /\ pc' = "rollbackFailed" /\ UNCHANGED <<doomed, external>>
     \/ /\ opts.rollback /\ \E n \in Nodes : cont[n] # "absent"
        /\ doomed' = StructNodes \cup {n \in Nodes : cont[n] # "absent"}
        /\ external' = ExternalFromLabels
        /\ pc' = "deleteNodes"
  /\ UNCHANGED <<docker, rollbackFault>>

\* NodeDelete removes whatever container has the node's name; it logs an error and
\* returns nil, so ClusterDelete counts no failure.
NodeDelete(n) ==
  \/ cont' = [cont EXCEPT ![n] = "absent"] /\ UNCHANGED rollbackFault
  \/ cont[n] # "absent" /\ rollbackFault' = TRUE /\ UNCHANGED cont

RollbackDeleteNode(n) ==
  /\ RollbackStep("deleteNodes")
  /\ n \in doomed /\ doomed' = doomed \ {n}
  /\ NodeDelete(n)
  /\ UNCHANGED <<net, netMaker, vol, regAttached, pc, external, alone>>

\* The runtime refuses to remove a network with active endpoints.  If only registries
\* are connected they are disconnected one by one and the removal is tried again.
RunningNonRegistries == {n \in Nodes \ {NewReg} : cont[n] = "running"}
ActiveEndpoints == regAttached \/ \E n \in Nodes : cont[n] = "running"
DeleteNetwork == ~ActiveEndpoints /\ net' = FALSE

RollbackDeleteNetwork ==
  /\ RollbackStep("deleteNodes") /\ doomed = {}
  /\ pc' = "deleteVolume"
  /\ \/ external /\ UNCHANGED <<net, regAttached, rollbackFault>>
     \/ ~external /\ rollbackFault' = TRUE /\ UNCHANGED <<net, regAttached>>
     \/ ~external /\ RunningNonRegistries # {} /\ UNCHANGED <<net, regAttached, rollbackFault>>
     \/ ~external /\ DeleteNetwork /\ UNCHANGED <<regAttached, rollbackFault>>
     \/ /\ ~external /\ ActiveEndpoints /\ RunningNonRegistries = {}
        /\ regAttached' = FALSE
        /\ \/ net' = FALSE /\ UNCHANGED rollbackFault
           \/ UNCHANGED net /\ rollbackFault' = TRUE
  /\ UNCHANGED <<cont, netMaker, vol, doomed, external, alone>>

\* A volume that a container mounts cannot be removed.  Whatever failed, ClusterDelete
\* returns nil and the command says "all changes have been rolled back!".
Mounted == vol /\ \E n \in Nodes \ {NewReg} : cont[n] # "absent"
DeleteVolume == ~Mounted /\ vol' = FALSE

RollbackDeleteVolume ==
  /\ RollbackStep("deleteVolume")
  /\ pc' = "rolledBack"
  /\ \/ DeleteVolume /\ UNCHANGED rollbackFault
     \/ Mounted /\ UNCHANGED <<vol, rollbackFault>>
     \/ vol /\ rollbackFault' = TRUE /\ UNCHANGED vol
  /\ UNCHANGED <<cont, net, netMaker, regAttached, doomed, external, alone>>
-----------------------------------------------------------------------------
\* The peer creates one of its containers (its own network step is behind it).
PeerCreates(n) ==
  /\ pc \notin Terminal
  /\ n \in PeerNames /\ net /\ cont[n] = "absent"
  /\ cont' = [cont EXCEPT ![n] = "peer"]
  /\ UNCHANGED <<net, netMaker, vol, regAttached, opts, pc, next, labelled, tools,
                 doomed, external, history>>

Command ==
  \/ ClusterPrepNetwork \/ ClusterPrepImageVolume
  \/ FindUsedRegistry \/ RegistryCreate \/ ConnectRegistries
  \/ SpawnToolsGoroutine \/ NodeSetup \/ CreateLoadbalancer \/ WaitForTools
  \/ GatherEnvironmentInfo \/ StartServers \/ StartAgents \/ StartHelpers \/ PostStart
  \/ RollbackGet \/ (\E n \in Nodes : RollbackDeleteNode(n))
  \/ RollbackDeleteNetwork \/ RollbackDeleteVolume

Goroutine == ToolsGetNode \/ ToolsCreate \/ ToolsStart

Next == Command \/ Goroutine \/ (\E n \in PeerNames : PeerCreates(n))

Spec == Init /\ [][Next]_vars

\* The scheduler runs both threads and every runtime call returns.  The waits for a log
\* message, of a group of nodes or of CoreDNS, are only sure to end with a timeout (module
\* ClusterStart).  Nothing obliges the peer.
MayWaitForEver == ~opts.timed /\ pc \in {"servers", "agents", "aux", "post"}
Fairness == WF_vars(~MayWaitForEver /\ Command) /\ WF_vars(Goroutine)
FairSpec == Spec /\ Fairness
-----------------------------------------------------------------------------
(* Properties *)

TypeRuntime ==
  /\ cont \in [Nodes -> {"absent", "created", "running", "peer"}]
  /\ net \in BOOLEAN /\ vol \in BOOLEAN /\ regAttached \in BOOLEAN
  /\ netMaker \in {"none", "self", "user", "peer"}
TypeControl ==
  /\ opts \in Options
  /\ pc \in CreatePCs \cup RollbackPCs \cup Terminal
  /\ next \in 1 .. Len(Setup) + 1
  /\ tools \in {"off", "get", "create", "start", "ok", "err"}
TypeSets == labelled \subseteq SetupNodes \cup {LB} /\ doomed \subseteq Nodes
TypeFlags ==
  /\ external \in BOOLEAN
  /\ fault \in BOOLEAN /\ rollbackFault \in BOOLEAN /\ alone \in BOOLEAN

\* The runtime's objects, the command's control state and its bookkeeping keep their types.
TypeOK == TypeRuntime /\ TypeControl /\ TypeSets /\ TypeFlags

\* "Cluster created successfully": every node of the configuration is a running container
\* of this command's own making, in an existing network that the used registry is
\* connected to, with the image volume in place and no tools node left half-started.
SuccessMeansComplete ==
  pc = "done" =>
    /\ \A n \in SetupNodes \cup AuxNodes : cont[n] = "running"
    /\ net /\ vol = opts.imageVolume /\ regAttached = opts.useReg
    /\ cont[Tools] # "created" /\ (opts.desktop => cont[Tools] # "absent")

\* Containers appear in the order k3s needs: a node only after all nodes before it (the
\* initializing server is the first), the load balancer after all of them; and none is
\* started before all exist.
CreatedInOrder ==
  pc \in CreatePCs =>
    /\ \A i, j \in DOMAIN Setup : i < j /\ Own(Setup[j]) => Own(Setup[i])
    /\ Own(LB) => \A n \in SetupNodes : Own(n)
    /\ (\E n \in SetupNodes \cup {LB, NewReg} : cont[n] = "running") =>
          \A n \in SetupNodes \cup AuxNodes : Own(n)

\* A rollback whose own runtime calls all succeed, that starts after the tools-node
\* goroutine has ended and that meets no peer undoes everything the command created.
RestoredState ==
  /\ \A n \in Nodes : ~Own(n)
  /\ ~vol /\ (netMaker = "self" => ~net)
CleanRollbackRestores ==
  pc = "rolledBack" /\ ~rollbackFault /\ alone /\ (\A n \in Nodes : cont[n] # "peer")
    => RestoredState

\* A creation that has got to its first node does not take a network of the user's away;
\* one that fails before does so only when a registry it created, or a tools node of the
\* peer's, is all that the rollback finds.
UserNetworkLostOnlyEarly ==
  [][netMaker = "user" /\ net' # net =>
       labelled = {} /\ (opts.createReg \/ Tools \in PeerNames)]_vars

\* Whatever fails, the command ends, unless it waits for the log of a node without a timeout:
\* no thread waits for the other for ever.
Terminates == <>[](pc \in Terminal \/ MayWaitForEver)

\* The message of clusterCreate.go for a rollback that returned no error: "all changes
\* have been rolled back!" - asked here only of rollbacks in which no runtime call failed.
RolledBackMeansRestored == pc = "rolledBack" /\ ~rollbackFault => RestoredState
=============================================================================
