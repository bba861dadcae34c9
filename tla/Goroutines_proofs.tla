---------------------------- MODULE Goroutines_proofs ----------------------------
(***************************************************************************)
(* The two commands that run a goroutine per node.  For any number of       *)
(* servers, agents, helpers and log streams: groups of nodes are started    *)
(* one after the other, whatever fails, is cancelled or crashes.  Then, for *)
(* any number of nodes and any stream, the import of images.                *)
(***************************************************************************)
EXTENDS ClusterStart, ImageStream, TLAPS

\* The phases before and after that of a group.
Before == [init |-> {}, servers |-> {"init"}, agents |-> {"init", "servers"},
           aux |-> {"init", "servers", "agents"}]
After == [init |-> {"servers", "agents", "aux", "post", "ok"},
          servers |-> {"agents", "aux", "post", "ok"},
          agents |-> {"aux", "post", "ok"}, aux |-> {"post", "ok"}]

\* The control states of a call that is not over, and those of one that has begun.
Live == {"start", "starting", "wait", "failing"}
Begun == Live \cup {"ok", "err"}
Runs == {"booting", "ready"}

\* The types, without the Boolean variables.
Typed ==
  /\ ctr \in [Nodes -> {"stopped", "asked", "failed", "booting", "ready"}] /\ todo \subseteq Nodes
  /\ phase \in Groups \cup {"post", "ok", "err"}
  /\ call \in [Nodes -> {"none"} \cup Begun]
  /\ attempts \in [Nodes -> 0 .. BackOffLimit - 1]
  /\ aliased \subseteq Nodes

\* Groups that are over are up, groups that are to come are untouched.
PastUp == \A p \in Groups : phase \in After[p] => \A n \in Todo(p) : call[n] = "ok"
LaterIdle == \A p \in Groups : phase \in Before[p] => \A n \in Members[p] : call[n] = "none"

\* A server's turn comes only after its predecessors.
InOrder ==
  \A i, j \in DOMAIN Servers :
    j < i /\ Servers[j] \in todo /\ call[Servers[i]] # "none" => call[Servers[j]] = "ok"

\* Nodes that ran before are left alone.
Others == \A n \in Nodes \ todo : ctr[n] = "ready" /\ call[n] = "none"

\* What the state of a call says of its container.
Started ==
  \A n \in todo :
    /\ ctr[n] # "stopped" => call[n] \in Begun \ {"start"}
    /\ call[n] = "starting" => ctr[n] # "stopped"
    /\ call[n] \in {"wait", "ok"} => ctr[n] \in Runs
    /\ call[n] = "ok" /\ Waits(n) => ctr[n] = "ready"

\* No call is left after the end, and after success the records are written.
Ends ==
  /\ phase \in {"ok", "err"} => \A n \in Nodes : call[n] \notin Live
  /\ phase = "ok" => AliasTargets \subseteq aliased

Control == PastUp /\ LaterIdle /\ InOrder
IInv == Typed /\ Control /\ Others /\ Started /\ Ends /\ StartedWhenJoinable

\* The groups, one by one.
LEMMA Grouped ==
  /\ Members["init"] = InitNode /\ Members["servers"] = ServerSet \ InitNode
  /\ Members["agents"] = Agents /\ Members["aux"] = LB \cup Registries
  /\ \A p \in Groups : Members[p] \subseteq Nodes
  /\ \A n \in Nodes : \E p \in Groups : n \in Members[p]
  BY DEF Members, Groups, Nodes, ServerSet

\* No node is in two groups.
LEMMA Apart == \A p, q \in Groups, n \in Nodes : n \in Members[p] /\ n \in Members[q] => p = q
  BY ClusterStartAssumption

\* A server that does not initialize the cluster has a place in the order.
LEMMA Placed == \A n \in Members["servers"] : \E i \in DOMAIN Servers : Servers[i] = n
  BY Grouped DEF ServerSet

\* The servers' places lead to servers.
LEMMA Places == \A i \in DOMAIN Servers : Servers[i] \in Members["servers"] /\ Servers[i] \in Nodes
  <1>1. \A i \in DOMAIN Servers : Servers[i] \in ServerSet \ InitNode BY ClusterStartAssumption
  <1> QED BY <1>1, Grouped DEF Nodes

\* A phase is not before or after itself.
LEMMA Phased == \A p \in Groups : p \notin Before[p] /\ p \notin After[p]
  BY DEF Groups, Before, After

\* The initial states satisfy the invariant.
LEMMA InitInv == Init => IInv
  <1> SUFFICES ASSUME Init PROVE IInv OBVIOUS
  <1>1. Typed BY ClusterStartAssumption DEF Init, Typed, Groups, Begun, Live
  <1>2. Control BY Places, Grouped DEF Init, Control, PastUp, LaterIdle, InOrder, After, Groups
  <1>3. Others /\ Started BY DEF Init, Others, Started, Runs
  <1>4. Ends BY DEF Init, Ends
  <1>5. StartedWhenJoinable BY DEF Init, StartedWhenJoinable, Nodes
  <1> QED BY <1>1, <1>2, <1>3, <1>4, <1>5 DEF IInv

\* A step of a call, whose turn it is, keeps the order of the groups and servers.
LEMMA CallStep ==
  ASSUME IInv, NEW n \in Nodes, NEW r, Turn(n), call[n] \in {"none"} \cup Live,
         call' = [call EXCEPT ![n] = r], UNCHANGED <<todo, phase>>
  PROVE  Control' /\ n \in todo /\ phase \in Groups /\ n \in Members[phase]
  <1> USE DEF IInv, Typed, Control, Live
  <1>1. n \in todo /\ phase \in Groups /\ n \in Members[phase] BY DEF Turn, Todo
  <1>2. \A m \in Nodes : m # n => call'[m] = call[m] OBVIOUS
  <1>3. PastUp'
    <2> SUFFICES ASSUME NEW p \in Groups, phase \in After[p], NEW m \in Todo(p) PROVE call'[m] = "ok"
      BY DEF PastUp, Todo
    <2>1. m # n /\ m \in Nodes BY <1>1, Apart, Phased, Grouped DEF Todo
    <2> QED BY <2>1, <1>2 DEF PastUp
  <1>4. LaterIdle'
    <2> SUFFICES ASSUME NEW p \in Groups, phase \in Before[p], NEW m \in Members[p]
                 PROVE call'[m] = "none"
      BY DEF LaterIdle
    <2>1. m # n /\ m \in Nodes BY <1>1, Apart, Phased, Grouped
    <2> QED BY <2>1, <1>2 DEF LaterIdle
  <1>5. InOrder'
    <2> SUFFICES ASSUME NEW i \in DOMAIN Servers, NEW j \in DOMAIN Servers,
                        j < i, Servers[j] \in todo, call'[Servers[i]] # "none"
                 PROVE  call'[Servers[j]] = "ok"
      BY DEF InOrder
    <2>1. Servers[i] # Servers[j]
      <3>1. i # j BY ClusterStartAssumption
      <3> QED BY <3>1, ClusterStartAssumption
    <2>2. CASE Servers[i] = n
      <3>1. phase = "servers" BY <2>2, <1>1, Places, Apart DEF Groups
      <3>2. call[Servers[j]] = "ok" BY <3>1, <2>2 DEF Turn
      <3> QED BY <3>2, <2>1, <2>2, <1>2, Places
    <2>3. CASE Servers[i] # n
      <3>1. call[Servers[j]] = "ok" BY <2>3, <1>2, Places DEF InOrder
      <3> QED BY <3>1, <1>2, Places
    <2> QED BY <2>2, <2>3
  <1> QED BY <1>1, <1>3, <1>4, <1>5

\* Who may be started can come up: what it joins was started in a group before or
\* earlier in its own.
LEMMA Joinable ==
  ASSUME IInv, NEW n \in Nodes, Turn(n), call[n] # "ok"
  PROVE  CanComeUp(n) /\ (n \in ServerSet => \A m \in ServerSet : m # n => ctr[m] \notin {"asked", "booting"})
  <1> USE DEF IInv, Typed, Control
  <1>1. n \in todo /\ phase \in Groups /\ n \in Members[phase] BY DEF Turn, Todo
  <1>2. \A p \in Groups : phase \in After[p] =>
          \A m \in Members[p] : Waits(m) => ctr[m] = "ready"
    BY Grouped DEF PastUp, Todo, Started, Others
  <1>3. ServerSet \subseteq Nodes /\ (\A m \in ServerSet \cup Agents : Waits(m)) /\ LB \subseteq Nodes
    <2>1. Registries \subseteq Members["aux"] BY Grouped
    <2>2. \A m \in ServerSet \cup Agents : m \notin Members["aux"]
      BY Apart, Grouped DEF Groups, Nodes
    <2> QED BY <2>1, <2>2 DEF Waits, Nodes
  <1>4. CASE phase = "init"
    <2>1. n \in InitNode /\ \A m \in InitNode : m = n BY <1>1, <1>4, Grouped, ClusterStartAssumption
    <2>2. n \notin LB BY <2>1, <1>3, Apart, Grouped DEF Groups
    <2>3. JoinURL = InitNode /\ n \notin (ServerSet \cup Agents) \ JoinURL BY <2>1 DEF JoinURL
    <2>4. \A m \in ServerSet : m # n => call[m] = "none"
      BY <2>1, <1>4, Grouped DEF LaterIdle, Before, Groups
    <2>5. \A m \in ServerSet : m # n => ctr[m] \notin {"asked", "booting"}
      BY <2>4, <1>3 DEF Started, Others, Begun, Live
    <2> QED BY <2>2, <2>3, <2>5 DEF CanComeUp
  <1>5. CASE phase = "servers"
    <2>1. n \in ServerSet \ InitNode BY <1>1, <1>5, Grouped
    <2>2. PICK i \in DOMAIN Servers : Servers[i] = n BY <1>1, <1>5, Placed
    <2>3. n \notin LB BY <1>1, <1>5, <1>3, Apart, Grouped DEF Groups
    <2>4. \A m \in InitNode : ctr[m] = "ready"
      BY <1>2, <1>3, <1>5, Grouped DEF After, Groups, ServerSet
    <2>5. \A j \in DOMAIN Servers : j < i => ctr[Servers[j]] = "ready"
      <3> TAKE j \in DOMAIN Servers
      <3> HAVE j < i
      <3>1. Servers[j] \in ServerSet /\ Servers[j] \in Nodes BY Places, Grouped
      <3>2. Servers[j] \in todo => call[Servers[j]] = "ok" BY <2>2, <1>5 DEF Turn
      <3> QED BY <3>1, <3>2, <1>3 DEF Started, Others
    <2>6. n \notin JoinURL => \A m \in JoinURL : ctr[m] = "ready"
      <3>1. CASE InitNode # {} BY <3>1, <2>4 DEF JoinURL
      <3>2. CASE InitNode = {}
        <4>1. JoinURL = {Servers[1]} BY <3>2 DEF JoinURL
        <4>2. i \in Nat \ {0} /\ 1 \in DOMAIN Servers BY <2>2, ClusterStartAssumption
        <4> QED BY <4>1, <4>2, <2>2, <2>5
      <3> QED BY <3>1, <3>2
    <2>7. \A m \in ServerSet : m # n => ctr[m] \notin {"asked", "booting"}
      <3> TAKE m \in ServerSet
      <3> HAVE m # n
      <3>1. CASE m \in InitNode BY <3>1, <2>4
      <3>2. CASE m \in todo /\ m \notin InitNode
        <4>1. PICK j \in DOMAIN Servers : Servers[j] = m BY <3>2, Placed, Grouped
        <4>2. i \in Nat /\ j \in Nat /\ i # j BY <2>2, <4>1, <3>2, ClusterStartAssumption
        <4>3. CASE j < i BY <4>3, <4>1, <2>5
        <4>4. CASE i < j
          <5>1. call[m] # "none" => call[n] = "ok" BY <4>4, <4>1, <2>2, <1>1 DEF InOrder
          <5>2. CASE call[m] = "none" BY <5>2, <3>2, <1>3 DEF Started, Begun, Live
          <5> QED BY <5>1, <5>2
        <4> QED BY <4>2, <4>3, <4>4
      <3>3. CASE m \notin todo BY <3>3, <1>3 DEF Others
      <3> QED BY <3>1, <3>2, <3>3
    <2> QED BY <2>3, <2>6, <2>7 DEF CanComeUp
  <1>6. CASE phase \in {"agents", "aux"}
    <2>1. \A m \in ServerSet : ctr[m] = "ready"
      BY <1>2, <1>3, <1>6, Grouped DEF After, Groups
    <2>2. n \notin ServerSet
      <3>1. n \notin Members["init"] /\ n \notin Members["servers"] BY <1>1, <1>6, Apart DEF Groups
      <3> QED BY <3>1, Grouped
    <2>3. \A m \in JoinURL : m \in ServerSet
      <3>1. CASE InitNode # {} BY <3>1 DEF JoinURL, ServerSet
      <3>2. CASE InitNode = {}
        <4>1. \E k \in DOMAIN Servers : TRUE BY <3>2, ClusterStartAssumption DEF ServerSet
        <4>2. 1 \in DOMAIN Servers BY <4>1, ClusterStartAssumption
        <4> QED BY <3>2, <4>2 DEF JoinURL, ServerSet
      <3> QED BY <3>1, <3>2
    <2> QED BY <2>1, <2>2, <2>3 DEF CanComeUp
  <1> QED BY <1>1, <1>4, <1>5, <1>6 DEF Groups

\* What can come up still can when other containers have got further.
LEMMA StillJoinable ==
  ASSUME Typed, NEW n \in Nodes, CanComeUp(n),
         \A m \in Nodes : (ctr[m] = "ready" => ctr'[m] = "ready") /\ (ctr[m] \in Runs => ctr'[m] \in Runs)
  PROVE  CanComeUp(n)'
  <1>1. ServerSet \subseteq Nodes BY DEF Nodes
  <1>2. n \in (ServerSet \cup Agents) \ JoinURL => JoinURL \subseteq Nodes
    <2>1. CASE InitNode # {} BY <2>1, <1>1 DEF JoinURL, ServerSet
    <2>2. CASE InitNode = {}
      <3>1. \E k \in DOMAIN Servers : TRUE BY <2>2, ClusterStartAssumption DEF ServerSet
      <3>2. 1 \in DOMAIN Servers BY <3>1, ClusterStartAssumption
      <3> QED BY <2>2, <3>2, <1>1 DEF JoinURL, ServerSet
    <2> QED BY <2>1, <2>2
  <1> QED BY <1>1, <1>2 DEF CanComeUp, Runs

\* NodeStart takes a step on the client's side, to a state that fits the container's.
LEMMA ClientStep ==
  ASSUME IInv, NEW n \in Nodes, NEW r \in Begun, Turn(n), call[n] \in {"none"} \cup Live,
         call' = [call EXCEPT ![n] = r], UNCHANGED ctr, Frame,
         attempts' \in [Nodes -> 0 .. BackOffLimit - 1],
         r = "start" => ctr[n] = "stopped", r # "starting",
         r \in {"wait", "ok"} => ctr[n] \in Runs, r = "ok" /\ Waits(n) => ctr[n] = "ready"
  PROVE  IInv'
  <1> USE DEF IInv, Frame
  <1>1. Control' /\ n \in todo /\ phase \in Groups BY CallStep
  <1>2. Typed' BY DEF Typed
  <1>3. \A m \in Nodes : m # n => call'[m] = call[m] BY DEF Typed
  <1>4. Others' BY <1>1, <1>3 DEF Others
  <1>5. call'[n] = r BY DEF Typed
  <1>6. Started'
    <2> SUFFICES ASSUME NEW m \in todo
                 PROVE  /\ ctr[m] # "stopped" => call'[m] \in Begun \ {"start"}
                        /\ call'[m] = "starting" => ctr[m] # "stopped"
                        /\ call'[m] \in {"wait", "ok"} => ctr[m] \in Runs
                        /\ call'[m] = "ok" /\ Waits(m) => ctr[m] = "ready"
      BY DEF Started, Waits
    <2>1. CASE m = n BY <2>1, <1>5
    <2>2. CASE m # n BY <2>2, <1>3 DEF Started, Typed
    <2> QED BY <2>1, <2>2
  <1>7. Ends' BY <1>1 DEF Ends, Groups
  <1>8. StartedWhenJoinable' BY DEF StartedWhenJoinable, CanComeUp
  <1> QED BY <1>1, <1>2, <1>4, <1>6, <1>7, <1>8

\* NodeStart returns an error to the loop or to its goroutine.
LEMMA FailsStep ==
  ASSUME IInv, NEW n \in Nodes, Turn(n), call[n] \in {"none"} \cup Live, Fails(n),
         UNCHANGED ctr, Frame, attempts' \in [Nodes -> 0 .. BackOffLimit - 1]
  PROVE  IInv'
  <1>1. PICK r \in {"failing", "err"} : call' = [call EXCEPT ![n] = r] BY DEF Fails, Returns
  <1> QED BY <1>1, ClientStep DEF Begun, Live

\* NodeStart before the container is started.
LEMMA PreStartStep == ASSUME IInv, NEW n \in Nodes, PreStart(n) PROVE IInv'
  <1>1. attempts' \in [Nodes -> 0 .. BackOffLimit - 1] BY DEF PreStart, IInv, Typed
  <1>2. Turn(n) /\ call[n] = "none" /\ ctr' = ctr /\ Frame BY DEF PreStart, At
  <1>3. CASE Fails(n) BY <1>1, <1>2, <1>3, FailsStep
  <1>4. CASE Returns(n, "start")
    <2>1. n \in todo BY <1>2 DEF Turn, Todo
    <2>2. ctr[n] = "stopped" BY <1>2, <2>1 DEF IInv, Started, Begun, Live
    <2> QED BY <1>1, <1>2, <1>4, <2>2, ClientStep DEF Begun, Live, Returns
  <1> QED BY <1>3, <1>4 DEF PreStart

\* The runtime is asked to start the container.
LEMMA StartNodeStep == ASSUME IInv, NEW n \in Nodes, StartNode(n) PROVE IInv'
  <1>1. attempts' \in [Nodes -> 0 .. BackOffLimit - 1] /\ Turn(n) /\ call[n] = "start" /\ Frame
    BY DEF StartNode, At, IInv, Typed
  <1>2. CASE UNCHANGED ctr /\ Fails(n) BY <1>1, <1>2, FailsStep DEF Live
  <1>3. CASE ctr' = [ctr EXCEPT ![n] = "asked"] /\ Returns(n, "starting")
    <2> USE DEF IInv, Frame, Returns
    <2>1. Control' /\ n \in todo /\ phase \in Groups BY <1>1, <1>3, CallStep DEF Live
    <2>2. Typed' BY <1>1, <1>3 DEF Typed, Begun, Live
    <2>3. \A m \in Nodes : m # n => call'[m] = call[m] /\ ctr'[m] = ctr[m] BY <1>3 DEF Typed
    <2>4. Others' BY <1>1, <2>1, <2>3 DEF Others, Typed
    <2>5. call'[n] = "starting" /\ ctr'[n] = "asked" /\ ctr[n] = "stopped"
      BY <1>1, <1>3, <2>1 DEF Typed, Started
    <2>6. Started'
      <3> SUFFICES ASSUME NEW m \in todo
                   PROVE  /\ ctr'[m] # "stopped" => call'[m] \in Begun \ {"start"}
                          /\ call'[m] = "starting" => ctr'[m] # "stopped"
                          /\ call'[m] \in {"wait", "ok"} => ctr'[m] \in Runs
                          /\ call'[m] = "ok" /\ Waits(m) => ctr'[m] = "ready"
        BY <1>1 DEF Started, Waits
      <3>1. CASE m = n BY <3>1, <2>5 DEF Begun, Live
      <3>2. CASE m # n BY <3>2, <2>3 DEF Started, Typed
      <3> QED BY <3>1, <3>2
    <2>7. Ends' BY <1>1, <2>1 DEF Ends, Groups
    <2>8. StartedWhenJoinable'
      <3>1. \A m \in Nodes : CanComeUp(m) => CanComeUp(m)' BY <2>3, <2>5, StillJoinable DEF Runs
      <3>2. CanComeUp(n)' /\ (n \in ServerSet => \A m \in ServerSet : m # n => ctr'[m] \notin {"asked", "booting"})
        BY <1>1, <2>3, <3>1, Joinable DEF Nodes
      <3>3. \A m \in todo : ctr'[m] # "stopped" => CanComeUp(m)'
        BY <2>3, <3>1, <3>2 DEF StartedWhenJoinable, Typed
      <3>4. \A m, k \in ServerSet : {ctr'[m], ctr'[k]} \subseteq {"asked", "booting"} => m = k
        BY <2>3, <3>2 DEF StartedWhenJoinable, Nodes
      <3> QED BY <1>1, <3>3, <3>4 DEF StartedWhenJoinable
    <2> QED BY <2>1, <2>2, <2>4, <2>6, <2>7, <2>8
  <1> QED BY <1>2, <1>3 DEF StartNode

\* runtime.StartNode returns.
LEMMA StartReturnsStep == ASSUME IInv, NEW n \in Nodes, StartReturns(n) PROVE IInv'
  <1>1. attempts' \in [Nodes -> 0 .. BackOffLimit - 1] /\ Turn(n) /\ call[n] = "starting" /\ Frame /\ ctr' = ctr
    BY DEF StartReturns, At, IInv, Typed
  <1>2. CASE Fails(n) BY <1>1, <1>2, FailsStep DEF Live
  <1>3. CASE ctr[n] \in Runs /\ Returns(n, IF Waits(n) THEN "wait" ELSE "ok")
    <2>1. PICK r \in {"wait", "ok"} : call' = [call EXCEPT ![n] = r] /\ (r = "ok" => ~Waits(n))
      BY <1>3 DEF Returns
    <2> QED BY <1>1, <1>3, <2>1, ClientStep DEF Begun, Live
  <1> QED BY <1>2, <1>3 DEF StartReturns, Runs

\* The errgroup takes the error.
LEMMA ReportedStep == ASSUME IInv, NEW n \in Nodes, Reported(n) PROVE IInv'
  <1>1. attempts' \in [Nodes -> 0 .. BackOffLimit - 1] BY DEF Reported, IInv, Typed
  <1> QED BY <1>1, ClientStep DEF Reported, At, Returns, Begun, Live

\* A wait for the ready message ends: well only when the message is there.
LEMMA WaitOverStep ==
  ASSUME IInv, NEW n \in Nodes, WaitOver(n), Fails(n) \/ (Returns(n, "ok") /\ ctr[n] = "ready")
  PROVE  IInv'
  <1>1. attempts' \in [Nodes -> 0 .. BackOffLimit - 1]
    BY ClusterStartAssumption DEF WaitOver, IInv, Typed
  <1>2. Turn(n) /\ call[n] = "wait" /\ ctr' = ctr /\ Frame BY DEF WaitOver, At
  <1>3. CASE Fails(n) BY <1>1, <1>2, <1>3, FailsStep DEF Live
  <1>4. CASE Returns(n, "ok") /\ ctr[n] = "ready"
    BY <1>1, <1>2, <1>4, ClientStep DEF Begun, Live, Returns, Runs
  <1> QED BY <1>3, <1>4

\* A crash that is followed by another attempt.
LEMMA RetryStep ==
  ASSUME IInv, NEW n \in Nodes, attempts[n] + 1 < BackOffLimit,
         attempts' = [attempts EXCEPT ![n] = @ + 1], UNCHANGED <<ctr, call>>, Frame
  PROVE  IInv'
  <1> USE DEF IInv, Frame
  <1>1. Typed'
    <2>1. attempts'\in [Nodes -> 0 .. BackOffLimit - 1] BY ClusterStartAssumption DEF Typed
    <2> QED BY <2>1 DEF Typed
  <1>2. Control' BY DEF Control, PastUp, LaterIdle, InOrder, Todo
  <1>3. Others' /\ Started' /\ Ends' BY DEF Others, Started, Ends, AliasTargets, Todo
  <1>4. StartedWhenJoinable' BY DEF StartedWhenJoinable, CanComeUp
  <1> QED BY <1>1, <1>2, <1>3, <1>4

\* The runtime starts a container or fails to, or a container gets ready.
LEMMA ContainerStep ==
  ASSUME IInv, NEW n \in Nodes, NEW r \in {"booting", "failed", "ready"}, Frame, UNCHANGED <<call, attempts>>,
         ctr' = [ctr EXCEPT ![n] = r],
         (ctr[n] = "asked" /\ r # "ready") \/ (ctr[n] = "booting" /\ r = "ready")
  PROVE  IInv'
  <1> USE DEF IInv, Frame
  <1>1. Typed' BY DEF Typed
  <1>2. Control' BY DEF Control, PastUp, LaterIdle, InOrder, Todo
  <1>3. \A m \in Nodes : ctr'[m] = IF m = n THEN r ELSE ctr[m] BY DEF Typed
  <1>4. Others' /\ Ends' BY <1>3 DEF Others, Ends, AliasTargets, Todo
  <1>5. Started' BY <1>3 DEF Started, Typed, Runs, Waits
  <1>6. StartedWhenJoinable'
    <2>1. \A m \in Nodes : CanComeUp(m) => CanComeUp(m)' BY <1>3, StillJoinable DEF Runs
    <2>2. n \in todo BY DEF Others
    <2>3. \A m \in todo : ctr'[m] # "stopped" => CanComeUp(m)'
      BY <1>3, <2>1, <2>2 DEF StartedWhenJoinable, Typed
    <2>4. \A m, k \in ServerSet : {ctr'[m], ctr'[k]} \subseteq {"asked", "booting"} => m = k
      BY <1>3 DEF StartedWhenJoinable, Nodes
    <2> QED BY <2>3, <2>4 DEF StartedWhenJoinable
  <1> QED BY <1>1, <1>2, <1>4, <1>5, <1>6

\* A group is up, and the next one's turn comes.
LEMMA GroupUpStep == ASSUME IInv, GroupUp PROVE IInv'
  <1> USE DEF IInv, GroupUp, Keep
  <1>1. Typed' BY DEF Typed, Groups, Follows
  <1>2. PastUp' /\ LaterIdle'
    BY DEF Control, PastUp, LaterIdle, Todo, Groups, Follows, After, Before
  <1>3. InOrder' BY DEF Control, InOrder
  <1>4. Others' /\ Started' BY DEF Others, Started
  <1>5. Ends' BY DEF Ends, Groups, Follows
  <1>6. StartedWhenJoinable' BY DEF StartedWhenJoinable, CanComeUp
  <1> QED BY <1>1, <1>2, <1>3, <1>4, <1>5, <1>6 DEF Control

\* When a group fails, none of its calls is left: the servers' failed one was the last.
LEMMA NoCallLeft ==
  ASSUME IInv, GroupFails PROVE \A n \in Nodes : call[n] \notin Live
  <1> USE DEF IInv, Typed, Control, Live
  <1> SUFFICES ASSUME NEW n \in Nodes, call[n] \in Live PROVE FALSE OBVIOUS
  <1>1. n \in todo BY DEF Others
  <1>2. PICK p \in Groups : n \in Members[p] BY Grouped
  <1>3. phase \in Groups BY DEF GroupFails
  <1>4. phase = p
    BY <1>1, <1>2, <1>3 DEF PastUp, LaterIdle, Todo, Groups, Before, After
  <1>5. PICK m \in Todo(phase) : call[m] = "err" BY DEF GroupFails
  <1>6. m \in Members[phase] /\ m \in todo /\ m # n BY <1>5 DEF Todo
  <1>7. CASE phase = "init" BY <1>7, <1>2, <1>4, <1>6, Grouped, ClusterStartAssumption
  <1>8. CASE phase = "servers"
    <2>1. PICK i \in DOMAIN Servers : Servers[i] = n BY <1>8, <1>2, <1>4, Placed
    <2>2. PICK j \in DOMAIN Servers : Servers[j] = m BY <1>8, <1>6, Placed
    <2>3. i \in Nat /\ j \in Nat /\ i # j BY <2>1, <2>2, <1>6, ClusterStartAssumption
    <2>4. CASE j < i BY <2>4, <2>1, <2>2, <1>5, <1>6 DEF InOrder
    <2>5. CASE i < j BY <2>5, <2>1, <2>2, <1>1, <1>5 DEF InOrder
    <2> QED BY <2>3, <2>4, <2>5
  <1>9. CASE phase \in {"agents", "aux"}
    <2>1. n \in Todo(phase) BY <1>1, <1>2, <1>4 DEF Todo
    <2>2. Finished(n) BY <2>1, <1>9 DEF GroupFails, Concurrent
    <2> QED BY <2>2 DEF Finished
  <1> QED BY <1>3, <1>7, <1>8, <1>9 DEF Groups

\* ClusterStart returns an error.
LEMMA GroupFailsStep == ASSUME IInv, GroupFails PROVE IInv'
  <1> USE DEF IInv
  <1>1. phase' = "err" /\ Keep /\ aliased' = aliased BY DEF GroupFails
  <1>2. Typed' BY <1>1 DEF Keep, Typed
  <1>3. Control' BY <1>1 DEF Keep, Control, PastUp, LaterIdle, InOrder, Groups, After, Before
  <1>4. Others' /\ Started' BY <1>1 DEF Keep, Others, Started
  <1>5. Ends' BY <1>1, NoCallLeft DEF Keep, Ends
  <1>6. StartedWhenJoinable' BY <1>1 DEF Keep, StartedWhenJoinable, CanComeUp
  <1> QED BY <1>2, <1>3, <1>4, <1>5, <1>6

\* The records are written, or not, when every group is up.
LEMMA PostStartStep == ASSUME IInv, PostStart PROVE IInv'
  <1> USE DEF IInv
  <1>1. /\ phase = "post" /\ phase' \in {"ok", "err"} /\ Keep /\ aliased' \subseteq AliasTargets
        /\ phase' = "ok" => aliased' = AliasTargets
    BY DEF PostStart
  <1>2. AliasTargets \subseteq Nodes BY Grouped DEF AliasTargets, Todo, Groups
  <1>3. Typed' BY <1>1, <1>2 DEF Keep, Typed
  <1>4. Control' BY <1>1 DEF Keep, Control, PastUp, LaterIdle, InOrder, Todo, Groups, After, Before
  <1>5. Others' /\ Started' BY <1>1 DEF Keep, Others, Started
  <1>6. \A n \in Nodes : call[n] \notin Live
    BY <1>1, Grouped DEF Control, PastUp, Others, Todo, After, Groups, Typed, Live
  <1>7. Ends' BY <1>1, <1>6 DEF Keep, Ends, AliasTargets, Todo
  <1>8. StartedWhenJoinable' BY <1>1 DEF Keep, StartedWhenJoinable, CanComeUp
  <1> QED BY <1>3, <1>4, <1>5, <1>7, <1>8

\* The deadline, and steps that leave everything as it is.
LEMMA StillStep ==
  ASSUME IInv, UNCHANGED <<ctr, todo, hostNet, phase, call, attempts, aliased>> PROVE IInv'
  <1> USE DEF IInv
  <1>1. Typed' /\ Others' /\ Started' BY DEF Typed, Others, Started
  <1>2. Control' BY DEF Control, PastUp, LaterIdle, InOrder, Todo
  <1>3. Ends' BY DEF Ends, AliasTargets, Todo
  <1>4. StartedWhenJoinable' BY DEF StartedWhenJoinable, CanComeUp
  <1> QED BY <1>1, <1>2, <1>3, <1>4

\* Every step keeps the invariant.
LEMMA NextInv == IInv /\ [Next]_vars => IInv'
  <1> SUFFICES ASSUME IInv, [Next]_vars PROVE IInv' OBVIOUS
  <1>1. ASSUME NEW n \in Nodes, NodeStart(n) PROVE IInv'
    <2>1. CASE PreStart(n) BY <2>1, PreStartStep
    <2>2. CASE StartNode(n) BY <2>2, StartNodeStep
    <2>3. CASE StartReturns(n) BY <2>3, StartReturnsStep
    <2>4. CASE WaitReady(n) BY <2>4, WaitOverStep DEF WaitReady
    <2>5. CASE WaitCancelled(n) BY <2>5, WaitOverStep DEF WaitCancelled
    <2>6. CASE Reported(n) BY <2>6, ReportedStep
    <2> QED BY <1>1, <2>1, <2>2, <2>3, <2>4, <2>5, <2>6 DEF NodeStart
  <1>2. ASSUME NEW n \in Nodes, WaitEnds(n) PROVE IInv'
    <2>1. CASE WaitFails(n) BY <2>1, WaitOverStep DEF WaitFails
    <2>2. CASE WaitOver(n) /\ Fails(n) BY <2>2, WaitOverStep
    <2>3. CASE /\ attempts[n] + 1 < BackOffLimit
               /\ attempts' = [attempts EXCEPT ![n] = @ + 1] /\ UNCHANGED <<ctr, call>> /\ Frame
      BY <2>3, RetryStep
    <2> QED BY <1>2, <2>1, <2>2, <2>3 DEF WaitEnds, WaitCrash
  <1>3. ASSUME NEW n \in Nodes, Container(n) PROVE IInv'
    <2>1. CASE RuntimeStarts(n) BY <2>1, ContainerStep DEF RuntimeStarts
    <2>2. CASE ComesUp(n) BY <2>2, ContainerStep DEF ComesUp
    <2> QED BY <1>3, <2>1, <2>2 DEF Container
  <1>4. CASE GroupUp BY <1>4, GroupUpStep
  <1>5. CASE GroupFails BY <1>5, GroupFailsStep
  <1>6. CASE PostStart BY <1>6, PostStartStep
  <1>7. CASE Expire BY <1>7, StillStep DEF Expire
  <1>8. CASE UNCHANGED vars BY <1>8, StillStep DEF vars
  <1> QED BY <1>1, <1>2, <1>3, <1>4, <1>5, <1>6, <1>7, <1>8 DEF Next

\* The invariant always holds.
THEOREM SpecInv == Spec => []IInv
  BY InitInv, NextInv, PTL DEF Spec

\* The Boolean variables keep their type.
Booleans == timed \in BOOLEAN /\ hostNet \in BOOLEAN /\ expired \in BOOLEAN
LEMMA BooleansInit == Init => Booleans
  BY Zenon DEF Init, Booleans
LEMMA BooleansNext == Booleans /\ [Next]_vars => Booleans'
  <1> SUFFICES ASSUME Booleans, [Next]_vars PROVE Booleans' BY Zenon
  <1> USE DEF Booleans
  <1>1. CASE Expire BY <1>1, Zenon DEF Expire
  <1>2. CASE Keep BY <1>2, Zenon DEF Keep
  <1>3. CASE Frame BY <1>3, Zenon DEF Frame
  <1>4. CASE UNCHANGED vars BY <1>4, Zenon DEF vars
  <1>5. ASSUME NEW n \in Nodes, NodeStart(n) PROVE Frame
    BY <1>5, Zenon DEF NodeStart, PreStart, StartNode, StartReturns, WaitReady, WaitCancelled, WaitOver,
       Reported
  <1>6. ASSUME NEW n \in Nodes, WaitEnds(n) \/ Container(n) PROVE Frame
    BY <1>6, Zenon DEF WaitEnds, WaitCrash, WaitFails, WaitOver, Container, RuntimeStarts, ComesUp
  <1>7. GroupUp \/ GroupFails \/ PostStart => Keep BY Zenon DEF GroupUp, GroupFails, PostStart
  <1> QED BY <1>1, <1>2, <1>3, <1>4, <1>5, <1>6, <1>7, Zenon DEF Next

\* Containers, calls and bookkeeping keep their types: no node is given up before or
\* after its back-off limit (node.go:833).
THEOREM TypeCorrect == Spec => []TypeOK
  <1>1. Spec => []Booleans BY BooleansInit, BooleansNext, PTL DEF Spec
  <1>2. {"none"} \cup Begun = {"none", "start", "starting", "wait", "failing", "ok", "err"}
    BY Zenon DEF Begun, Live
  <1>3. IInv /\ Booleans => TypeOK BY <1>2, Zenon DEF IInv, Typed, TypeOK, Booleans
  <1> QED BY <1>1, <1>3, SpecInv, PTL

\* Every node is started when what it joins is there, and servers join one at a time
\* (cluster.go:975), for any number of them.
THEOREM JoinableWhenStarted == Spec => []StartedWhenJoinable
  <1>1. IInv => StartedWhenJoinable BY DEF IInv
  <1> QED BY <1>1, SpecInv, PTL

\* ClusterStart leaves no goroutine behind (cluster.go:992).
THEOREM GoroutinesEnd == Spec => []NoGoroutineLeft
  <1>1. IInv => NoGoroutineLeft BY DEF IInv, Typed, Ends, NoGoroutineLeft, Begun, Live
  <1> QED BY <1>1, SpecInv, PTL

\* A start that succeeds has started every node (cluster.go:1062).
THEOREM SuccessIsReady == Spec => []SuccessMeansReady
  <1>1. IInv => SuccessMeansReady
    <2> SUFFICES ASSUME IInv, phase = "ok" PROVE SuccessMeansReady BY DEF SuccessMeansReady
    <2> USE DEF IInv, Typed, Control
    <2>1. \A p \in Groups : \A n \in Todo(p) : call[n] = "ok" BY DEF PastUp, After, Groups
    <2>2. \A n \in todo : call[n] = "ok" BY <2>1, Grouped DEF Todo
    <2>3. \A n \in Nodes : ctr[n] \in (IF Waits(n) THEN {"ready"} ELSE {"booting", "ready"})
      BY <2>2 DEF Started, Others, Runs
    <2> QED BY <2>3 DEF SuccessMeansReady, Ends
  <1> QED BY <1>1, SpecInv, PTL

\* What a step that is none of the group's own does to the containers: the runtime can be
\* asked only for a node whose turn it is, and not when a sibling's error has been seen.
LEMMA RequestStep ==
  ASSUME Typed, [Next]_vars, ~GroupUp, ~GroupFails, ~PostStart
  PROVE  /\ UNCHANGED <<phase, todo>>
         /\ \A m \in Nodes : ctr[m] # "stopped" => ctr'[m] # "stopped"
         /\ \A m \in Nodes : ctr[m] = "stopped" /\ ctr'[m] # "stopped" =>
              Turn(m) /\ call[m] = "start" /\ ~Done(m)
  <1> USE DEF Typed
  <1>1. ASSUME NEW n \in Nodes, StartNode(n)
        PROVE  /\ UNCHANGED <<phase, todo>> /\ Turn(n) /\ call[n] = "start"
               /\ ctr' = ctr \/ (ctr' = [ctr EXCEPT ![n] = "asked"] /\ ~Done(n))
    BY <1>1 DEF StartNode, At, Frame
  <1>2. ASSUME NEW n \in Nodes,
               PreStart(n) \/ StartReturns(n) \/ WaitReady(n) \/ WaitCancelled(n) \/ Reported(n) \/ WaitEnds(n)
        PROVE  UNCHANGED <<phase, todo, ctr>>
    BY <1>2 DEF PreStart, StartReturns, Reported, WaitReady, WaitCancelled, WaitEnds, WaitCrash, WaitFails,
       WaitOver, Frame
  <1>3. ASSUME NEW n \in Nodes, Container(n)
        PROVE  /\ UNCHANGED <<phase, todo>> /\ ctr[n] # "stopped"
               /\ \E r \in {"booting", "failed", "ready"} : ctr' = [ctr EXCEPT ![n] = r]
    BY <1>3 DEF Container, RuntimeStarts, ComesUp, Frame
  <1>4. Expire \/ UNCHANGED vars => UNCHANGED <<phase, todo, ctr>> BY DEF Expire, vars
  <1>5. CASE \E n \in Nodes : StartNode(n) BY <1>5, <1>1
  <1>6. CASE \E n \in Nodes : PreStart(n) \/ StartReturns(n) \/ WaitReady(n) \/ WaitCancelled(n) \/ Reported(n)
                              \/ WaitEnds(n)
    BY <1>6, <1>2
  <1>7. CASE \E n \in Nodes : Container(n) BY <1>7, <1>3
  <1>8. CASE Expire \/ UNCHANGED vars BY <1>8, <1>4
  <1> QED BY <1>5, <1>6, <1>7, <1>8 DEF Next, NodeStart

\* The group's own steps leave the containers alone.
LEMMA PhaseStep ==
  (GroupUp \/ GroupFails \/ PostStart) => UNCHANGED <<ctr, todo, call>>
  BY DEF GroupUp, GroupFails, PostStart, Keep

\* A failed call is of the group that is being started, unless the start is over.
LEMMA FailedIsHere ==
  ASSUME IInv, NEW m \in Nodes, call[m] \in {"failing", "err"}, phase \in Groups PROVE m \in Todo(phase)
  <1> USE DEF IInv, Typed, Control
  <1>1. m \in todo BY DEF Others
  <1>2. PICK p \in Groups : m \in Members[p] BY Grouped
  <1>3. phase = p BY <1>1, <1>2 DEF PastUp, LaterIdle, Todo, Groups, Before, After
  <1> QED BY <1>1, <1>2, <1>3 DEF Todo

\* After a failure it is only siblings' turn, and theirs is cancelled when the error has
\* been seen.
LEMMA TurnAfterFailure ==
  ASSUME IInv, NEW m \in Nodes, call[m] \in {"failing", "err"}, NEW n \in Nodes, Turn(n), call[n] = "start"
  PROVE  Concurrent /\ {m, n} \subseteq Todo(phase) /\ (call[m] = "err" => Done(n))
  <1> USE DEF IInv, Typed, Control
  <1>1. phase \in Groups /\ n \in Members[phase] /\ n \in todo BY DEF Turn, Todo
  <1>2. m \in Todo(phase) /\ m \in Members[phase] /\ m # n BY <1>1, FailedIsHere DEF Todo
  <1>3. phase # "init" BY <1>1, <1>2, Grouped, ClusterStartAssumption
  <1>4. phase # "servers"
    <2> SUFFICES ASSUME phase = "servers" PROVE FALSE OBVIOUS
    <2>1. PICK i \in DOMAIN Servers : Servers[i] = n BY <1>1, Placed
    <2>2. PICK j \in DOMAIN Servers : Servers[j] = m BY <1>2, Placed
    <2>3. i \in Nat /\ j \in Nat /\ i # j BY <2>1, <2>2, <1>2, ClusterStartAssumption
    <2>4. CASE j < i BY <2>4, <2>1, <2>2, <1>2 DEF Turn, Todo
    <2>5. CASE i < j BY <2>5, <2>1, <2>2, <1>1 DEF InOrder
    <2> QED BY <2>3, <2>4, <2>5
  <1>5. Concurrent BY <1>1, <1>3, <1>4 DEF Groups, Concurrent
  <1>6. call[m] = "err" => Cancelled(phase) BY <1>2 DEF Cancelled
  <1>7. call[m] = "err" => Done(n) BY <1>5, <1>6, Zenon DEF Done
  <1> QED BY <1>1, <1>2, <1>5, <1>7 DEF Todo

\* Once the error of a node's start has been seen, the runtime is not asked for another
\* container: the siblings' context is cancelled before (cluster.go:992).
THEOREM FailureEndsRequests == Spec => FailureStopsRequests
  <1>1. ASSUME IInv, [Next]_vars, NEW m \in Nodes, ctr[m] = "stopped", ctr'[m] # "stopped", NEW n \in Nodes
        PROVE  call[n] # "err" /\ (call[n] = "failing" => Concurrent /\ {m, n} \subseteq Todo(phase))
    <2>1. CASE GroupUp \/ GroupFails \/ PostStart BY <2>1, <1>1, PhaseStep
    <2>2. CASE ~GroupUp /\ ~GroupFails /\ ~PostStart
      <3>1. Turn(m) /\ call[m] = "start" /\ ~Done(m) BY <2>2, <1>1, RequestStep DEF IInv
      <3> QED BY <3>1, <1>1, TurnAfterFailure
    <2> QED BY <2>1, <2>2
  <1>2. IInv /\ [Next]_vars =>
          \A m \in Nodes : ctr[m] = "stopped" /\ ctr'[m] # "stopped" =>
            \A n \in Nodes : /\ call[n] # "err"
                             /\ call[n] = "failing" => Concurrent /\ {m, n} \subseteq Todo(phase)
    BY <1>1
  <1> QED BY <1>2, SpecInv, PTL DEF Spec, FailureStopsRequests

\* The containers that count as started are the same after a step within a group.
LEMMA SameUp == ASSUME IInv, [Next]_vars, ~GroupUp, ~GroupFails, ~PostStart PROVE UNCHANGED <<phase, todo, Up>>
  <1> USE DEF IInv
  <1>1. UNCHANGED <<phase, todo>> BY RequestStep
  <1>2. \A m \in Nodes : (ctr'[m] = "stopped") = (ctr[m] = "stopped") \/ (phase \in Groups /\ m \in Members[phase])
    BY RequestStep DEF Turn, Todo
  <1>3. CASE phase \in Groups
    <2>1. StartedOf(Nodes \ Members[phase])' = StartedOf(Nodes \ Members[phase])
      BY <1>1, <1>2 DEF StartedOf
    <2> QED BY <2>1, <1>1, <1>3 DEF Up
  <1>4. CASE phase \notin Groups
    <2>1. StartedOf(Nodes)' = StartedOf(Nodes) BY <1>1, <1>2, <1>4 DEF StartedOf
    <2> QED BY <2>1, <1>1, <1>4 DEF Up
  <1> QED BY <1>1, <1>3, <1>4

\* A group that is up adds exactly its nodes.
LEMMA UpStep == ASSUME IInv, GroupUp PROVE Phases!GroupUp
  <1> USE DEF IInv, Typed, Control
  <1>1. phase \in Groups /\ phase' = Follows[phase] /\ UNCHANGED <<todo, ctr>> BY DEF GroupUp, Keep
  <1>2. \A n \in Todo(phase) : ctr[n] # "stopped" BY DEF GroupUp, Started, Todo, Runs
  <1>3. phase' \in Groups => \A n \in Members[phase'] \cap todo : ctr[n] = "stopped"
    <2> SUFFICES ASSUME phase' \in Groups, NEW n \in Members[phase'], n \in todo
                 PROVE  ctr[n] = "stopped"
      OBVIOUS
    <2>1. phase \in Before[phase'] BY <1>1 DEF Groups, Follows, Before
    <2>2. call[n] = "none" BY <2>1 DEF LaterIdle
    <2> QED BY <2>2 DEF Started, Begun, Live
  <1>4. Up' = Up \cup (Members[phase] \cap todo)
    <2>1. Up = StartedOf(Nodes \ Members[phase]) BY <1>1 DEF Up
    <2>2. Members[phase] \subseteq Nodes BY <1>1, Grouped
    <2>3. CASE phase' \in Groups
      <3>1. Up' = {n \in (Nodes \ Members[phase']) \cap todo : ctr[n] # "stopped"}
        BY <2>3, <1>1 DEF Up, StartedOf
      <3>2. Members[phase] \cap Members[phase'] = {}
        <4>1. phase # phase' BY <1>1 DEF Groups, Follows
        <4> QED BY <4>1, <1>1, <2>3, <2>2, Apart
      <3> QED BY <3>1, <3>2, <2>1, <2>2, <1>2, <1>3, <2>3 DEF StartedOf, Todo
    <2>4. CASE phase' \notin Groups
      <3>1. Up' = {n \in Nodes \cap todo : ctr[n] # "stopped"} BY <2>4, <1>1 DEF Up, StartedOf
      <3> QED BY <3>1, <2>1, <2>2, <1>2 DEF StartedOf, Todo
    <2> QED BY <2>3, <2>4
  <1> QED BY <1>1, <1>4 DEF Phases!GroupUp

\* A group that fails adds some of its nodes.
LEMMA FailStep == ASSUME IInv, GroupFails PROVE Phases!GroupFails
  <1> USE DEF IInv, Typed
  <1>1. phase \in Groups /\ phase' = "err" /\ UNCHANGED <<todo, ctr>> BY DEF GroupFails, Keep
  <1> DEFINE S == {n \in Members[phase] \cap todo : ctr[n] # "stopped"}
  <1>2. Up' = Up \cup S
    <2>1. Up = StartedOf(Nodes \ Members[phase]) BY <1>1 DEF Up
    <2>2. Up' = {n \in Nodes \cap todo : ctr[n] # "stopped"} BY <1>1 DEF Up, StartedOf, Groups
    <2>3. Members[phase] \subseteq Nodes BY <1>1, Grouped
    <2> QED BY <2>1, <2>2, <2>3 DEF StartedOf
  <1>3. S \in SUBSET (Members[phase] \cap todo) OBVIOUS
  <1> HIDE DEF S
  <1> QED BY <1>1, <1>2, <1>3 DEF Phases!GroupFails

\* Writing the records starts nothing.
LEMMA PostStep == ASSUME IInv, PostStart PROVE Phases!PostStart
  <1>1. phase = "post" /\ phase' \in {"ok", "err"} /\ UNCHANGED <<todo, ctr>> BY DEF PostStart, Keep
  <1>2. Up' = Up BY <1>1 DEF Up, StartedOf, Groups
  <1> QED BY <1>1, <1>2 DEF Phases!PostStart

\* ClusterStart, with its goroutines, waits, crashes and cancellations, implements the
\* start group by group that StartPhases promises.
THEOREM StartsGroupByGroup == Spec => StartsInPhases
  <1>1. Init => Phases!Init
    <2> SUFFICES ASSUME Init PROVE Phases!Init OBVIOUS
    <2>1. Up = {} BY DEF Init, Up, StartedOf, Groups
    <2>2. todo \subseteq Phases!Nodes BY Grouped DEF Init, Phases!Nodes
    <2> QED BY <2>1, <2>2 DEF Init, Phases!Init
  <1>2. IInv /\ [Next]_vars => [Phases!GroupUp \/ Phases!GroupFails \/ Phases!PostStart]_(Phases!vars)
    <2> SUFFICES ASSUME IInv, [Next]_vars
                 PROVE  Phases!GroupUp \/ Phases!GroupFails \/ Phases!PostStart \/ UNCHANGED <<phase, todo, Up>>
      BY DEF Phases!vars
    <2>1. CASE GroupUp BY <2>1, UpStep
    <2>2. CASE GroupFails BY <2>2, FailStep
    <2>3. CASE PostStart BY <2>3, PostStep
    <2>4. CASE ~GroupUp /\ ~GroupFails /\ ~PostStart BY <2>4, SameUp
    <2> QED BY <2>1, <2>2, <2>3, <2>4
  <1> QED BY <1>1, <1>2, SpecInv, PTL DEF Spec, StartsInPhases, Phases!Spec
-----------------------------------------------------------------------------
(* The import of images: the variables of ImageStream are others. *)

\* The chunks that the copier has handed to a node, and those that have come from there.
Handed(n) == written + (IF n < at THEN 1 ELSE 0)
Taken(n) == got[n] + (IF pump[n] = "sending" THEN 1 ELSE 0)

\* Where the copier is bounds what the nodes can have: a node without a pump has had nothing, a
\* node with a process exactly what was handed to it, and no node more than that.
Accounts(n) ==
  /\ execs[n] = "exec" => pump[n] = "none" /\ proc[n] = "none"
  /\ Connected(n) => proc[n] # "none" /\ pump[n] # "none"
  /\ pump[n] = "none" => Handed(n) = 0
  /\ proc[n] = "running" /\ Connected(n) => pump[n] # "ended" /\ Taken(n) = Handed(n)
  /\ Taken(n) <= Handed(n)

\* What a node's result says of its process.
Verdict(n) ==
  /\ proc[n] = "ok" => got[n] = Chunks
  /\ execs[n] = "ok" => proc[n] = "ok"
  /\ main = "ok" => execs[n] = "ok"

ImportInv ==
  /\ ImportTypes /\ (written = Chunks => at = 1)
  /\ \A n \in Node : Accounts(n) /\ Verdict(n)

LEMMA ImportInitOK == ImportInit => ImportInv
<1> SUFFICES ASSUME ImportInit PROVE ImportInv
  OBVIOUS
<1>1. ImportTypes /\ (written = Chunks => at = 1)
  BY ImageStreamAssumption, SMT DEF ImportInit, ImportTypes, Node
<1>2. ASSUME NEW n \in Node PROVE Accounts(n) /\ Verdict(n)
  <2>1. /\ execs[n] = "exec" /\ proc[n] = "none" /\ got[n] = 0 /\ pump[n] = "none"
        /\ main = "waiting" /\ written = 0 /\ ~(n < at)
    BY <1>2, ImageStreamAssumption, SMT DEF ImportInit, Node
  <2> QED BY <2>1, SMT DEF Accounts, Verdict, Handed, Taken, Connected
<1> QED BY <1>1, <1>2 DEF ImportInv

\* One node's step leaves the other nodes' accounts alone.
LEMMA ImportStepOK ==
  ImportInv /\ [ImportNext]_importVars => ImportInv'
<1> SUFFICES ASSUME ImportInv, [ImportNext]_importVars PROVE ImportInv'
  OBVIOUS
<1> USE ImageStreamAssumption DEF Node, ImportInv, ImportTypes, Set
<1>1. ASSUME NEW n \in Node, Exec(n) PROVE ImportInv'
  <2>1. ImportTypes' /\ (written = Chunks => at = 1)'
    BY <1>1, SMT DEF Exec
  <2>2. ASSUME NEW k \in Node PROVE Accounts(k)' /\ Verdict(k)'
    BY <1>1, <2>2, SMT DEF Exec, Accounts, Verdict, Handed, Taken, Connected
  <2> QED BY <2>1, <2>2
<1>2. ASSUME NEW n \in Node, ExecFails(n) PROVE ImportInv'
  <2>1. ImportTypes' /\ (written = Chunks => at = 1)'
    BY <1>2, SMT DEF ExecFails
  <2>2. ASSUME NEW k \in Node PROVE Accounts(k)' /\ Verdict(k)'
    BY <1>2, <2>2, SMT DEF ExecFails, Accounts, Verdict, Handed, Taken, Connected
  <2> QED BY <2>1, <2>2
<1>3. ASSUME NEW n \in Node, HandOver(n) PROVE ImportInv'
  <2>1. ImportTypes' /\ (written = Chunks => at = 1)'
    BY <1>3, SMT DEF HandOver
  <2>2. ASSUME NEW k \in Node PROVE Handed(k)' = IF k = n THEN Handed(k) + 1 ELSE Handed(k)
    BY <1>3, <2>2, SMT DEF HandOver, Handed
  <2>3. ASSUME NEW k \in Node PROVE Taken(k)' = IF k = n THEN Taken(k) + 1 ELSE Taken(k)
    BY <1>3, <2>3, SMT DEF HandOver, Taken
  <2>4. ASSUME NEW k \in Node PROVE Accounts(k)' /\ Verdict(k)'
    <3>1. Accounts(k) /\ Verdict(k) /\ Handed(k) \in Nat /\ Taken(k) \in Nat
      BY <2>4, SMT DEF Handed, Taken
    <3> QED BY <1>3, <2>2, <2>3, <2>4, <3>1, SMT DEF HandOver, Accounts, Verdict, Connected
  <2> QED BY <2>1, <2>4
<1>4. ASSUME NEW n \in Node, Send(n) PROVE ImportInv'
  <2>1. Taken(n) <= Handed(n) /\ Handed(n) <= Chunks /\ Handed(n) \in Nat
    BY <1>4, SMT DEF Accounts, Handed
  <2>2. ImportTypes' /\ (written = Chunks => at = 1)'
    BY <1>4, <2>1, SMTT(30) DEF Send, Taken
  <2>3. ASSUME NEW k \in Node PROVE Accounts(k)' /\ Verdict(k)'
    BY <1>4, <2>1, <2>3, SMTT(30) DEF Send, Accounts, Verdict, Handed, Taken, Connected
  <2> QED BY <2>2, <2>3
<1>5. ASSUME NEW n \in Node, ProcEnds(n) \/ ProcFails(n) PROVE ImportInv'
  <2>1. ImportTypes' /\ (written = Chunks => at = 1)'
    BY <1>5, SMT DEF ProcEnds, ProcFails
  <2>2. ASSUME NEW k \in Node PROVE Accounts(k)' /\ Verdict(k)'
    BY <1>5, <2>2, SMT DEF ProcEnds, ProcFails, Accounts, Verdict, Handed, Taken, Connected
  <2> QED BY <2>1, <2>2
<1>6. ASSUME NEW n \in Node, Poll(n) \/ InspectFails(n) \/ Logs(n) PROVE ImportInv'
  <2>1. ImportTypes' /\ (written = Chunks => at = 1)'
    BY <1>6, SMTT(30) DEF Poll, InspectFails, Logs
  <2>2. UNCHANGED <<copier, written, at, proc, got, pump, main>>
    BY <1>6 DEF Poll, InspectFails, Logs
  <2>3. execs[n] \in {"poll", "logs"} /\ (execs'[n] = "ok" => proc[n] = "ok")
    BY <1>6 DEF Poll, InspectFails, Logs
  <2>4. execs'[n] \in {"ok", "logs", "failed"} /\ \A k \in Node : k # n => execs'[k] = execs[k]
    BY <1>6 DEF Poll, InspectFails, Logs
  <2>5. ASSUME NEW k \in Node PROVE Accounts(k)'
    <3>1. Accounts(k) OBVIOUS
    <3>2. Handed(k)' = Handed(k) /\ Taken(k)' = Taken(k) BY <2>2 DEF Handed, Taken
    <3>3. CASE k = n BY <2>2, <2>3, <2>4, <3>1, <3>2, <3>3, SMT DEF Accounts, Connected
    <3>4. CASE k # n BY <2>2, <2>4, <3>1, <3>2, <3>4, SMT DEF Accounts, Connected
    <3> QED BY <3>3, <3>4
  <2>6. ASSUME NEW k \in Node PROVE Verdict(k)'
    BY <2>2, <2>3, <2>4, <2>6, SMT DEF Verdict
  <2> QED BY <2>1, <2>5, <2>6
<1>7. ASSUME CopierEnds \/ StreamFails \/ UNCHANGED importVars PROVE ImportInv'
  BY <1>7, SMTT(30)
  DEF CopierEnds, StreamFails, importVars, Accounts, Verdict, Handed, Taken, Connected
<1>8. ASSUME Wait PROVE ImportInv'
  <2>1. ImportTypes' /\ (written = Chunks => at = 1)' /\ main' \in {"ok", "failed"}
    BY <1>8, SMT DEF Wait
  <2>2. ASSUME NEW k \in Node PROVE Accounts(k)'
    BY <1>8, <2>2, SMT DEF Wait, Accounts, Handed, Taken, Connected
  <2>3. ASSUME NEW k \in Node, main' = "ok" PROVE execs[k] = "ok"
    <3>1. execs[k] \in Results
      BY <2>3 DEF Results
    <3> QED BY <1>8, <2>3, <3>1 DEF Wait
  <2>4. ASSUME NEW k \in Node PROVE Verdict(k)'
    BY <1>8, <2>3, <2>4, SMT DEF Wait, Verdict
  <2> QED BY <2>1, <2>2, <2>4
<1> QED
  BY <1>1, <1>2, <1>3, <1>4, <1>5, <1>6, <1>7, <1>8 DEF ImportNext, Works, Breaks

LEMMA ImportInvariance == ImportSpec => []ImportInv
BY ImportInitOK, ImportStepOK, PTL DEF ImportSpec

\* The goroutines' and processes' state keep their types: no node ever gets more chunks than the
\* stream has (executeInNode's pump and io.MultiWriter).
THEOREM ImportTypesHold == ImportSpec => []ImportTypes
<1>1. ImportInv => ImportTypes
  BY DEF ImportInv
<1> QED BY <1>1, ImportInvariance, PTL

\* loadImageFromStream returns no error only when every node has imported the whole stream.
THEOREM ImportIsComplete == ImportSpec => []SuccessMeansImported
<1>1. ImportInv => SuccessMeansImported
  BY DEF ImportInv, Verdict, SuccessMeansImported
<1> QED BY <1>1, ImportInvariance, PTL

\* The nodes move in lockstep with the copier, as io.MultiWriter over pipes without buffer makes
\* them.
THEOREM NodesInLockstep == ImportSpec => []Lockstep
<1>1. ImportInv => Lockstep
  BY SMT DEF ImportInv, Accounts, Handed, Taken, Lockstep
<1> QED BY <1>1, ImportInvariance, PTL
===============================================================================
