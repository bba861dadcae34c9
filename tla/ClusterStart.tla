----------------------------- MODULE ClusterStart -----------------------------
(***************************************************************************)
(* ClusterStart: the nodes that are not running are started group by group  *)
(* - the initializing server, the other servers one after the other, the    *)
(* agents and then the helpers concurrently - each by NodeStart, which asks *)
(* the container runtime to start the container and follows its log until   *)
(* the ready message.  At the end host records are injected.  A --timeout   *)
(* cancels every call; the first error of a group of goroutines cancels     *)
(* those of its siblings.  A cancelled call does not take back what the     *)
(* runtime has been asked for.                                              *)
(***************************************************************************)
EXTENDS Naturals, Sequences

CONSTANTS
  InitNode,  \* the initializing server, as a set of at most one node
  Servers,   \* the other servers, sorted by name
  Agents,    \* the agents
  LB,        \* the load balancer, as a set of at most one node
  Registries,\* the registries among the cluster's nodes
  BackOffLimit \* log streams followed before a crash loop is given up

ServerSet == InitNode \cup {Servers[i] : i \in DOMAIN Servers}
Nodes == ServerSet \cup Agents \cup LB \cup Registries

Groups == {"init", "servers", "agents", "aux"}
Follows == [init |-> "servers", servers |-> "agents", agents |-> "aux", aux |-> "post"]
Members == [init |-> InitNode, servers |-> ServerSet \ InitNode, agents |-> Agents,
            aux |-> LB \cup Registries]

ASSUME ClusterStartAssumption ==
  /\ \A m, n \in InitNode : m = n
  /\ \A m, n \in LB : m = n
  /\ ServerSet # {}
  /\ Servers \in Seq(ServerSet \ InitNode) /\ BackOffLimit \in Nat \ {0}
  /\ \A i, j \in DOMAIN Servers : Servers[i] = Servers[j] => i = j
  /\ \A p, q \in Groups : p # q => Members[p] \cap Members[q] = {}

VARIABLES
  ctr,       \* runtime: "stopped", "asked" (the runtime has the request to start it), "failed"
             \* (it could not), "booting" (it runs, no ready message yet) or "ready"
  todo,      \* the nodes that were not running when they were listed
  timed,     \* was a timeout given?
  hostNet,   \* does the cluster use the host's network?
  phase,     \* the group that is being started
  call,      \* control state of NodeStart for each node
  attempts,  \* log streams of the node, while it is waited for, that ended with a fatal line
  expired,   \* the timeout has passed
  aliased    \* nodes whose /etc/hosts got the host records

vars == <<ctr, todo, timed, hostNet, phase, call, attempts, expired, aliased>>

Finished(n) == call[n] \in {"ok", "err"}
Todo(p) == Members[p] \cap todo

\* A cluster in the host's network has a single node, a server (validate.go:49).
Init ==
  /\ todo \in SUBSET Nodes /\ hostNet \in BOOLEAN
  /\ hostNet => todo \subseteq ServerSet /\ \A m, n \in todo : m = n
  /\ ctr = [n \in Nodes |-> IF n \in todo THEN "stopped" ELSE "ready"]
  /\ timed \in BOOLEAN
  /\ phase = "init"
  /\ call = [n \in Nodes |-> "none"] /\ attempts = [n \in Nodes |-> 0]
  /\ expired = FALSE /\ aliased = {}
-----------------------------------------------------------------------------
(* NodeStart *)

\* Mutated form of Turn: the servers are started concurrently, like the agents.
TurnAtOnce(n) == phase \in Groups /\ n \in Todo(phase)

\* The call of NodeStart for n has begun: the servers are started in a loop, the other
\* groups have one goroutine per node.
Turn(n) ==
  /\ phase \in Groups /\ n \in Todo(phase)
  /\ phase = "servers" => \A i, j \in DOMAIN Servers :
       Servers[i] = n /\ j < i /\ Servers[j] \in todo => call[Servers[j]] = "ok"

\* Mutated form of Done: the goroutines of a group get the context of ClusterStart.
DoneByTimeout(n) == expired

Concurrent == phase \in {"agents", "aux"}

\* errgroup.WithContext: when the first error has been seen, the context of the group's
\* goroutines is done.
Cancelled(p) == \E n \in Todo(p) : call[n] = "err"
Done(n) == expired \/ (Concurrent /\ Cancelled(phase))

At(n, s) == Turn(n) /\ call[n] = s
Returns(n, r) == call' = [call EXCEPT ![n] = r]
\* NodeStart returns an error: to the loop, or to its goroutine, which tells the errgroup.
Fails(n) == Returns(n, IF Concurrent THEN "failing" ELSE "err")
Frame == UNCHANGED <<todo, timed, hostNet, phase, expired, aliased>>

\* enableFixes and the preStart hooks.  The fixes, for k3s nodes, fail the call; a hook
\* that fails is only logged.
PreStart(n) ==
  /\ At(n, "none")
  /\ Returns(n, "start") \/ (n \in ServerSet \cup Agents /\ Fails(n))
  /\ UNCHANGED <<ctr, attempts>> /\ Frame

\* Wait is set for servers, agents and the load balancer.
Waits(n) == n \notin Registries

\* runtime.StartNode: the request reaches the runtime, or the call fails before.
StartNode(n) ==
  /\ At(n, "start")
  /\ \/ ~Done(n) /\ ctr' = [ctr EXCEPT ![n] = "asked"] /\ Returns(n, "starting")
     \/ UNCHANGED ctr /\ Fails(n)
  /\ UNCHANGED attempts /\ Frame

\* The runtime starts the container or cannot, whether or not its client still waits.
RuntimeStarts(n) ==
  /\ ctr[n] = "asked"
  /\ \E r \in {"booting", "failed"} : ctr' = [ctr EXCEPT ![n] = r]
  /\ UNCHANGED <<call, attempts>> /\ Frame

\* runtime.StartNode returns; it may fail after the container started (inspecting it) or
\* without an answer (cancelled, or the connection is lost).
StartReturns(n) ==
  /\ At(n, "starting")
  /\ \/ /\ ~Done(n) /\ ctr[n] \in {"booting", "ready"}
        /\ Returns(n, IF Waits(n) THEN "wait" ELSE "ok")
     \/ Fails(n)
  /\ UNCHANGED <<ctr, attempts>> /\ Frame

\* errgroup: the goroutine's error cancels the context.
Reported(n) ==
  /\ At(n, "failing") /\ Returns(n, "err")
  /\ UNCHANGED <<ctr, attempts>> /\ Frame

\* NodeWaitForLogMessage returns.
WaitOver(n) ==
  /\ At(n, "wait")
  /\ attempts' = [attempts EXCEPT ![n] = 0]
  /\ UNCHANGED ctr /\ Frame

\* Mutated form of WaitReady: the node counts as ready as soon as it has been started.
WaitStarted(n) == ~Done(n) /\ WaitOver(n) /\ Returns(n, "ok")

\* The ready message is found; the context is looked at before each line is.
WaitReady(n) == ~Done(n) /\ ctr[n] = "ready" /\ WaitOver(n) /\ Returns(n, "ok")

\* Mutated form of WaitCrash: at the limit the count starts again.
WaitCrashAgain(n) ==
  /\ ctr[n] = "booting" /\ At(n, "wait")
  /\ attempts' = [attempts EXCEPT ![n] = (@ + 1) % BackOffLimit]
  /\ UNCHANGED <<ctr, call>> /\ Frame

\* The container crashes (its last line is a fatal one); the runtime restarts it and a
\* new stream is followed, up to the back-off limit.
WaitCrash(n) ==
  /\ ctr[n] = "booting"
  /\ \/ /\ At(n, "wait") /\ attempts[n] + 1 < BackOffLimit
        /\ attempts' = [attempts EXCEPT ![n] = @ + 1]
        /\ UNCHANGED <<ctr, call>> /\ Frame
     \/ attempts[n] + 1 = BackOffLimit /\ WaitOver(n) /\ Fails(n)

\* The stream cannot be opened or ends without a fatal line ...
WaitFails(n) == ~Done(n) /\ WaitOver(n) /\ Fails(n)

\* Mutated form of WaitCancelled: only a line of the log makes the wait look at the context.
WaitCancelledOnLine(n) == Done(n) /\ ctr[n] = "ready" /\ WaitOver(n) /\ Fails(n)

\* ... or the context is done, which ends the stream.
WaitCancelled(n) == Done(n) /\ WaitOver(n) /\ Fails(n)
-----------------------------------------------------------------------------
(* ClusterStart *)

Keep == UNCHANGED <<ctr, todo, timed, hostNet, call, attempts, expired>>

\* Mutated form of GroupUp: the first goroutine to return ends the wait.
GroupUpEarly ==
  /\ phase \in Groups /\ (Todo(phase) # {} => \E n \in Todo(phase) : call[n] = "ok")
  /\ phase' = Follows[phase]
  /\ Keep /\ UNCHANGED aliased

\* Every NodeStart of the group has returned nil.
GroupUp ==
  /\ phase \in Groups /\ \A n \in Todo(phase) : call[n] = "ok"
  /\ phase' = Follows[phase]
  /\ Keep /\ UNCHANGED aliased

\* Mutated form of GroupFails: the first error is returned at once.
GroupFailsAtOnce ==
  /\ phase \in Groups /\ \E n \in Todo(phase) : call[n] = "err"
  /\ phase' = "err"
  /\ Keep /\ UNCHANGED aliased

\* The loop over the servers returns the first error; g.Wait waits for all goroutines.
GroupFails ==
  /\ phase \in Groups /\ \E n \in Todo(phase) : call[n] = "err"
  /\ Concurrent => \A n \in Todo(phase) : Finished(n)
  /\ phase' = "err"
  /\ Keep /\ UNCHANGED aliased

\* Unless it is the host's network: the host records go to the servers and agents that
\* were started, and CoreDNS gets them through the first of these servers, whose log is
\* waited for; none of it after the timeout.
AliasTargets == IF hostNet THEN {} ELSE Todo("servers") \cup Todo("agents")
PostStart ==
  /\ phase = "post" /\ Keep
  /\ \/ /\ AliasTargets = {} \/ ~expired
        /\ aliased' = AliasTargets /\ phase' = "ok"
     \/ /\ AliasTargets # {}
        /\ aliased' \in SUBSET AliasTargets /\ phase' = "err"

\* The deadline of the context passes.
Expire ==
  /\ timed /\ ~expired /\ phase \notin {"ok", "err"}
  /\ expired' = TRUE
  /\ UNCHANGED <<ctr, todo, timed, hostNet, phase, call, attempts, aliased>>
-----------------------------------------------------------------------------
(* The containers *)

\* The server that the other servers and the agents are told to join: the first one.
JoinURL == IF InitNode # {} THEN InitNode ELSE {Servers[1]}

\* What a node needs to come up: a server the one it joins, an agent as well, and the
\* load balancer all servers, whose names its configuration has to resolve.
CanComeUp(n) ==
  /\ n \in (ServerSet \cup Agents) \ JoinURL => \A m \in JoinURL : ctr[m] = "ready"
  /\ n \in LB => \A m \in ServerSet : ctr[m] \in {"booting", "ready"}

ComesUp(n) ==
  /\ ctr[n] = "booting" /\ CanComeUp(n)
  /\ ctr' = [ctr EXCEPT ![n] = "ready"]
  /\ UNCHANGED <<call, attempts>> /\ Frame

NodeStart(n) ==
  \/ PreStart(n) \/ StartNode(n) \/ StartReturns(n)
  \/ WaitReady(n) \/ WaitCancelled(n) \/ Reported(n)
WaitEnds(n) == WaitCrash(n) \/ WaitFails(n)
Container(n) == RuntimeStarts(n) \/ ComesUp(n)

Next ==
  \/ \E n \in Nodes : NodeStart(n) \/ WaitEnds(n) \/ Container(n)
  \/ GroupUp \/ GroupFails \/ PostStart \/ Expire

Spec == Init /\ [][Next]_vars
\* The scheduler runs every goroutine, runtime calls return and time passes; a container
\* neither has to start nor to get ready nor to crash, and no line has to appear in the
\* log that CoreDNS's records wait for.
PostWaits == phase = "post" /\ ~hostNet /\ Todo("servers") # {} /\ ~expired
Fairness == /\ \A n \in Nodes : WF_vars(NodeStart(n))
            /\ WF_vars(GroupUp \/ GroupFails \/ (~PostWaits /\ PostStart)) /\ WF_vars(Expire)
FairSpec == Spec /\ Fairness
-----------------------------------------------------------------------------
\* The containers, the control state and the bookkeeping keep their types.
TypeOK ==
  /\ ctr \in [Nodes -> {"stopped", "asked", "failed", "booting", "ready"}]
  /\ todo \subseteq Nodes /\ timed \in BOOLEAN /\ hostNet \in BOOLEAN /\ expired \in BOOLEAN
  /\ phase \in Groups \cup {"post", "ok", "err"}
  /\ call \in [Nodes -> {"none", "start", "starting", "wait", "failing", "ok", "err"}]
  /\ attempts \in [Nodes -> 0 .. BackOffLimit - 1]
  /\ aliased \subseteq Nodes

\* Etcd and the joining nodes: the start of a node is asked for only when what it joins is
\* there, and at most one server is coming up at any time.
StartedWhenJoinable ==
  /\ \A n \in todo : ctr[n] # "stopped" => CanComeUp(n)
  /\ \A m, n \in ServerSet : {ctr[m], ctr[n]} \subseteq {"asked", "booting"} => m = n

\* ClusterStart returns only when none of its goroutines is left that could still act on
\* a container.
NoGoroutineLeft ==
  phase \in {"ok", "err"} => \A n \in Nodes : call[n] \in {"none", "ok", "err"}

\* "Started cluster": every node runs, those that are waited for have printed their ready
\* message, and those that get host records have them.
SuccessMeansReady ==
  phase = "ok" =>
    /\ \A n \in Nodes : ctr[n] \in (IF Waits(n) THEN {"ready"} ELSE {"booting", "ready"})
    /\ AliasTargets \subseteq aliased

\* When the error of a NodeStart has been seen, the runtime is not asked to start another
\* container; before, only for siblings in the same group of goroutines.
FailureStopsRequests ==
  [][\A m \in Nodes : ctr[m] = "stopped" /\ ctr'[m] # "stopped" =>
        \A n \in Nodes : /\ call[n] # "err"
                         /\ call[n] = "failing" => Concurrent /\ {m, n} \subseteq Todo(phase)]_vars

\* With a timeout, the command ends whatever the containers do.
TimeoutEnds == [](timed => <>(phase \in {"ok", "err"}))

\* Without one only silence keeps it from ending: the log that CoreDNS's records wait for,
\* or that of a node that from some time on neither gets ready nor crashes.
EndsUnlessSilent ==
  \/ <>(phase \in {"ok", "err"})
  \/ <>[]PostWaits
  \/ \E n \in Nodes : <>[](call[n] = "wait" /\ ctr[n] = "booting") /\ <>[][~WaitCrash(n)]_vars

\* The groups come up one after the other: a group counts when its phase is over, by the
\* containers the runtime was asked to start.
StartedOf(S) == {n \in S \cap todo : ctr[n] # "stopped"}
Up == IF phase \in Groups THEN StartedOf(Nodes \ Members[phase]) ELSE StartedOf(Nodes)
Phases == INSTANCE StartPhases WITH up <- Up
StartsInPhases == Phases!Spec
=============================================================================
