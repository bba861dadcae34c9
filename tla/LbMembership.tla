----------------------------- MODULE LbMembership -----------------------------
(***************************************************************************)
(* Adding servers to a running cluster and deleting them (`k3d node create *)
(* --role server`, `k3d node delete`), as far as the load balancer is      *)
(* concerned.  Each command ends with UpdateLoadbalancerConfig, a read of  *)
(* the cluster followed by a write of the whole configuration file.        *)
(* Commands are processes without a common lock; one command may add       *)
(* several servers, by one goroutine each, which share one Cluster struct. *)
(***************************************************************************)
EXTENDS FiniteSets

CONSTANTS
  Initial,   \* the servers that exist and are configured in the beginning
  AddTasks,  \* the calls of NodeAddToCluster with a server
  DelTasks,  \* the calls of NodeDelete with a server
  Of,        \* the server of each call
  Cmd        \* the command it belongs to

Tasks == AddTasks \cup DelTasks
Commands == {Cmd[t] : t \in Tasks}
Servers == Initial \cup {Of[t] : t \in Tasks}

ASSUME LbMembershipAssumption ==
  /\ AddTasks \cap DelTasks = {}
  /\ \A t \in AddTasks : Of[t] \notin Initial
  /\ \A t \in DelTasks, u \in Tasks : u # t => Cmd[t] # Cmd[u]

VARIABLES
  created, \* runtime: the servers that have a container
  up,      \* runtime: those of them that run, whose names resolve
  hasLb,   \* does the cluster have a load balancer?
  conf,    \* the servers in the load balancer's configuration file
  seenConf,\* has confd dealt with the present file?
  active,  \* the servers nginx forwards to
  log,     \* what the load balancer has logged since the task wrote the file
  known,   \* the servers in the Cluster struct of each command
  pc,      \* control state of each task
  listed,  \* the servers the task's call of ClusterGet was told of
  header,  \* the servers in the struct when that call began to append to its nodes
  target,  \* the servers in the configuration the task has generated
  fault,   \* history: a runtime call failed
  solo     \* history: commands that have overlapped with no other one

docker == <<created, up, hasLb>>
lb == <<conf, seenConf, active, log>>
vars == <<created, up, hasLb, conf, seenConf, active, log, known, pc, listed, header,
          target, fault, solo>>

Terminal == {"ok", "failed", "crashed"}
Working == {"create", "start", "delete", "getNew", "get", "merge", "generate", "write", "wait"}
TasksOf(c) == {t \in Tasks : Cmd[t] = c}

Init ==
  /\ created = Initial /\ up = Initial /\ hasLb \in BOOLEAN
  /\ conf = Initial /\ seenConf = TRUE /\ active = Initial
  /\ log = [t \in Tasks |-> {}]
  /\ known = [c \in Commands |-> {}]
  /\ pc = [t \in Tasks |-> "idle"]
  /\ listed = [t \in Tasks |-> {}] /\ header = [t \in Tasks |-> {}]
  /\ target = [t \in Tasks |-> {}]
  /\ fault = FALSE /\ solo = {}
-----------------------------------------------------------------------------
At(t, p) == pc[t] = p
Goto(t, q) == pc' = [pc EXCEPT ![t] = q]

\* errgroup: the first goroutine that fails cancels the context of the command.
Cancelled(t) == \E u \in TasksOf(Cmd[t]) : pc[u] = "failed"
Fails(t) == Goto(t, "failed") /\ fault' = TRUE
Crashes(c) == pc' = [t \in Tasks |-> IF Cmd[t] = c THEN "crashed" ELSE pc[t]]

\* A command begins.  What it reads may be all there is to read, or the read fails.
Begins(c, q) ==
  /\ \A t \in TasksOf(c) : pc[t] = "idle"
  /\ \/ pc' = [t \in Tasks |-> IF Cmd[t] = c THEN q ELSE pc[t]] /\ UNCHANGED fault
     \/ pc' = [t \in Tasks |-> IF Cmd[t] = c THEN "failed" ELSE pc[t]] /\ fault' = TRUE
  /\ LET others == {d \in Commands : \E t \in TasksOf(d) : pc[t] \in Working}
     IN  solo' = IF others = {} THEN solo \cup {c} ELSE solo \ others
  /\ UNCHANGED <<docker, lb, listed, header, target>>

\* NodeAddToClusterMulti: ClusterGet and GatherEnvironmentInfo, then one goroutine a server.
BeginAdd(c) ==
  /\ TasksOf(c) \subseteq AddTasks /\ Begins(c, "create")
  /\ known' = [known EXCEPT ![c] = created]

\* NodeGet of the node to be deleted.
BeginDelete(c) ==
  /\ \E t \in TasksOf(c) \cap DelTasks : Of[t] \in created
  /\ Begins(c, "delete") /\ UNCHANGED known

\* NodeRun: the container is created ...
Create(t) ==
  /\ At(t, "create")
  /\ \/ /\ ~Cancelled(t) /\ Of[t] \notin created
        /\ created' = created \cup {Of[t]}
        /\ Goto(t, "start") /\ UNCHANGED fault
     \/ Fails(t) /\ UNCHANGED created
  /\ UNCHANGED <<up, hasLb, lb, known, listed, header, target, solo>>

\* ... and started; with --wait its ready message is waited for.  On failure it stays.
Start(t) ==
  /\ At(t, "start")
  /\ \/ /\ ~Cancelled(t) /\ Of[t] \in created
        /\ up' = up \cup {Of[t]}
        /\ Goto(t, "get") /\ UNCHANGED fault
     \/ Fails(t) /\ up' \in {up, up \cup ({Of[t]} \cap created)}
  /\ UNCHANGED <<created, hasLb, lb, known, listed, header, target, solo>>

\* NodeDelete: an error of the runtime is only logged.
Delete(t) ==
  /\ At(t, "delete") /\ Goto(t, "getNew")
  /\ \/ created' = created \ {Of[t]} /\ up' = up \ {Of[t]} /\ UNCHANGED fault
     \/ fault' = TRUE /\ UNCHANGED <<created, up>>
  /\ UNCHANGED <<hasLb, lb, known, listed, header, target, solo>>

\* Then the cluster is read into a new struct; without a load balancer that is all.
GetNew(t) ==
  /\ At(t, "getNew")
  /\ \/ /\ known' = [known EXCEPT ![Cmd[t]] = created]
        /\ Goto(t, IF hasLb THEN "get" ELSE "ok") /\ UNCHANGED fault
     \/ Fails(t) /\ UNCHANGED known
  /\ UNCHANGED <<docker, lb, listed, header, target, solo>>
-----------------------------------------------------------------------------
(* UpdateLoadbalancerConfig *)

\* Mutated form of Get: the cluster is not read again.
GetNothing(t) ==
  /\ At(t, "get") /\ ~Cancelled(t) /\ Goto(t, "generate")
  /\ UNCHANGED <<docker, lb, known, listed, header, target, fault, solo>>

\* ClusterGet lists the containers of the cluster.  When that fails it returns a nil
\* cluster, which the error path dereferences: the process dies.
Get(t) ==
  /\ At(t, "get")
  /\ \/ /\ ~Cancelled(t) /\ Goto(t, "merge") /\ UNCHANGED fault
        /\ listed' = [listed EXCEPT ![t] = created]
        /\ header' = [header EXCEPT ![t] = known[Cmd[t]]]
     \/ Crashes(Cmd[t]) /\ fault' = TRUE /\ UNCHANGED <<listed, header>>
  /\ UNCHANGED <<docker, lb, known, target, solo>>

\* It appends them to the struct, from which nothing is ever removed, without a lock: what
\* another goroutine of the command appended in the meantime may be overwritten.
Merge(t) ==
  /\ At(t, "merge") /\ Goto(t, "generate")
  /\ \E base \in {known[Cmd[t]], header[t]} :
       known' = [known EXCEPT ![Cmd[t]] = base \cup listed[t]]
  /\ UNCHANGED <<docker, lb, listed, header, target, fault, solo>>

\* Mutated form of Generate: the servers of the command only.
GenerateNew(t) ==
  /\ At(t, "generate") /\ hasLb
  /\ target' = [target EXCEPT ![t] = {Of[u] : u \in TasksOf(Cmd[t])} \cap created]
  /\ Goto(t, "write") /\ UNCHANGED <<docker, lb, known, listed, header, fault, solo>>

\* GetLoadbalancerConfig and LoadbalancerGenerateConfig.  A cluster without a load balancer
\* gets one without a node in the struct, and reading from no node kills the process.
Generate(t) ==
  /\ At(t, "generate")
  /\ \/ hasLb /\ ~Cancelled(t) /\ target' = [target EXCEPT ![t] = known[Cmd[t]]]
              /\ Goto(t, "write") /\ UNCHANGED fault
     \/ hasLb /\ Fails(t) /\ UNCHANGED target
     \/ ~hasLb /\ Crashes(Cmd[t]) /\ UNCHANGED <<target, fault>>
  /\ UNCHANGED <<docker, lb, known, listed, header, solo>>

Write(t) ==
  /\ At(t, "write")
  /\ \/ /\ ~Cancelled(t) /\ conf' = target[t] /\ seenConf' = FALSE
        /\ log' = [log EXCEPT ![t] = {}]
        /\ Goto(t, "wait") /\ UNCHANGED fault
     \/ Fails(t) /\ UNCHANGED <<conf, seenConf, log>>
  /\ UNCHANGED <<docker, active, known, listed, header, target, solo>>

\* Mutated form of Wait: it has no deadline.
WaitForReload(t) ==
  /\ At(t, "wait") /\ "reload" \in log[t]
  /\ Goto(t, "ok") /\ UNCHANGED <<docker, lb, known, listed, header, target, fault, solo>>

\* Five seconds for "start worker processes", then five for "host not found in upstream",
\* which the callers do not take for an error.
Wait(t) ==
  /\ At(t, "wait")
  /\ \/ ~Cancelled(t) /\ log[t] # {} /\ Goto(t, "ok") /\ UNCHANGED fault
     \/ Fails(t)
  /\ UNCHANGED <<docker, lb, known, listed, header, target, solo>>

\* confd in the load balancer: a file that changed is checked by nginx, which has to resolve
\* every server's name, and used if the check succeeds.
Confd ==
  /\ hasLb /\ ~seenConf /\ seenConf' = TRUE
  /\ LET ok == conf \subseteq up
     IN  /\ active' = IF ok THEN conf ELSE active
         /\ log' = [t \in Tasks |-> IF pc[t] = "wait"
                      THEN log[t] \cup {IF ok THEN "reload" ELSE "reject"} ELSE log[t]]
  /\ UNCHANGED <<docker, conf, known, pc, listed, header, target, fault, solo>>
-----------------------------------------------------------------------------
Update(t) == Get(t) \/ Merge(t) \/ Generate(t) \/ Write(t) \/ Wait(t)
NodeOp(t) == Create(t) \/ Start(t) \/ Delete(t) \/ GetNew(t)

Next ==
  \/ \E c \in Commands : BeginAdd(c) \/ BeginDelete(c)
  \/ \E t \in Tasks : NodeOp(t) \/ Update(t)
  \/ Confd

Spec == Init /\ [][Next]_vars
\* Runtime calls return and the waits of the update have deadlines.  Nothing is assumed of
\* confd, nor of a new node, which may never become ready.
FairSpec == Spec /\ \A t \in Tasks : WF_vars(Update(t))
-----------------------------------------------------------------------------
\* The runtime's, the load balancer's and the commands' state keep their types.
TypeOK ==
  /\ created \subseteq Servers /\ up \subseteq created /\ hasLb \in BOOLEAN
  /\ conf \subseteq Servers /\ seenConf \in BOOLEAN /\ active \subseteq Servers
  /\ log \in [Tasks -> SUBSET {"reload", "reject"}]
  /\ known \in [Commands -> SUBSET Servers]
  /\ pc \in [Tasks -> {"idle"} \cup Working \cup Terminal]
  /\ listed \in [Tasks -> SUBSET Servers] /\ header \in [Tasks -> SUBSET Servers]
  /\ target \in [Tasks -> SUBSET Servers]
  /\ fault \in BOOLEAN /\ solo \subseteq Commands

\* However many commands overlap, race or fail, a server that was there in the beginning
\* and that no command deletes is always configured and always forwarded to.
Stable == Initial \ {Of[t] : t \in DelTasks}
StableServersRouted == Stable \subseteq conf /\ Stable \subseteq active

\* A command that meets no other one and adds or deletes a single server ends well only
\* when the configuration names exactly the servers that exist, and is in use unless one
\* of them is down.
SoloUpdateExact ==
  [][\A t \in Tasks :
       Cmd[t] \in solo /\ TasksOf(Cmd[t]) = {t} /\ pc[t] = "wait" /\ pc'[t] = "ok"
         => conf = created /\ (active = created \/ ~(created \subseteq up))]_vars

\* An update that has begun ends: no command waits for the load balancer for ever.
UpdateEnds ==
  \A t \in Tasks : pc[t] \in {"get", "merge", "generate", "write", "wait"} ~> pc[t] \in Terminal
=============================================================================
