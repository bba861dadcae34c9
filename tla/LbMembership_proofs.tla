------------------------- MODULE LbMembership_proofs -------------------------
(***************************************************************************)
(* For any set of commands, with any number of servers each: the types, that *)
(* no interleaving, race or failure takes a server that nobody deletes out  *)
(* of the load balancer, and that a command for one server which meets no   *)
(* other one leaves exactly the servers there are in the configuration.     *)
(***************************************************************************)
EXTENDS LbMembership, TLAPS

\* Every task's server is a server and its command a command.
LEMMA TasksTyped == \A t \in Tasks : Of[t] \in Servers /\ Cmd[t] \in Commands
  BY DEF Servers, Commands

PCs == {"idle"} \cup Working \cup Terminal

\* Control states reached by moving one task, or all tasks of a command, are control states.
LEMMA PCsTyped ==
  ASSUME pc \in [Tasks -> PCs], NEW t, NEW c, NEW q \in PCs
  PROVE  /\ Goto(t, q) => pc' \in [Tasks -> PCs]
         /\ Fails(t) => pc' \in [Tasks -> PCs]
         /\ Crashes(c) => pc' \in [Tasks -> PCs]
         /\ Begins(c, q) => pc' \in [Tasks -> PCs]
  BY DEF Goto, Fails, Crashes, Begins, PCs, Terminal, Working

\* The initial state has the types of TypeOK.
LEMMA TypeInit == Init => TypeOK
  BY DEF Init, TypeOK, Servers

\* Every step keeps them.
LEMMA TypeStep == TypeOK /\ [Next]_vars => TypeOK'
<1> SUFFICES ASSUME TypeOK, [Next]_vars PROVE TypeOK'
  OBVIOUS
<1> DEFINE World == /\ created \subseteq Servers /\ up \subseteq created /\ hasLb \in BOOLEAN
                    /\ conf \subseteq Servers /\ seenConf \in BOOLEAN /\ active \subseteq Servers
           Logs == log \in [Tasks -> SUBSET {"reload", "reject"}]
           Structs == known \in [Commands -> SUBSET Servers]
           Control == pc \in [Tasks -> PCs]
           Locals == /\ listed \in [Tasks -> SUBSET Servers] /\ header \in [Tasks -> SUBSET Servers]
                     /\ target \in [Tasks -> SUBSET Servers]
           History == fault \in BOOLEAN /\ solo \subseteq Commands
<1>1. World /\ Logs /\ Structs /\ Control /\ Locals /\ History
  BY DEF TypeOK, PCs
<1>2. /\ "create" \in PCs /\ "start" \in PCs /\ "delete" \in PCs /\ "getNew" \in PCs
      /\ "get" \in PCs /\ "merge" \in PCs /\ "generate" \in PCs /\ "write" \in PCs
      /\ "wait" \in PCs /\ "ok" \in PCs
  BY DEF PCs, Working, Terminal
<1>3. SUFFICES World' /\ Logs' /\ Structs' /\ Control' /\ Locals' /\ History'
  BY DEF TypeOK, PCs
<1>4. CASE UNCHANGED vars
  BY <1>1, <1>4 DEF vars
<1>5. ASSUME NEW c \in Commands, BeginAdd(c) \/ BeginDelete(c)
      PROVE World' /\ Logs' /\ Structs' /\ Control' /\ Locals' /\ History'
  <2>1. Control'
    BY <1>1, <1>2, <1>5, PCsTyped DEF BeginAdd, BeginDelete
  <2>2. Structs'
    BY <1>1, <1>5 DEF BeginAdd, BeginDelete
  <2>3. History'
    BY <1>1, <1>5 DEF BeginAdd, BeginDelete, Begins
  <2> QED
    BY <1>1, <1>5, <2>1, <2>2, <2>3 DEF BeginAdd, BeginDelete, Begins, docker, lb
<1>6. ASSUME NEW t \in Tasks, Create(t) \/ Start(t) \/ Delete(t) \/ GetNew(t)
      PROVE World' /\ Logs' /\ Structs' /\ Control' /\ Locals' /\ History'
  <2>1. Control'
    BY <1>1, <1>2, <1>6, PCsTyped DEF Create, Start, Delete, GetNew
  <2>2. World'
    BY <1>1, <1>6, TasksTyped DEF Create, Start, Delete, GetNew, docker, lb
  <2>3. Structs'
    BY <1>1, <1>6 DEF Create, Start, Delete, GetNew
  <2>4. Logs' /\ Locals' /\ History'
    BY <1>1, <1>6 DEF Create, Start, Delete, GetNew, lb, Fails
  <2> QED
    BY <2>1, <2>2, <2>3, <2>4
<1>7. ASSUME NEW t \in Tasks, Get(t) \/ Merge(t)
      PROVE World' /\ Logs' /\ Structs' /\ Control' /\ Locals' /\ History'
  <2>1. Control'
    BY <1>1, <1>2, <1>7, PCsTyped DEF Get, Merge
  <2>2. Structs'
    BY <1>1, <1>7, TasksTyped DEF Get, Merge
  <2>3. Locals'
    BY <1>1, <1>7, TasksTyped DEF Get, Merge
  <2>4. World' /\ Logs' /\ History'
    BY <1>1, <1>7 DEF Get, Merge, docker, lb
  <2> QED
    BY <2>1, <2>2, <2>3, <2>4
<1>8. ASSUME NEW t \in Tasks, Generate(t) \/ Write(t) \/ Wait(t)
      PROVE World' /\ Logs' /\ Structs' /\ Control' /\ Locals' /\ History'
  <2>1. Control'
    BY <1>1, <1>2, <1>8, PCsTyped DEF Generate, Write, Wait
  <2>2. Locals'
    BY <1>1, <1>8, TasksTyped DEF Generate, Write, Wait
  <2>3. World' /\ Logs'
    BY <1>1, <1>8 DEF Generate, Write, Wait, docker, lb
  <2>4. Structs' /\ History'
    BY <1>1, <1>8 DEF Generate, Write, Wait, Fails
  <2> QED
    BY <2>1, <2>2, <2>3, <2>4
<1>9. ASSUME Confd
      PROVE World' /\ Logs' /\ Structs' /\ Control' /\ Locals' /\ History'
  BY <1>1, <1>9 DEF Confd, docker
<1> QED
  BY <1>4, <1>5, <1>6, <1>7, <1>8, <1>9 DEF Next, NodeOp, Update

\* Type correctness of LbMembership for every set of tasks and commands.
THEOREM TypeCorrect == Spec => []TypeOK
  BY TypeInit, TypeStep, PTL DEF Spec

-----------------------------------------------------------------------------
\* A task is on the path of its kind.
OnPath(t) ==
  /\ pc[t] \in {"create", "start"} => t \in AddTasks
  /\ pc[t] \in {"delete", "getNew"} => t \in DelTasks

\* What a task will generate its configuration from has the stable servers: the struct of
\* its command from the first read on, the slice it appends to, the generated target.
Informed(t) ==
  /\ pc[t] \in {"create", "start", "get", "merge", "generate"} => Stable \subseteq known[Cmd[t]]
  /\ pc[t] = "merge" => Stable \subseteq header[t]
  /\ pc[t] = "write" => Stable \subseteq target[t]

IInv ==
  /\ Stable \subseteq created
  /\ \A t \in Tasks : OnPath(t) /\ Informed(t)
  /\ StableServersRouted

\* Every step keeps the inductive invariant.
LEMMA StableStep == TypeOK /\ IInv /\ [Next]_vars => IInv'
<1> SUFFICES ASSUME TypeOK, IInv, [Next]_vars PROVE IInv'
  OBVIOUS
<1>1. /\ Stable \subseteq created /\ Stable \subseteq conf /\ Stable \subseteq active
      /\ \A t \in Tasks : OnPath(t) /\ Informed(t)
      /\ pc \in [Tasks -> PCs] /\ known \in [Commands -> SUBSET Servers]
      /\ header \in [Tasks -> SUBSET Servers] /\ target \in [Tasks -> SUBSET Servers]
  BY DEF IInv, StableServersRouted, TypeOK, PCs
<1>2. SUFFICES /\ Stable \subseteq created' /\ Stable \subseteq conf' /\ Stable \subseteq active'
               /\ \A u \in Tasks : OnPath(u)' /\ Informed(u)'
  BY DEF IInv, StableServersRouted, Stable
<1> DEFINE Goal == /\ Stable \subseteq created' /\ Stable \subseteq conf' /\ Stable \subseteq active'
                   /\ \A u \in Tasks : OnPath(u)' /\ Informed(u)'
<1>3. CASE UNCHANGED vars
  BY <1>1, <1>3 DEF vars, OnPath, Informed, Stable
<1>4. ASSUME NEW c \in Commands, BeginAdd(c) PROVE Goal
  <2>1. /\ UNCHANGED <<created, conf, active, header, target>>
        /\ known' = [known EXCEPT ![c] = created]
    BY <1>4 DEF BeginAdd, Begins, docker, lb
  <2>2. ASSUME NEW u \in Tasks PROVE OnPath(u)' /\ Informed(u)'
    <3>1. CASE Cmd[u] = c
      <4>1. u \in AddTasks /\ pc'[u] \in {"create", "failed"}
        BY <1>4, <3>1 DEF BeginAdd, Begins, TasksOf
      <4>2. known'[Cmd[u]] = created
        BY <1>1, <2>1, <3>1, TasksTyped
      <4> QED
        BY <1>1, <4>1, <4>2 DEF OnPath, Informed, Stable
    <3>2. CASE Cmd[u] # c
      <4>1. pc'[u] = pc[u] /\ known'[Cmd[u]] = known[Cmd[u]]
        BY <1>1, <1>4, <2>1, <3>2, TasksTyped DEF BeginAdd, Begins
      <4> QED
        BY <1>1, <2>1, <4>1 DEF OnPath, Informed, Stable
    <3> QED
      BY <3>1, <3>2
  <2> QED
    BY <1>1, <2>1, <2>2
<1>5. ASSUME NEW c \in Commands, BeginDelete(c) PROVE Goal
  <2>1. UNCHANGED <<created, conf, active, header, target, known>>
    BY <1>5 DEF BeginDelete, Begins, docker, lb
  <2>2. PICK d \in DelTasks : Cmd[d] = c
    BY <1>5 DEF BeginDelete, TasksOf
  <2>3. ASSUME NEW u \in Tasks PROVE OnPath(u)' /\ Informed(u)'
    <3>1. CASE Cmd[u] = c
      <4>1. u \in DelTasks
        BY <2>2, <3>1, LbMembershipAssumption
      <4>2. pc'[u] \in {"delete", "failed"}
        BY <1>5, <3>1 DEF BeginDelete, Begins
      <4> QED
        BY <4>1, <4>2 DEF OnPath, Informed
    <3>2. CASE Cmd[u] # c
      <4>1. pc'[u] = pc[u]
        BY <1>5, <3>2 DEF BeginDelete, Begins
      <4> QED
        BY <1>1, <2>1, <4>1 DEF OnPath, Informed, Stable
    <3> QED
      BY <3>1, <3>2
  <2> QED
    BY <1>1, <2>1, <2>3
<1>6. ASSUME NEW t \in Tasks, Create(t) \/ Start(t) PROVE Goal
  <2>1. UNCHANGED <<conf, active, header, target, known>> /\ created \subseteq created'
    BY <1>6 DEF Create, Start, lb
  <2>2. /\ pc'[t] \in {"start", "get", "failed"} /\ pc[t] \in {"create", "start"}
        /\ pc[t] = "start" => pc'[t] \in {"get", "failed"}
        /\ \A u \in Tasks : u # t => pc'[u] = pc[u]
    BY <1>1, <1>6 DEF Create, Start, At, Goto, Fails
  <2>3. \A u \in Tasks : OnPath(u)' /\ Informed(u)'
    BY <1>1, <2>1, <2>2 DEF OnPath, Informed, Stable
  <2> QED
    BY <1>1, <2>1, <2>3
<1>7. ASSUME NEW t \in Tasks, Delete(t) PROVE Goal
  <2>1. UNCHANGED <<conf, active, header, target, known>>
    BY <1>7 DEF Delete, lb
  <2>2. pc[t] = "delete" /\ pc'[t] = "getNew" /\ \A u \in Tasks : u # t => pc'[u] = pc[u]
    BY <1>1, <1>7 DEF Delete, At, Goto
  <2>3. Stable \subseteq created'
    BY <1>1, <1>7, <2>2 DEF Delete, OnPath, Stable
  <2>4. \A u \in Tasks : OnPath(u)' /\ Informed(u)'
    BY <1>1, <2>1, <2>2 DEF OnPath, Informed, Stable
  <2> QED
    BY <1>1, <2>1, <2>3, <2>4
<1>8. ASSUME NEW t \in Tasks, GetNew(t) PROVE Goal
  <2>1. UNCHANGED <<created, conf, active, header, target>>
    BY <1>8 DEF GetNew, docker, lb
  <2>2. pc'[t] \in {"get", "ok", "failed"} /\ \A u \in Tasks : u # t => pc'[u] = pc[u]
    BY <1>1, <1>8 DEF GetNew, Goto, Fails
  <2>3. \/ known' = [known EXCEPT ![Cmd[t]] = created]
        \/ known' = known /\ pc'[t] = "failed"
    BY <1>1, <1>8 DEF GetNew, Fails, Goto
  <2>4. ASSUME NEW u \in Tasks PROVE OnPath(u)' /\ Informed(u)'
    <3>1. known'[Cmd[u]] = known[Cmd[u]] \/ known'[Cmd[u]] = created
      BY <1>1, <2>3, TasksTyped
    <3>2. CASE u = t
      BY <1>1, <2>2, <2>3, <3>2, TasksTyped DEF OnPath, Informed, Stable
    <3>3. CASE u # t
      BY <1>1, <2>1, <2>2, <3>1, <3>3 DEF OnPath, Informed, Stable
    <3> QED
      BY <3>2, <3>3
  <2> QED
    BY <1>1, <2>1, <2>4
<1>9. ASSUME NEW t \in Tasks, Get(t) PROVE Goal
  <2>1. UNCHANGED <<created, conf, active, target, known>>
    BY <1>9 DEF Get, docker, lb
  <2>2. pc[t] = "get"
    BY <1>9 DEF Get, At
  <2>3. CASE Crashes(Cmd[t]) /\ UNCHANGED header
    BY <1>1, <2>1, <2>3 DEF Crashes, OnPath, Informed, Stable
  <2>4. CASE Goto(t, "merge") /\ header' = [header EXCEPT ![t] = known[Cmd[t]]]
    <3>1. /\ pc'[t] = "merge" /\ header'[t] = known[Cmd[t]]
          /\ \A u \in Tasks : u # t => pc'[u] = pc[u] /\ header'[u] = header[u]
      BY <1>1, <2>4 DEF Goto
    <3> QED
      BY <1>1, <2>1, <2>2, <3>1 DEF OnPath, Informed, Stable
  <2> QED
    BY <1>9, <2>3, <2>4 DEF Get
<1>10. ASSUME NEW t \in Tasks, Merge(t) PROVE Goal
  <2>1. UNCHANGED <<created, conf, active, header, target>>
    BY <1>10 DEF Merge, docker, lb
  <2>2. /\ pc[t] = "merge" /\ pc'[t] = "generate"
        /\ \A u \in Tasks : u # t => pc'[u] = pc[u]
    BY <1>1, <1>10 DEF Merge, At, Goto
  <2>3. PICK base \in {known[Cmd[t]], header[t]} :
          known' = [known EXCEPT ![Cmd[t]] = base \cup listed[t]]
    BY <1>10 DEF Merge
  <2>4. Stable \subseteq base
    BY <1>1, <2>2, <2>3 DEF Informed
  <2>5. \A u \in Tasks : known'[Cmd[u]] = known[Cmd[u]] \/ Stable \subseteq known'[Cmd[u]]
    BY <1>1, <2>3, <2>4, TasksTyped
  <2>6. Stable \subseteq known'[Cmd[t]]
    BY <1>1, <2>3, <2>4, TasksTyped
  <2>7. \A u \in Tasks : OnPath(u)' /\ Informed(u)'
    BY <1>1, <2>1, <2>2, <2>5, <2>6 DEF OnPath, Informed, Stable
  <2> QED
    BY <1>1, <2>1, <2>7
<1>11. ASSUME NEW t \in Tasks, Generate(t) PROVE Goal
  <2>1. UNCHANGED <<created, conf, active, header, known>> /\ pc[t] = "generate"
    BY <1>11 DEF Generate, At, docker, lb
  <2>2. CASE Crashes(Cmd[t]) /\ UNCHANGED target
    BY <1>1, <2>1, <2>2 DEF Crashes, OnPath, Informed, Stable
  <2>3. CASE Fails(t) /\ UNCHANGED target
    BY <1>1, <2>1, <2>3 DEF Fails, Goto, OnPath, Informed, Stable
  <2>4. CASE Goto(t, "write") /\ target' = [target EXCEPT ![t] = known[Cmd[t]]]
    <3>1. /\ pc'[t] = "write" /\ target'[t] = known[Cmd[t]]
          /\ \A u \in Tasks : u # t => pc'[u] = pc[u] /\ target'[u] = target[u]
      BY <1>1, <2>4 DEF Goto
    <3> QED
      BY <1>1, <2>1, <3>1 DEF OnPath, Informed, Stable
  <2> QED
    BY <1>11, <2>2, <2>3, <2>4 DEF Generate
<1>12. ASSUME NEW t \in Tasks, Write(t) \/ Wait(t) PROVE Goal
  <2>1. UNCHANGED <<created, active, header, known, target>>
    BY <1>12 DEF Write, Wait, docker, lb
  <2>2. pc'[t] \in {"wait", "ok", "failed"} /\ \A u \in Tasks : u # t => pc'[u] = pc[u]
    BY <1>1, <1>12 DEF Write, Wait, Goto, Fails
  <2>3. conf' = conf \/ (conf' = target[t] /\ pc[t] = "write")
    BY <1>12 DEF Write, Wait, At, lb
  <2>4. Stable \subseteq conf'
    BY <1>1, <2>3 DEF Informed
  <2>5. \A u \in Tasks : OnPath(u)' /\ Informed(u)'
    BY <1>1, <2>1, <2>2 DEF OnPath, Informed, Stable
  <2> QED
    BY <1>1, <2>1, <2>4, <2>5
<1>13. ASSUME Confd PROVE Goal
  <2>1. UNCHANGED <<created, conf, header, known, target, pc>> /\ active' \in {conf, active}
    BY <1>13 DEF Confd, docker
  <2> QED
    BY <1>1, <2>1 DEF OnPath, Informed, Stable
<1> QED
  BY <1>3, <1>4, <1>5, <1>6, <1>7, <1>8, <1>9, <1>10, <1>11, <1>12, <1>13
  DEF Next, NodeOp, Update

\* Whatever commands overlap, race or fail, a server that was there in the beginning and
\* that nobody deletes stays in the configuration and in use.
THEOREM StableServersStayRouted == Spec => []StableServersRouted
<1>1. Init => IInv
  BY DEF Init, IInv, OnPath, Informed, StableServersRouted, Stable
<1>2. IInv => StableServersRouted
  BY DEF IInv
<1> QED
  BY <1>1, <1>2, StableStep, TypeCorrect, PTL DEF Spec
-----------------------------------------------------------------------------
\* What the only task of a command that has met no other one knows, while it works: what it
\* read is still so, since nobody else changes the cluster.
Exact(t) ==
  /\ \A u \in Tasks : pc[u] \in Working => u = t
  /\ pc[t] \in {"create", "start", "get"} => known[Cmd[t]] \subseteq created
  /\ pc[t] = "merge" => /\ listed[t] = created
                        /\ header[t] \subseteq created /\ known[Cmd[t]] \subseteq created
  /\ pc[t] = "generate" => known[Cmd[t]] = created
  /\ pc[t] = "write" => target[t] = created
  /\ pc[t] = "wait" => /\ conf = created
                       /\ log[t] # {} => active = created \/ ~(created \subseteq up)

\* The invariant that carries SoloUpdateExact.
SoloInv ==
  \A t \in Tasks : Cmd[t] \in solo =>
    pc[t] # "idle" /\ (TasksOf(Cmd[t]) = {t} /\ pc[t] \in Working => Exact(t))

\* A step of a task: it was at work, no other one begins to be, and no command is added.
AtWork(t) ==
  /\ pc[t] \in Working /\ solo' = solo /\ pc'[t] # "idle"
  /\ \A u \in Tasks : u # t => pc'[u] \in {pc[u], "crashed"}

LEMMA StepIsAtWork ==
  ASSUME TypeOK, NEW t \in Tasks, NodeOp(t) \/ Update(t)
  PROVE  AtWork(t)
<1> DEFINE Moves(q) == Goto(t, q) \/ Fails(t) \/ Crashes(Cmd[t])
<1>1. ASSUME NEW q, q # "idle", Moves(q)
      PROVE  pc'[t] # "idle" /\ \A u \in Tasks : u # t => pc'[u] \in {pc[u], "crashed"}
  BY <1>1 DEF Goto, Fails, Crashes, TypeOK
<1>2. \/ Moves("start") \/ Moves("get") \/ Moves("getNew") \/ Moves("ok") \/ Moves("merge")
      \/ Moves("generate") \/ Moves("write") \/ Moves("wait")
  BY DEF NodeOp, Update, Create, Start, Delete, GetNew, Get, Merge, Generate, Write, Wait
<1>3. pc[t] \in Working /\ solo' = solo
  BY DEF NodeOp, Update, Create, Start, Delete, GetNew, Get, Merge, Generate, Write, Wait, At, Working
<1> HIDE DEF Moves
<1>4. pc'[t] # "idle" /\ \A u \in Tasks : u # t => pc'[u] \in {pc[u], "crashed"}
  BY <1>1, <1>2
<1> QED
  BY <1>3, <1>4 DEF AtWork

\* What the step of such a task does to what it knows.
LEMMA ExactStep ==
  ASSUME TypeOK, NEW t \in Tasks, NodeOp(t) \/ Update(t), Exact(t), TasksOf(Cmd[t]) = {t},
         pc'[t] \in Working
  PROVE  Exact(t)'
<1> USE DEF Exact
<1>c. Cmd[t] \in Commands
  BY TasksTyped
<1>1. \A u \in Tasks : pc'[u] \in Working => u = t
  BY StepIsAtWork DEF AtWork, Working
<1>2. ~Fails(t) /\ ~Crashes(Cmd[t])
  BY DEF Fails, Crashes, Goto, TypeOK, Working
<1>3. CASE Create(t) \/ Start(t)
  <2>1. /\ pc[t] \in {"create", "start"} /\ pc'[t] \in {"start", "get"}
        /\ UNCHANGED known /\ created \subseteq created'
    BY <1>2, <1>3 DEF Create, Start, At, Goto, TypeOK
  <2> QED
    BY <1>1, <2>1
<1>4. CASE Delete(t)
  <2>1. pc'[t] = "getNew"
    BY <1>4 DEF Delete, Goto, TypeOK
  <2> QED
    BY <1>1, <2>1
<1>5. CASE GetNew(t)
  <2>1. pc'[t] = "get" /\ known'[Cmd[t]] = created /\ UNCHANGED created
    BY <1>2, <1>5, <1>c DEF GetNew, Goto, TypeOK, Working, docker
  <2> QED
    BY <1>1, <2>1
<1>6. CASE Get(t)
  <2>1. /\ pc[t] = "get" /\ pc'[t] = "merge" /\ listed'[t] = created
        /\ header'[t] = known[Cmd[t]] /\ UNCHANGED <<created, known>>
    BY <1>2, <1>6 DEF Get, At, Goto, TypeOK, docker
  <2> QED
    BY <1>1, <2>1
<1>7. CASE Merge(t)
  <2>1. pc[t] = "merge" /\ pc'[t] = "generate" /\ UNCHANGED created
    BY <1>7 DEF Merge, At, Goto, TypeOK, docker
  <2>2. PICK base \in {known[Cmd[t]], header[t]} : known'[Cmd[t]] = base \cup listed[t]
    BY <1>7, <1>c DEF Merge, TypeOK
  <2>3. known'[Cmd[t]] = created
    BY <2>1, <2>2
  <2> QED
    BY <1>1, <2>1, <2>3
<1>8. CASE Generate(t)
  <2>1. pc[t] = "generate" /\ pc'[t] = "write" /\ target'[t] = known[Cmd[t]] /\ UNCHANGED created
    BY <1>2, <1>8 DEF Generate, At, Goto, TypeOK, docker
  <2> QED
    BY <1>1, <2>1
<1>9. CASE Write(t)
  <2>1. pc[t] = "write" /\ pc'[t] = "wait" /\ conf' = target[t] /\ log'[t] = {} /\ UNCHANGED created
    BY <1>2, <1>9 DEF Write, At, Goto, TypeOK, docker
  <2> QED
    BY <1>1, <2>1
<1>10. CASE Wait(t)
  BY <1>2, <1>10 DEF Wait, Goto, TypeOK, Working
<1> QED
  BY <1>3, <1>4, <1>5, <1>6, <1>7, <1>8, <1>9, <1>10 DEF NodeOp, Update

\* Every step keeps what the commands that have met no other know.
LEMMA SoloStep == TypeOK /\ SoloInv /\ [Next]_vars => SoloInv'
<1> SUFFICES ASSUME TypeOK, SoloInv, [Next]_vars, NEW t \in Tasks, Cmd[t] \in solo'
             PROVE  pc'[t] # "idle" /\ (TasksOf(Cmd[t]) = {t} /\ pc'[t] \in Working => Exact(t)')
  BY DEF SoloInv, TasksOf
<1>c. Cmd[t] \in Commands
  BY TasksTyped
<1>1. CASE UNCHANGED vars
  BY <1>1 DEF vars, SoloInv, Exact
<1>2. ASSUME NEW c \in Commands, BeginAdd(c) \/ BeginDelete(c)
      PROVE  pc'[t] # "idle" /\ (TasksOf(Cmd[t]) = {t} /\ pc'[t] \in Working => Exact(t)')
  <2> DEFINE others == {d \in Commands : \E u \in TasksOf(d) : pc[u] \in Working}
  <2>1. /\ \A u \in Tasks : Cmd[u] = c => pc[u] = "idle" /\ pc'[u] \in {"create", "delete", "failed"}
        /\ \A u \in Tasks : Cmd[u] # c => pc'[u] = pc[u]
        /\ solo' = IF others = {} THEN solo \cup {c} ELSE solo \ others
    BY <1>2 DEF BeginAdd, BeginDelete, Begins, TasksOf
  <2>2. \A u \in Tasks : pc[u] \in Working => Cmd[u] \in others
    BY TasksTyped DEF TasksOf
  <2> HIDE DEF others
  <2>3. CASE others = {}
    <3>1. \A u \in Tasks : pc'[u] \in Working => Cmd[u] = c
      BY <2>1, <2>2, <2>3
    <3>2. CASE Cmd[t] = c
      <4>1. ASSUME TasksOf(c) = {t} PROVE \A u \in Tasks : pc'[u] \in Working => u = t
        BY <3>1, <4>1 DEF TasksOf
      <4>2. pc'[t] = "create" => known'[c] \subseteq created'
        <5>1. ASSUME pc'[t] = "create" PROVE BeginAdd(c)
          BY <1>2, <3>2, <5>1 DEF BeginDelete, Begins
        <5>2. BeginAdd(c) => known'[c] = created /\ created' = created
          BY DEF BeginAdd, Begins, docker, TypeOK
        <5> QED
          BY <5>1, <5>2
      <4> QED
        BY <2>1, <3>2, <4>1, <4>2 DEF Exact
    <3>3. CASE Cmd[t] # c
      BY <2>1, <2>3, <3>1, <3>3 DEF SoloInv
    <3> QED
      BY <3>2, <3>3
  <2>4. CASE others # {}
    BY <2>1, <2>2, <2>4 DEF SoloInv
  <2> QED
    BY <2>3, <2>4
<1>3. ASSUME NEW u \in Tasks, NodeOp(u) \/ Update(u)
      PROVE  pc'[t] # "idle" /\ (TasksOf(Cmd[t]) = {t} /\ pc'[t] \in Working => Exact(t)')
  <2>1. AtWork(u)
    BY <1>3, StepIsAtWork
  <2>2. Cmd[t] \in solo /\ pc[t] # "idle" /\ pc'[t] # "idle"
    BY <2>1 DEF AtWork, SoloInv
  <2>3. ASSUME TasksOf(Cmd[t]) = {t}, pc'[t] \in Working PROVE Exact(t)'
    <3>1. pc[t] \in Working
      BY <2>1, <2>3 DEF AtWork, Working
    <3>2. Exact(t)
      BY <2>2, <2>3, <3>1 DEF SoloInv
    <3>3. u = t
      BY <2>1, <3>2 DEF AtWork, Exact
    <3> QED
      BY <1>3, <2>3, <3>2, <3>3, ExactStep
  <2> QED
    BY <2>2, <2>3
<1>4. CASE Confd
  <2>1. /\ UNCHANGED <<created, up, conf, known, pc, listed, header, target, solo>>
        /\ active' = IF conf \subseteq up THEN conf ELSE active
    BY <1>4 DEF Confd, docker
  <2>2. pc[t] # "idle"
    BY <2>1 DEF SoloInv
  <2>3. ASSUME TasksOf(Cmd[t]) = {t}, pc[t] \in Working PROVE Exact(t)'
    <3>1. Exact(t)
      BY <2>1, <2>3 DEF SoloInv
    <3>2. pc[t] = "wait" => active' = created \/ ~(created \subseteq up)
      BY <2>1, <3>1 DEF Exact
    <3> QED
      BY <2>1, <3>1, <3>2 DEF Exact
  <2> QED
    BY <2>1, <2>2, <2>3
<1> QED
  BY <1>1, <1>2, <1>3, <1>4 DEF Next

\* A command that meets no other one and adds or deletes a single server ends well only when
\* the load balancer's configuration names the servers that exist, no more and no fewer, and
\* is in use unless one of them is down.
THEOREM SoloUpdateIsExact == Spec => SoloUpdateExact
<1>1. Init => SoloInv
  BY DEF Init, SoloInv
<1>2. TypeOK /\ SoloInv /\ [Next]_vars =>
        [\A t \in Tasks :
           Cmd[t] \in solo /\ TasksOf(Cmd[t]) = {t} /\ pc[t] = "wait" /\ pc'[t] = "ok"
             => conf = created /\ (active = created \/ ~(created \subseteq up))]_vars
  <2> SUFFICES ASSUME TypeOK, SoloInv, [Next]_vars, NEW t \in Tasks, Cmd[t] \in solo,
                      TasksOf(Cmd[t]) = {t}, pc[t] = "wait", pc'[t] = "ok"
               PROVE  conf = created /\ (active = created \/ ~(created \subseteq up))
    OBVIOUS
  <2>1. Exact(t)
    BY DEF SoloInv, Working
  <2>2. ~UNCHANGED vars /\ ~Confd
    BY DEF vars, Confd
  <2>3. ASSUME NEW c \in Commands, BeginAdd(c) \/ BeginDelete(c) PROVE FALSE
    BY <2>3 DEF BeginAdd, BeginDelete, Begins, TasksOf
  <2>4. PICK u \in Tasks : NodeOp(u) \/ Update(u)
    BY <2>2, <2>3 DEF Next
  <2>5. u = t
    BY <2>1, <2>4, StepIsAtWork DEF AtWork, Exact
  <2>6. log[t] # {}
    BY <2>4, <2>5 DEF NodeOp, Update, Create, Start, Delete, GetNew, Get, Merge, Generate, Write, Wait,
       At, Goto, Fails, TypeOK
  <2> QED
    BY <2>1, <2>6 DEF Exact
<1> QED
  BY <1>1, <1>2, SoloStep, TypeCorrect, PTL DEF Spec, SoloUpdateExact
=============================================================================
