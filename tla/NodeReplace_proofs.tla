-------------------------- MODULE NodeReplace_proofs --------------------------
(***************************************************************************)
(* For any number of overlapping edits: the types, that the load balancer's *)
(* containers are never all gone, and what an edit that met no other one    *)
(* leaves when it succeeds and when it fails.                               *)
(***************************************************************************)
EXTENDS NodeReplace, TLAPS

\* The initial state has the types of TypeOK.
LEMMA TypeInit == Init => TypeOK
<1> SUFFICES ASSUME Init PROVE TypeOK
  OBVIOUS
<1> PICK b \in BOOLEAN : run = [c \in Containers |-> c = Orig /\ b]
  BY DEF Init
<1>1. run \in [Containers -> BOOLEAN]
  <2>1. \A c \in Containers : (c = Orig /\ b) \in BOOLEAN
    OBVIOUS
  <2> QED
    BY <2>1, Zenon
<1>2. \A c \in Containers : name[c] = NoName => ~run[c]
  BY NodeReplaceAssumption DEF Init, Containers
<1>3. name \in [Containers -> {LbName, NoName} \cup Editors]
  BY DEF Init
<1>4. pc \in [Editors -> {"idle"} \cup Working \cup Terminal] /\ ran \in [Editors -> BOOLEAN]
  BY DEF Init
<1> QED
  BY <1>1, <1>2, <1>3, <1>4 DEF Init, TypeOK

\* Every step of a command, and every stuttering step, keeps them.
LEMMA TypeStep == TypeOK /\ [Next]_vars => TypeOK'
<1> SUFFICES ASSUME TypeOK, [Next]_vars PROVE TypeOK'
  OBVIOUS
<1> USE NodeReplaceAssumption DEF TypeOK, Containers, Working, Terminal
<1>1. CASE UNCHANGED vars
  BY <1>1 DEF vars
<1>2. ASSUME NEW e \in Editors, NodeGet(e) PROVE TypeOK'
  <2>1. ran' \in [Editors -> BOOLEAN] /\ pc' \in [Editors -> {"idle"} \cup Working \cup Terminal]
    BY <1>2 DEF NodeGet, Goto, Named
  <2>2. solo' \subseteq Editors
    BY <1>2 DEF NodeGet
  <2>3. name' = name /\ run' = run
    BY <1>2 DEF NodeGet, docker
  <2>4. /\ name' \in [Containers -> {LbName, NoName} \cup Editors] /\ run' \in [Containers -> BOOLEAN]
        /\ \A c \in Containers : name'[c] = NoName => ~run'[c]
    BY <2>3
  <2> QED
    BY <2>1, <2>2, <2>4, Zenon
<1>3. ASSUME NEW e \in Editors, RenameOld(e) PROVE TypeOK'
  BY <1>3 DEF RenameOld, Step, Goto, Rename, Named, docker
<1>4. ASSUME NEW e \in Editors, CreateNew(e) PROVE TypeOK'
  BY <1>4 DEF CreateNew, Step, Goto, Named, docker
<1>5. ASSUME NEW e \in Editors, RenameBack(e) PROVE TypeOK'
  BY <1>5 DEF RenameBack, Step, Goto, Rename, Named, docker
<1>6. ASSUME NEW e \in Editors, StopOld(e) PROVE TypeOK'
  <2>1. name' = name /\ pc' \in [Editors -> {"idle"} \cup Working \cup Terminal] /\ UNCHANGED <<ran, solo>>
    BY <1>6 DEF StopOld, Step, Goto, docker
  <2>2. run' = run \/ \E c \in Containers : run' = [run EXCEPT ![c] = FALSE]
    BY <1>6 DEF StopOld, Named, docker
  <2>3. run' \in [Containers -> BOOLEAN] /\ \A c \in Containers : run'[c] => run[c]
    BY <2>2
  <2> QED
    BY <2>1, <2>3
<1>7. ASSUME NEW e \in Editors, StartNew(e) PROVE TypeOK'
  <2>1. CASE UNCHANGED docker
    BY <1>7, <2>1 DEF StartNew, Step, Goto, docker
  <2>2. CASE StartNamed(LbName)
    <3>1. PICK c \in Containers : name[c] = LbName /\ run' = [run EXCEPT ![c] = TRUE]
      BY <2>2 DEF StartNamed, Named
    <3> QED
      BY <1>7, <2>2, <3>1 DEF StartNew, Step, Goto, StartNamed
  <2> QED
    BY <1>7, <2>1, <2>2 DEF StartNew
<1>8. ASSUME NEW e \in Editors, WaitReady(e) PROVE TypeOK'
  BY <1>8 DEF WaitReady, Step, Goto, docker
<1>9. ASSUME NEW e \in Editors, DeleteNew(e) PROVE TypeOK'
  BY <1>9 DEF DeleteNew, Step, Goto, Remove, Named, docker
<1>10. ASSUME NEW e \in Editors, RenameOldBack(e) PROVE TypeOK'
  BY <1>10 DEF RenameOldBack, Step, Goto, Rename, Named, docker
<1>11. ASSUME NEW e \in Editors, RestartOld(e) PROVE TypeOK'
  <2>1. CASE UNCHANGED docker
    BY <1>11, <2>1 DEF RestartOld, Step, Goto, docker
  <2>2. CASE StartNamed(LbName)
    <3>1. PICK c \in Containers : name[c] = LbName /\ run' = [run EXCEPT ![c] = TRUE]
      BY <2>2 DEF StartNamed, Named
    <3> QED
      BY <1>11, <2>2, <3>1 DEF RestartOld, Step, Goto, StartNamed
  <2> QED
    BY <1>11, <2>1, <2>2 DEF RestartOld
<1>12. ASSUME NEW e \in Editors, DeleteOld(e) PROVE TypeOK'
  BY <1>12 DEF DeleteOld, Step, Goto, Remove, Named, docker
<1>13. ASSUME NEW e \in Editors, Kill(e) PROVE TypeOK'
  BY <1>13 DEF Kill, Step, docker
<1> QED
  BY <1>1, <1>2, <1>3, <1>4, <1>5, <1>6, <1>7, <1>8, <1>9, <1>10, <1>11, <1>12, <1>13
  DEF Next, Edit

\* Type correctness of NodeReplace for every set of editors.
THEOREM TypeCorrect == Spec => []TypeOK
  BY TypeInit, TypeStep, PTL DEF Spec

\* A container that no command is about to remove as its old one: it has the node's name,
\* or the temporary name of a command that is not past starting its new container.
Kept(c) ==
  \/ name[c] = LbName
  \/ name[c] \in Editors /\ pc[name[c]] \notin {"wait", "deleteOld", "replaced"}

\* The old container of a command between its two renames is there, unless it is done with.
OldThere(e) ==
  pc[e] \in {"create", "renameBack", "stop", "start", "wait", "deleteNew", "renameOldBack", "deleteOld"}
    => \E c \in Containers : name[c] = e

\* Before a command creates its container, there is none.
NotYet(e) == pc[e] \in {"idle", "rename", "create"} => name[e] = NoName

\* The invariant that carries the theorem: one container is always kept.
IInv ==
  /\ \A e \in Editors : OldThere(e) /\ NotYet(e)
  /\ \E c \in Containers : Kept(c)

\* Initially the original container has the node's name.
LEMMA KeptInit == Init => IInv
<1> SUFFICES ASSUME Init PROVE IInv
  OBVIOUS
<1>1. name[Orig] = LbName /\ Orig \in Containers
  BY DEF Init, Containers
<1>2. \A e \in Editors : pc[e] = "idle" /\ name[e] = NoName
  BY NodeReplaceAssumption DEF Init, Containers
<1> QED
  BY <1>1, <1>2 DEF IInv, Kept, OldThere, NotYet

\* A step that leaves the runtime alone and does not carry a command into the wait.
LEMMA Bookkeeping ==
  ASSUME TypeOK, IInv, NEW e \in Editors, UNCHANGED docker, NEW q,
         pc' = [pc EXCEPT ![e] = q], q \notin {"idle", "rename", "create", "wait", "replaced"},
         q = "deleteOld" => pc[e] \in {"wait", "deleteOld"},
         q \in {"renameBack", "stop", "start", "deleteNew", "renameOldBack", "deleteOld"} =>
           pc[e] \in {"create", "renameBack", "stop", "start", "wait", "deleteNew", "renameOldBack"}
  PROVE  IInv'
  BY NodeReplaceAssumption DEF IInv, Kept, OldThere, NotYet, TypeOK, docker, Containers

\* A renaming of the container named old, by the command that holds it.
LEMMA Renaming ==
  ASSUME TypeOK, IInv, NEW e \in Editors, NEW q, pc' = [pc EXCEPT ![e] = q],
         \/ q = "create" /\ pc[e] = "rename" /\ Rename(LbName, e)
         \/ q \in {"broughtBack", "restartOld"} /\ Rename(e, LbName)
  PROVE  IInv'
<1>1. PICK c \in Containers : \/ q = "create" /\ pc[e] = "rename" /\ name[c] = LbName /\ name' = [name EXCEPT ![c] = e]
                              \/ q \in {"broughtBack", "restartOld"} /\ name[c] = e
                                   /\ name' = [name EXCEPT ![c] = LbName]
  BY DEF Rename, Named
<1>2. Kept(c)'
  BY <1>1, NodeReplaceAssumption DEF Kept, TypeOK
<1>3. ASSUME NEW f \in Editors PROVE OldThere(f)'
  BY <1>1, NodeReplaceAssumption DEF OldThere, IInv, TypeOK
<1>4. ASSUME NEW f \in Editors PROVE NotYet(f)'
  BY <1>1, NodeReplaceAssumption DEF NotYet, IInv, TypeOK, Containers
<1> QED
  BY <1>2, <1>3, <1>4 DEF IInv, Containers

\* A removal: of the container of the node's name by a command that still has its old one,
\* or of the old one by a command that is done with it.
LEMMA Removing ==
  ASSUME TypeOK, IInv, NEW e \in Editors, NEW q, pc' = [pc EXCEPT ![e] = q],
         \/ pc[e] = "deleteNew" /\ q = "renameOldBack" /\ Remove(LbName)
         \/ pc[e] = "deleteOld" /\ q = "replaced" /\ Remove(e)
  PROVE  IInv'
<1>1. CASE pc[e] = "deleteNew"
  <2>1. PICK c \in Containers : name[c] = LbName /\ name' = [name EXCEPT ![c] = NoName]
    BY <1>1 DEF Remove, Named
  <2>2. PICK d \in Containers : name[d] = e
    BY <1>1 DEF IInv, OldThere
  <2>3. Kept(d)'
    BY <1>1, <2>1, <2>2, NodeReplaceAssumption DEF Kept, TypeOK
  <2>4. ASSUME NEW f \in Editors PROVE OldThere(f)' /\ NotYet(f)'
    BY <1>1, <2>1, NodeReplaceAssumption DEF OldThere, NotYet, IInv, TypeOK, Containers
  <2> QED
    BY <2>3, <2>4 DEF IInv
<1>2. CASE pc[e] = "deleteOld"
  <2>1. PICK c \in Containers : name[c] = e /\ name' = [name EXCEPT ![c] = NoName]
    BY <1>2 DEF Remove, Named
  <2>2. PICK d \in Containers : Kept(d)
    BY DEF IInv
  <2>3. name[d] # e
    BY <1>2, <2>2, NodeReplaceAssumption DEF Kept
  <2>4. Kept(d)'
    BY <1>2, <2>1, <2>2, <2>3, NodeReplaceAssumption DEF Kept, TypeOK
  <2>5. ASSUME NEW f \in Editors PROVE OldThere(f)' /\ NotYet(f)'
    BY <1>2, <2>1, NodeReplaceAssumption DEF OldThere, NotYet, IInv, TypeOK, Containers
  <2> QED
    BY <2>4, <2>5 DEF IInv
<1> QED
  BY <1>1, <1>2

\* Every step of a command, and every stuttering step, keeps a container.
LEMMA KeptStep == TypeOK /\ IInv /\ [Next]_vars => IInv'
<1> SUFFICES ASSUME TypeOK, IInv, [Next]_vars PROVE IInv'
  OBVIOUS
<1>1. CASE UNCHANGED vars
  BY <1>1 DEF vars, IInv, Kept, OldThere, NotYet, Containers
<1>2. ASSUME NEW e \in Editors, NodeGet(e) PROVE IInv'
  BY <1>2, NodeReplaceAssumption DEF NodeGet, Goto, IInv, Kept, OldThere, NotYet, TypeOK, docker, Containers
<1>3. ASSUME NEW e \in Editors, RenameOld(e) PROVE IInv'
  BY <1>3, Renaming, Bookkeeping DEF RenameOld, Goto
<1>4. ASSUME NEW e \in Editors, CreateNew(e) PROVE IInv'
  <2>1. CASE Goto(e, "create", "renameBack") /\ UNCHANGED docker
    BY <2>1, Bookkeeping DEF Goto
  <2>2. CASE Goto(e, "create", "stop") /\ name' = [name EXCEPT ![e] = LbName]
    <3>1. Kept(e)' /\ e \in Containers
      BY <2>2 DEF Kept, TypeOK, Containers
    <3>2. name[e] = NoName
      BY <2>2 DEF Goto, IInv, NotYet
    <3>3. ASSUME NEW f \in Editors PROVE OldThere(f)' /\ NotYet(f)'
      BY <2>2, <3>2, NodeReplaceAssumption DEF Goto, OldThere, NotYet, IInv, TypeOK, Containers
    <3> QED
      BY <3>1, <3>3 DEF IInv, Containers
  <2> QED
    BY <1>4, <2>1, <2>2 DEF CreateNew
<1>5. ASSUME NEW e \in Editors, RenameBack(e) PROVE IInv'
  BY <1>5, Renaming, Bookkeeping DEF RenameBack, Goto
<1>6. ASSUME NEW e \in Editors, StopOld(e) PROVE IInv'
  BY <1>6, NodeReplaceAssumption DEF StopOld, Goto, IInv, Kept, OldThere, NotYet, TypeOK, docker, Containers
<1>7. ASSUME NEW e \in Editors, StartNew(e) PROVE IInv'
  <2>1. CASE Goto(e, "start", "deleteNew") /\ UNCHANGED docker
    BY <2>1, Bookkeeping DEF Goto
  <2>2. CASE Goto(e, "start", "wait") /\ StartNamed(LbName)
    <3>1. PICK c \in Containers : name[c] = LbName
      BY <2>2 DEF StartNamed, Named
    <3>2. Kept(c)'
      BY <2>2, <3>1 DEF StartNamed, Kept
    <3>3. ASSUME NEW f \in Editors PROVE OldThere(f)' /\ NotYet(f)'
      BY <2>2 DEF StartNamed, Goto, OldThere, NotYet, IInv, TypeOK, Containers
    <3> QED
      BY <3>2, <3>3 DEF IInv, Containers
  <2> QED
    BY <1>7, <2>1, <2>2 DEF StartNew
<1>8. ASSUME NEW e \in Editors, WaitReady(e) PROVE IInv'
  BY <1>8, Bookkeeping DEF WaitReady, Goto
<1>9. ASSUME NEW e \in Editors, DeleteNew(e) PROVE IInv'
  BY <1>9, Removing, Bookkeeping DEF DeleteNew, Goto
<1>10. ASSUME NEW e \in Editors, RenameOldBack(e) PROVE IInv'
  BY <1>10, Renaming, Bookkeeping DEF RenameOldBack, Goto
<1>11. ASSUME NEW e \in Editors, RestartOld(e) PROVE IInv'
  <2>1. UNCHANGED name
    BY <1>11 DEF RestartOld, StartNamed, docker
  <2>2. PICK q \in {"rolledBack", "waitOld", "failed"} : Goto(e, "restartOld", q)
    BY <1>11 DEF RestartOld
  <2> QED
    BY <2>1, <2>2 DEF Goto, IInv, Kept, OldThere, NotYet, TypeOK, Containers
<1>12. ASSUME NEW e \in Editors, DeleteOld(e) PROVE IInv'
  <2>1. CASE Remove(e)
    BY <1>12, <2>1, Removing DEF DeleteOld, Goto
  <2>2. CASE UNCHANGED docker
    <3>1. PICK c \in Containers : Kept(c)
      BY DEF IInv
    <3>2. Kept(c)'
      BY <1>12, <2>2, <3>1, NodeReplaceAssumption DEF DeleteOld, Goto, Kept, TypeOK, docker
    <3>3. ASSUME NEW f \in Editors PROVE OldThere(f)' /\ NotYet(f)'
      BY <1>12, <2>2 DEF DeleteOld, Goto, OldThere, NotYet, IInv, TypeOK, docker, Containers
    <3> QED
      BY <3>2, <3>3 DEF IInv, Containers
  <2> QED
    BY <1>12, <2>1, <2>2 DEF DeleteOld
<1>13. ASSUME NEW e \in Editors, Kill(e) PROVE IInv'
  BY <1>13, Bookkeeping DEF Kill, Step
<1> QED
  BY <1>1, <1>2, <1>3, <1>4, <1>5, <1>6, <1>7, <1>8, <1>9, <1>10, <1>11, <1>12, <1>13
  DEF Next, Edit

\* However many edits overlap, fail or are killed, and for every number of them, one of the
\* load balancer's containers is always left.
THEOREM ContainerSurvives == Spec => []NeverWithoutContainer
<1>1. Init => TypeOK /\ IInv
  BY TypeInit, KeptInit
<1>2. TypeOK /\ IInv /\ [Next]_vars => (TypeOK /\ IInv)'
  BY TypeStep, KeptStep
<1>3. IInv => NeverWithoutContainer
  BY NodeReplaceAssumption DEF IInv, Kept, NeverWithoutContainer
<1> QED
  BY <1>1, <1>2, <1>3, PTL DEF Spec

\* At most one container has a name, and the temporary name of a command that has not
\* renamed anything is nobody's.
NamesUnique ==
  /\ \A c, d \in Containers : name[c] = name[d] /\ name[c] # NoName => c = d
  /\ \A e \in Editors : pc[e] \in {"idle", "rename"} => \A c \in Containers : name[c] # e

\* What a command that has met no other knows at its control state about the container,
\* old, that was the load balancer when it began.
AloneWith(e, old) ==
  /\ old # e
  /\ \A c \in Containers : before[1][c] = LbName <=> c = old
  /\ pc[e] = "rename" => docker = before /\ name[old] = LbName
  /\ pc[e] \in {"create", "renameBack"} =>
       name[old] = e /\ before = <<[name EXCEPT ![old] = LbName], run>>
  /\ pc[e] \in {"stop", "start", "wait", "deleteNew", "renameOldBack", "deleteOld"} => name[old] = e
  /\ pc[e] \in {"stop", "start", "wait", "deleteNew", "deleteOld"} => name[e] = LbName
  /\ pc[e] \in {"wait", "deleteOld"} => \A c \in Containers : run[c] <=> c = e
  /\ pc[e] \in {"restartOld", "waitOld"} => name[old] = LbName

\* Nobody else is at work, and the old container is where the command left it.
Alone(e) ==
  /\ \A f \in Editors : pc[f] \in Working => f = e
  /\ \E old \in Containers : AloneWith(e, old)

\* The invariant that carries the theorems about an edit that met no other one.
SoloInv == \A e \in solo : pc[e] # "idle" /\ (pc[e] \in Working => Alone(e))

\* Initially one container has a name, and no command has begun.
LEMMA SoloInit == Init => NamesUnique /\ SoloInv
  BY NodeReplaceAssumption DEF Init, NamesUnique, SoloInv, Containers

\* Renaming to a name that is free, and that no command still waits to use, keeps the names
\* unique; so does creating a container under a free name, and removing one.
LEMMA NamesRenamed ==
  ASSUME TypeOK, NamesUnique, NEW e \in Editors, pc' = [pc EXCEPT ![e] = pc'[e]],
         pc'[e] \notin {"idle", "rename"}, NEW c \in Containers, NEW n \in {LbName, NoName, e},
         name' = [name EXCEPT ![c] = n], n # NoName => Named(n) = {}
  PROVE  NamesUnique'
<1>1. ASSUME NEW a \in Containers, NEW b \in Containers, name'[a] = name'[b], name'[a] # NoName
      PROVE  a = b
  BY <1>1 DEF NamesUnique, TypeOK, Named
<1>2. ASSUME NEW f \in Editors, pc'[f] \in {"idle", "rename"}, NEW a \in Containers
      PROVE  name'[a] # f
  <2>1. f # e /\ pc[f] \in {"idle", "rename"}
    BY <1>2 DEF TypeOK
  <2> QED
    BY <1>2, <2>1, NodeReplaceAssumption DEF NamesUnique, TypeOK
<1> QED
  BY <1>1, <1>2 DEF NamesUnique, Containers

\* The names stay, and no command gets behind its renaming.
LEMMA NamesStay ==
  ASSUME TypeOK, NamesUnique, UNCHANGED name, NEW e \in Editors, pc' = [pc EXCEPT ![e] = pc'[e]],
         pc'[e] \in {"idle", "rename"} => pc[e] \in {"idle", "rename"}
  PROVE  NamesUnique'
  BY DEF NamesUnique, TypeOK, Containers

\* Every step of a command, and every stuttering step, keeps the names unique.
LEMMA NamesStep == TypeOK /\ NamesUnique /\ [Next]_vars => NamesUnique'
<1> SUFFICES ASSUME TypeOK, NamesUnique, [Next]_vars PROVE NamesUnique'
  OBVIOUS
<1>1. CASE UNCHANGED vars
  BY <1>1 DEF vars, NamesUnique, Containers
<1>2. ASSUME NEW e \in Editors, NodeGet(e) PROVE NamesUnique'
  BY <1>2, NamesStay DEF NodeGet, Goto, docker, TypeOK
<1>3. ASSUME NEW e \in Editors, RenameOld(e) PROVE NamesUnique'
  BY <1>3, NamesStay, NamesRenamed DEF RenameOld, Goto, Rename, docker, TypeOK
<1>4. ASSUME NEW e \in Editors, CreateNew(e) PROVE NamesUnique'
  BY <1>4, NamesStay, NamesRenamed DEF CreateNew, Goto, docker, TypeOK, Containers
<1>5. ASSUME NEW e \in Editors, RenameBack(e) PROVE NamesUnique'
  BY <1>5, NamesStay, NamesRenamed DEF RenameBack, Goto, Rename, docker, TypeOK
<1>6. ASSUME NEW e \in Editors, StopOld(e) PROVE NamesUnique'
  BY <1>6, NamesStay DEF StopOld, Goto, docker, TypeOK
<1>7. ASSUME NEW e \in Editors, StartNew(e) PROVE NamesUnique'
  BY <1>7, NamesStay DEF StartNew, StartNamed, Goto, docker, TypeOK
<1>8. ASSUME NEW e \in Editors, WaitReady(e) PROVE NamesUnique'
  BY <1>8, NamesStay DEF WaitReady, Goto, docker, TypeOK
<1>9. ASSUME NEW e \in Editors, DeleteNew(e) PROVE NamesUnique'
  BY <1>9, NamesStay, NamesRenamed DEF DeleteNew, Remove, Named, Goto, docker, TypeOK
<1>10. ASSUME NEW e \in Editors, RenameOldBack(e) PROVE NamesUnique'
  BY <1>10, NamesStay, NamesRenamed DEF RenameOldBack, Rename, Goto, docker, TypeOK
<1>11. ASSUME NEW e \in Editors, RestartOld(e) PROVE NamesUnique'
  BY <1>11, NamesStay DEF RestartOld, StartNamed, Goto, docker, TypeOK
<1>12. ASSUME NEW e \in Editors, DeleteOld(e) PROVE NamesUnique'
  BY <1>12, NamesStay, NamesRenamed DEF DeleteOld, Remove, Named, Goto, docker, TypeOK
<1>13. ASSUME NEW e \in Editors, Kill(e) PROVE NamesUnique'
  BY <1>13, NamesStay DEF Kill, docker, TypeOK, Working
<1> QED
  BY <1>1, <1>2, <1>3, <1>4, <1>5, <1>6, <1>7, <1>8, <1>9, <1>10, <1>11, <1>12, <1>13
  DEF Next, Edit

\* A step of a command other than NodeGet: the command was at work and stays so or ends.
AtWork(e) == /\ pc[e] \in Working /\ pc' = [pc EXCEPT ![e] = pc'[e]] /\ pc'[e] # "idle"
             /\ UNCHANGED <<ran, before, solo>>

\* Which steps there are: a beginning, or a step of a command at work.
LEMMA BeginsOrWorks ==
  ASSUME TypeOK, NEW e \in Editors, Edit(e) \/ WaitReady(e) \/ Kill(e)
  PROVE  NodeGet(e) \/ AtWork(e)
<1> USE DEF AtWork, Step, Goto, Working, TypeOK
<1>1. ASSUME RenameOld(e) \/ CreateNew(e) \/ RenameBack(e) \/ StopOld(e) PROVE AtWork(e)
  BY <1>1 DEF RenameOld, CreateNew, RenameBack, StopOld
<1>2. ASSUME StartNew(e) \/ DeleteNew(e) \/ RenameOldBack(e) PROVE AtWork(e)
  BY <1>2 DEF StartNew, DeleteNew, RenameOldBack
<1>3. ASSUME RestartOld(e) \/ DeleteOld(e) \/ WaitReady(e) \/ Kill(e) PROVE AtWork(e)
  BY <1>3 DEF RestartOld, DeleteOld, WaitReady, Kill
<1> QED
  BY <1>1, <1>2, <1>3 DEF Edit

\* What the step of a command that has met no other does to what it knows.
LEMMA AloneStep ==
  ASSUME TypeOK, NamesUnique, NEW e \in Editors, AtWork(e), Edit(e) \/ WaitReady(e) \/ Kill(e),
         NEW old \in Containers, AloneWith(e, old), pc'[e] \in Working
  PROVE  AloneWith(e, old)'
<1> USE NodeReplaceAssumption DEF AloneWith, AtWork, Goto
<1>e. e \in Containers
  BY DEF Containers
<1>0. old # e /\ (\A c \in Containers : before'[1][c] = LbName <=> c = old)
  BY DEF Containers
<1>1. CASE RenameOld(e)
  <2>1. pc[e] = "rename" /\ pc'[e] = "create" /\ docker = before /\ name[old] = LbName /\ run' = run
    BY <1>1 DEF RenameOld, TypeOK, Working, Rename
  <2>2. PICK c \in Named(LbName) : name' = [name EXCEPT ![c] = e]
    BY <1>1, <2>1 DEF RenameOld, Rename, TypeOK
  <2>3. c = old
    BY <2>1, <2>2 DEF Named, NamesUnique
  <2>4. name = [name' EXCEPT ![old] = LbName]
    BY <2>1, <2>2, <2>3 DEF TypeOK
  <2>5. name'[old] = e /\ before' = <<[name' EXCEPT ![old] = LbName], run'>>
    BY <2>1, <2>2, <2>3, <2>4 DEF docker, TypeOK
  <2> QED
    BY <1>0, <2>1, <2>5
<1>2. CASE CreateNew(e)
  <2>1. pc[e] = "create" /\ name[old] = e
    BY <1>2 DEF CreateNew
  <2>2. CASE pc'[e] = "stop" /\ name' = [name EXCEPT ![e] = LbName]
    <3>1. name'[old] = e /\ name'[e] = LbName
      BY <1>0, <1>e, <2>1, <2>2 DEF TypeOK
    <3> QED
      BY <1>0, <2>2, <3>1
  <2>3. CASE pc'[e] = "renameBack" /\ UNCHANGED docker
    BY <1>0, <2>1, <2>3 DEF docker
  <2> QED
    BY <1>2, <2>2, <2>3 DEF CreateNew, TypeOK
<1>3. CASE RenameBack(e)
  BY <1>3 DEF RenameBack, TypeOK, Working
<1>4. CASE StopOld(e)
  <2>1. pc[e] = "stop" /\ pc'[e] = "start" /\ name' = name
    BY <1>4 DEF StopOld, TypeOK, Working
  <2> QED
    BY <1>0, <2>1
<1>5. CASE StartNew(e)
  <2>1. pc[e] = "start" /\ name' = name /\ name[old] = e /\ name[e] = LbName
    BY <1>5 DEF StartNew, StartNamed, docker
  <2>2. CASE pc'[e] = "wait" /\ StartNamed(LbName)
    <3>1. PICK c \in Named(LbName) : (\A d \in Containers : run[d] => d = c) /\ run' = [run EXCEPT ![c] = TRUE]
      BY <2>2 DEF StartNamed
    <3>2. c = e
      BY <1>e, <2>1, <3>1 DEF Named, NamesUnique
    <3>3. \A d \in Containers : run'[d] <=> d = e
      <4> TAKE d \in Containers
      <4>1. CASE d = e
        BY <4>1, <3>1, <3>2, <1>e DEF TypeOK
      <4>2. CASE d # e
        <5>1. run'[d] = run[d]
          BY <4>2, <3>1, <3>2, <1>e DEF TypeOK
        <5>2. ~run[d]
          BY <4>2, <3>1, <3>2
        <5> QED
          BY <4>2, <5>1, <5>2
      <4> QED
        BY <4>1, <4>2
    <3> QED
      BY <1>0, <2>1, <2>2, <3>3
  <2>3. CASE pc'[e] = "deleteNew"
    BY <1>0, <2>1, <2>3
  <2> QED
    BY <1>5, <2>2, <2>3 DEF StartNew, TypeOK
<1>6. CASE WaitReady(e)
  <2>1. pc[e] = "wait" /\ pc'[e] \in {"deleteOld", "deleteNew"} /\ name' = name /\ run' = run
    BY <1>6 DEF WaitReady, docker, TypeOK, Working
  <2> QED
    BY <1>0, <2>1
<1>7. CASE DeleteNew(e)
  <2>1. pc[e] = "deleteNew" /\ pc'[e] = "renameOldBack" /\ name[old] = e
    BY <1>7 DEF DeleteNew, TypeOK
  <2>2. name'[old] = e
    BY <1>7, <2>1 DEF DeleteNew, Remove, Named, docker, TypeOK
  <2> QED
    BY <1>0, <2>1, <2>2
<1>8. CASE RenameOldBack(e)
  <2>1. pc[e] = "renameOldBack" /\ pc'[e] = "restartOld" /\ name[old] = e
    BY <1>8 DEF RenameOldBack, Rename, TypeOK, Working
  <2>2. name'[old] = LbName
    BY <1>8, <2>1 DEF RenameOldBack, Rename, Named, NamesUnique, TypeOK, Working
  <2> QED
    BY <1>0, <2>1, <2>2
<1>9. CASE RestartOld(e)
  <2>1. pc[e] = "restartOld" /\ pc'[e] = "waitOld" /\ name' = name
    BY <1>9 DEF RestartOld, StartNamed, TypeOK, Working
  <2> QED
    BY <1>0, <2>1
<1>11. CASE DeleteOld(e) \/ Kill(e)
  BY <1>11 DEF DeleteOld, Kill, TypeOK, Working
<1>10. CASE NodeGet(e)
  BY <1>10 DEF NodeGet, Working
<1> QED
  BY <1>1, <1>2, <1>3, <1>4, <1>5, <1>6, <1>7, <1>8, <1>9, <1>10, <1>11 DEF Edit

\* A command that begins alone knows which container is the load balancer.
LEMMA AloneBegins ==
  ASSUME TypeOK, NamesUnique, IInv, NEW e \in Editors, NodeGet(e), pc'[e] \in Working
  PROVE  \E old \in Containers : AloneWith(e, old)'
<1>1. pc[e] = "idle" /\ pc'[e] = "rename"
  BY DEF NodeGet, Goto, TypeOK, Working
<1>2. PICK old \in Containers : name[old] = LbName
  BY <1>1 DEF NodeGet, Goto, Named, TypeOK
<1>3. old # e
  BY <1>1, <1>2, NodeReplaceAssumption DEF IInv, NotYet
<1>4. \A c \in Containers : name[c] = LbName <=> c = old
  BY <1>2, NodeReplaceAssumption DEF NamesUnique
<1>5. before' = <<name, run>> /\ name' = name /\ run' = run
  BY DEF NodeGet, docker
<1> QED
  BY <1>1, <1>2, <1>3, <1>4, <1>5 DEF AloneWith, docker, Containers

\* Every step keeps what the commands that have met no other know: another command's step
\* either is impossible or takes them out of that set.
LEMMA SoloStep == TypeOK /\ NamesUnique /\ IInv /\ SoloInv /\ [Next]_vars => SoloInv'
<1> SUFFICES ASSUME TypeOK, NamesUnique, IInv, SoloInv, [Next]_vars, NEW e \in solo'
             PROVE  pc'[e] # "idle" /\ (pc'[e] \in Working => Alone(e)')
  BY DEF SoloInv
<1> USE DEF SoloInv
<1>1. CASE UNCHANGED vars
  BY <1>1 DEF vars, docker, Alone, AloneWith, Containers
<1>2. ASSUME NEW d \in Editors, Edit(d) \/ WaitReady(d) \/ Kill(d)
      PROVE  pc'[e] # "idle" /\ (pc'[e] \in Working => Alone(e)')
  <2>1. CASE NodeGet(d)
    <3> DEFINE active == {f \in Editors : pc[f] \in Working}
    <3>1. pc' = [pc EXCEPT ![d] = pc'[d]] /\ pc[d] = "idle" /\ pc'[d] \in {"rename", "failed"}
      BY <2>1 DEF NodeGet, Goto, TypeOK
    <3>2. CASE active = {}
      <4>1. e = d \/ e \in solo
        BY <2>1, <3>2 DEF NodeGet
      <4>2. \A f \in Editors : pc'[f] \in Working => f = d
        BY <3>1, <3>2 DEF TypeOK
      <4>3. e # d => pc'[e] # "idle" /\ pc'[e] \notin Working
        BY <4>1, <4>2, <3>1 DEF TypeOK
      <4>4. e = d => pc'[e] # "idle" /\ (pc'[e] \in Working => Alone(e)')
        BY <2>1, <3>1, <4>2, AloneBegins DEF Alone, Containers
      <4> QED
        BY <4>3, <4>4
    <3>3. CASE active # {}
      <4>1. e \in solo /\ pc[e] \notin Working /\ pc[e] # "idle"
        BY <2>1, <3>3 DEF NodeGet, TypeOK
      <4> QED
        BY <3>1, <4>1 DEF TypeOK
    <3> QED
      BY <3>2, <3>3
  <2>2. CASE AtWork(d)
    <3>1. e \in solo /\ e \in Editors /\ pc'[e] # "idle"
      BY <2>2 DEF AtWork, TypeOK
    <3>2. ASSUME pc'[e] \in Working PROVE Alone(e)'
      <4>1. e = d
        BY <2>2, <3>1, <3>2 DEF AtWork, Alone, TypeOK
      <4>2. Alone(e)
        BY <2>2, <3>1, <4>1 DEF AtWork
      <4>3. \A f \in Editors : pc'[f] \in Working => f = e
        BY <2>2, <4>1, <4>2 DEF AtWork, Alone, TypeOK
      <4>4. PICK old \in Containers : AloneWith(e, old)
        BY <4>2 DEF Alone
      <4>5. AloneWith(e, old)'
        BY <1>2, <2>2, <3>2, <4>1, <4>4, AloneStep
      <4> QED
        BY <4>3, <4>5 DEF Alone, Containers
    <3> QED
      BY <3>1, <3>2
  <2> QED
    BY <1>2, <2>1, <2>2, BeginsOrWorks
<1> QED
  BY <1>1, <1>2 DEF Next

\* What the last step of a command that has met no other leaves.
LEMMA SoloOutcome ==
  ASSUME TypeOK, NamesUnique, SoloInv, [Next]_vars, NEW e \in solo, pc[e] \in Working
  PROVE  /\ pc[e] = "deleteOld" /\ pc'[e] = "replaced" =>
              name'[e] = LbName /\ \A c \in Containers : run'[c] <=> c = e
         /\ pc[e] = "renameBack" /\ pc'[e] = "broughtBack" => docker' = before
         /\ pc'[e] \in {"failed", "broughtBack", "rolledBack"} =>
              \A c \in Containers : before[1][c] = LbName => name'[c] # NoName
<1> USE NodeReplaceAssumption
<1>e. e \in Editors /\ e \in Containers
  BY DEF TypeOK, Containers
<1>1. PICK old \in Containers : AloneWith(e, old)
  BY DEF SoloInv, Alone
<1>2. CASE pc'[e] = pc[e]
  BY <1>2 DEF Working
<1>3. CASE pc'[e] # pc[e]
  <2>1. PICK d \in Editors : Edit(d) \/ WaitReady(d) \/ Kill(d)
    BY <1>3 DEF Next, vars
  <2>2. d = e
    BY <1>3, <1>e, <2>1, BeginsOrWorks DEF NodeGet, Goto, AtWork, TypeOK
  <2>3. pc[e] = "deleteOld" /\ pc'[e] = "replaced" =>
              name'[e] = LbName /\ \A c \in Containers : run'[c] <=> c = e
    <3> SUFFICES ASSUME pc[e] = "deleteOld", pc'[e] = "replaced"
                 PROVE  name'[e] = LbName /\ \A c \in Containers : run'[c] <=> c = e
      OBVIOUS
    <3>0. DeleteOld(e)
      BY <2>1, <2>2 DEF Edit, NodeGet, RenameOld, CreateNew, RenameBack, StopOld, StartNew, DeleteNew,
           RenameOldBack, RestartOld, WaitReady, Kill, Goto, TypeOK
    <3>1. name[old] = e /\ name[e] = LbName /\ old # e /\ \A c \in Containers : run[c] <=> c = e
      BY <1>1 DEF AloneWith
    <3>2. CASE UNCHANGED docker
      BY <3>1, <3>2 DEF docker
    <3>3. CASE Remove(e)
      <4>1. PICK c \in Named(e) : name' = [name EXCEPT ![c] = NoName] /\ run' = [run EXCEPT ![c] = FALSE]
        BY <3>3 DEF Remove
      <4>2. c = old
        BY <1>e, <3>1, <4>1 DEF Named, NamesUnique
      <4>3. name'[e] = LbName
        BY <1>e, <3>1, <4>1, <4>2 DEF TypeOK
      <4>4. ASSUME NEW b \in Containers PROVE run'[b] <=> b = e
        <5>1. CASE b = old
          <6>1. ~run'[b]
            BY <4>1, <4>2, <5>1 DEF TypeOK
          <6> QED
            BY <3>1, <5>1, <6>1
        <5>2. CASE b # old
          <6>1. run'[b] = run[b]
            BY <4>1, <4>2, <5>2 DEF TypeOK
          <6> QED
            BY <3>1, <6>1
        <5> QED
          BY <5>1, <5>2
      <4> QED
        BY <4>3, <4>4
    <3> QED
      BY <3>0, <3>2, <3>3 DEF DeleteOld
  <2>4. ASSUME pc[e] = "renameBack", pc'[e] = "broughtBack" PROVE docker' = before
    <3>1. RenameBack(e) /\ Rename(e, LbName)
      BY <2>1, <2>2, <2>4 DEF Edit, NodeGet, RenameOld, CreateNew, RenameBack, StopOld, StartNew, DeleteNew,
           RenameOldBack, RestartOld, DeleteOld, WaitReady, Kill, Goto, TypeOK
    <3>2. name[old] = e /\ before = <<[name EXCEPT ![old] = LbName], run>>
      BY <1>1, <2>4 DEF AloneWith
    <3>3. name' = [name EXCEPT ![old] = LbName] /\ run' = run
      BY <1>e, <3>1, <3>2 DEF Rename, Named, NamesUnique
    <3> QED
      BY <3>2, <3>3 DEF docker
  <2>5. ASSUME pc'[e] \in {"failed", "broughtBack", "rolledBack"} PROVE name'[old] # NoName
    <3>1. name[old] \in {LbName, e}
      BY <1>1 DEF AloneWith, Working
    <3>2. name' = name \/ Rename(e, LbName)
      BY <2>1, <2>2, <2>5 DEF Edit, NodeGet, RenameOld, CreateNew, RenameBack, StopOld, StartNew, StartNamed,
           DeleteNew, RenameOldBack, RestartOld, DeleteOld, WaitReady, Kill, Goto, docker, TypeOK
    <3> QED
      BY <3>1, <3>2 DEF Rename, TypeOK
  <2>6. \A c \in Containers : before[1][c] = LbName => c = old
    BY <1>1 DEF AloneWith
  <2> QED
    BY <2>3, <2>4, <2>5, <2>6
<1> QED
  BY <1>2, <1>3

\* The invariants above hold in every reachable state.
LEMMA SoloInvariant == Spec => [](TypeOK /\ NamesUnique /\ IInv /\ SoloInv)
<1>1. Init => TypeOK /\ NamesUnique /\ IInv /\ SoloInv
  BY TypeInit, KeptInit, SoloInit
<1>2. TypeOK /\ NamesUnique /\ IInv /\ SoloInv /\ [Next]_vars => (TypeOK /\ NamesUnique /\ IInv /\ SoloInv)'
  BY TypeStep, NamesStep, KeptStep, SoloStep
<1> QED
  BY <1>1, <1>2, PTL DEF Spec

\* An edit that met no other and succeeds leaves its new container running under the node's
\* name and no other one running, whatever earlier edits left behind.
THEOREM SoloReplaces == Spec => SoloReplaced
<1>1. TypeOK /\ NamesUnique /\ IInv /\ SoloInv /\ [Next]_vars =>
        [\A e \in solo : pc[e] = "deleteOld" /\ pc'[e] = "replaced" =>
           name'[e] = LbName /\ \A c \in Containers : run'[c] <=> c = e]_vars
  BY SoloOutcome DEF Working
<1> QED
  BY <1>1, SoloInvariant, PTL DEF Spec, SoloReplaced

\* An edit that met no other and fails has undone what it says, and the container that was
\* the load balancer still exists, whatever earlier edits left behind.
THEOREM SoloUndoes == Spec => SoloUndo
<1>1. TypeOK /\ NamesUnique /\ IInv /\ SoloInv /\ [Next]_vars =>
        [\A e \in solo :
           /\ pc[e] = "renameBack" /\ pc'[e] = "broughtBack" => docker' = before
           /\ pc[e] \in Working /\ pc'[e] \in {"failed", "broughtBack", "rolledBack"} =>
                \A c \in Containers : before[1][c] = LbName => name'[c] # NoName]_vars
  BY SoloOutcome DEF Working
<1> QED
  BY <1>1, SoloInvariant, PTL DEF Spec, SoloUndo
=============================================================================
