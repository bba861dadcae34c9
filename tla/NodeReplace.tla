----------------------------- MODULE NodeReplace -----------------------------
(***************************************************************************)
(* NodeReplace, by which `k3d node edit` and `k3d cluster edit` change the  *)
(* load balancer: the container is renamed, a new one is created under its  *)
(* name, the old one is stopped, the new one is started, the old one is     *)
(* deleted.  Any call to the runtime may fail, the command may be killed    *)
(* anywhere, and nothing keeps several edits from overlapping: containers   *)
(* are looked up by name at every call.                                     *)
(***************************************************************************)
CONSTANTS
  Editors, \* the edit commands; also the containers they make and the temporary
           \* names (the node's name and a random suffix) they rename the old one to
  Orig,    \* the container there is in the beginning
  LbName,  \* the node's name
  NoName   \* no container: never created, or removed

Containers == {Orig} \cup Editors

ASSUME NodeReplaceAssumption ==
  LbName # NoName /\ LbName \notin Editors /\ NoName \notin Editors /\ Orig \notin Editors

VARIABLES
  name,   \* runtime: the name of each container
  run,    \* runtime: is it running?
  pc,     \* control state of each command
  ran,    \* old.State.Running in the struct that the command read
  before, \* history: <<name, run>> when the last command began
  solo    \* history: commands that have overlapped with no other one

docker == <<name, run>>
vars == <<name, run, pc, ran, before, solo>>

Terminal == {"failed", "broughtBack", "rolledBack", "replaced", "killed"}
Working == {"rename", "create", "renameBack", "stop", "start", "wait", "deleteNew",
            "renameOldBack", "restartOld", "waitOld", "deleteOld"}

Named(n) == {c \in Containers : name[c] = n}

Init ==
  /\ name = [c \in Containers |-> IF c = Orig THEN LbName ELSE NoName]
  /\ \E b \in BOOLEAN : run = [c \in Containers |-> c = Orig /\ b]
  /\ pc = [e \in Editors |-> "idle"]
  /\ ran = [e \in Editors |-> FALSE]
  /\ before = docker /\ solo = {}

\* Command e is at control state p and moves to q.
Goto(e, p, q) == pc[e] = p /\ pc' = [pc EXCEPT ![e] = q]
-----------------------------------------------------------------------------
(* The runtime *)

\* RenameNode: fails when no container has the name or the new name is taken.
Rename(old, new) ==
  /\ Named(new) = {}
  /\ \E c \in Named(old) : name' = [name EXCEPT ![c] = new]
  /\ UNCHANGED run

\* DeleteNode: ContainerRemove with Force, by name.
Remove(n) ==
  \E c \in Named(n) : name' = [name EXCEPT ![c] = NoName] /\ run' = [run EXCEPT ![c] = FALSE]

\* ContainerStart, by name: refused while another container holds the host ports.
StartNamed(n) ==
  /\ \E c \in Named(n) : /\ \A d \in Containers : run[d] => d = c
                         /\ run' = [run EXCEPT ![c] = TRUE]
  /\ UNCHANGED name
-----------------------------------------------------------------------------
\* The command reads the node.
NodeGet(e) ==
  /\ \/ /\ Goto(e, "idle", "rename")
        /\ \E c \in Named(LbName) : ran' = [ran EXCEPT ![e] = run[c]]
     \/ Goto(e, "idle", "failed") /\ UNCHANGED ran
  /\ before' = docker
  /\ LET active == {f \in Editors : pc[f] \in Working}
     IN  solo' = IF active = {} THEN solo \cup {e} ELSE solo \ active
  /\ UNCHANGED docker

Step(e) == UNCHANGED <<ran, before, solo>>

RenameOld(e) ==
  /\ Step(e)
  /\ \/ Goto(e, "rename", "create") /\ Rename(LbName, e)
     \/ Goto(e, "rename", "failed") /\ UNCHANGED docker

\* NodeCreate under the original name; on failure the old one gets its name back.
CreateNew(e) ==
  /\ Step(e)
  /\ \/ /\ Goto(e, "create", "stop") /\ Named(LbName) = {}
        /\ name' = [name EXCEPT ![e] = LbName] /\ UNCHANGED run
     \/ Goto(e, "create", "renameBack") /\ UNCHANGED docker

\* Mutated form of RenameBack: only the struct gets the original name back.
RenameBackStruct(e) == Step(e) /\ Goto(e, "renameBack", "broughtBack") /\ UNCHANGED docker

RenameBack(e) ==
  /\ Step(e)
  /\ \/ Goto(e, "renameBack", "broughtBack") /\ Rename(e, LbName)
     \/ Goto(e, "renameBack", "failed") /\ UNCHANGED docker

\* Mutated form of StopOld: the old container is removed here already.
StopOldByRemoval(e) ==
  /\ Step(e)
  /\ \/ Goto(e, "stop", "start") /\ Remove(e)
     \/ Goto(e, "stop", "failed") /\ UNCHANGED docker

\* A failure leaves the old container, renamed, and the new one behind.
StopOld(e) ==
  /\ Step(e)
  /\ \/ /\ Goto(e, "stop", "start")
        /\ \E c \in Named(e) : run' = [run EXCEPT ![c] = FALSE]
        /\ UNCHANGED name
     \/ Goto(e, "stop", "failed") /\ UNCHANGED docker

\* Mutated form of StartNew: the error is logged only.
StartNewUnchecked(e) ==
  /\ Step(e) /\ Goto(e, "start", "wait")
  /\ StartNamed(LbName) \/ UNCHANGED docker

\* NodeStart up to StartNode (a failing hook is logged only) ...
StartNew(e) ==
  /\ Step(e)
  /\ \/ Goto(e, "start", "wait") /\ StartNamed(LbName)
     \/ Goto(e, "start", "deleteNew") /\ UNCHANGED docker

\* ... and its wait for the ready message in the container's log: of the new one, or of the
\* old one that RestartOld has started.
WaitReady(e) ==
  /\ Step(e) /\ UNCHANGED docker
  /\ \/ Goto(e, "wait", "deleteOld") \/ Goto(e, "wait", "deleteNew")
     \/ Goto(e, "waitOld", "rolledBack") \/ Goto(e, "waitOld", "failed")

\* Mutated form of DeleteNew: an error of the runtime is retried until there is none.
DeleteNewInsists(e) == Step(e) /\ Goto(e, "deleteNew", "renameOldBack") /\ Remove(LbName)

\* NodeDelete logs an error of the runtime and returns nil.
DeleteNew(e) ==
  /\ Step(e) /\ Goto(e, "deleteNew", "renameOldBack")
  /\ Remove(LbName) \/ UNCHANGED docker

RenameOldBack(e) ==
  /\ Step(e)
  /\ \/ Goto(e, "renameOldBack", "restartOld") /\ Rename(e, LbName)
     \/ Goto(e, "renameOldBack", "failed") /\ UNCHANGED docker

\* NodeStart returns early when the struct says that the node is running; StopNode did
\* not touch the struct.  An old node that did not run is started, and waited for.
RestartOld(e) ==
  /\ Step(e)
  /\ \/ ran[e] /\ Goto(e, "restartOld", "rolledBack") /\ UNCHANGED docker
     \/ ~ran[e] /\ Goto(e, "restartOld", "waitOld") /\ StartNamed(LbName)
     \/ ~ran[e] /\ Goto(e, "restartOld", "failed") /\ UNCHANGED docker

DeleteOld(e) ==
  /\ Step(e) /\ Goto(e, "deleteOld", "replaced")
  /\ Remove(e) \/ UNCHANGED docker

\* The user interrupts the command.
Kill(e) ==
  /\ Step(e) /\ UNCHANGED docker
  /\ pc[e] \in Working /\ pc' = [pc EXCEPT ![e] = "killed"]

Edit(e) ==
  \/ NodeGet(e) \/ RenameOld(e) \/ CreateNew(e) \/ RenameBack(e) \/ StopOld(e)
  \/ StartNew(e) \/ DeleteNew(e) \/ RenameOldBack(e) \/ RestartOld(e) \/ DeleteOld(e)

Next == \E e \in Editors : Edit(e) \/ WaitReady(e) \/ Kill(e)

Spec == Init /\ [][Next]_vars
\* Every runtime call returns.  The waits need not: they have no timeout, and a container that
\* neither prints the message nor stops keeps its log stream open.
FairSpec == Spec /\ \A e \in Editors : WF_vars(Edit(e))
-----------------------------------------------------------------------------
\* The containers, the commands' control states and what they recorded keep their types;
\* a container that does not exist is not running.
TypeOK ==
  /\ name \in [Containers -> {LbName, NoName} \cup Editors]
  /\ run \in [Containers -> BOOLEAN]
  /\ \A c \in Containers : name[c] = NoName => ~run[c]
  /\ pc \in [Editors -> {"idle"} \cup Working \cup Terminal]
  /\ ran \in [Editors -> BOOLEAN]
  /\ solo \subseteq Editors

\* However many edits overlap, fail or are killed, the load balancer's containers are
\* never all gone: each command removes one only while another is left.
NeverWithoutContainer == \E c \in Containers : name[c] # NoName

\* An edit that met no other and succeeds leaves its new container running under the
\* node's name, and no other one running.
SoloReplaced ==
  [][\A e \in solo : pc[e] = "deleteOld" /\ pc'[e] = "replaced" =>
       name'[e] = LbName /\ \A c \in Containers : run'[c] <=> c = e]_vars

\* An edit that met no other and fails: "Brought back old node" means that the runtime is
\* as it was, and in every case the container that was the load balancer still exists.
SoloUndo ==
  [][\A e \in solo :
       /\ pc[e] = "renameBack" /\ pc'[e] = "broughtBack" => docker' = before
       /\ pc[e] \in Working /\ pc'[e] \in {"failed", "broughtBack", "rolledBack"} =>
            \A c \in Containers : before[1][c] = LbName => name'[c] # NoName]_vars

\* An edit that begins also ends, or is left waiting for the ready message of the new or of
\* the old container: whatever other edits rename and remove, no edit waits for them.
EditEnds ==
  \A e \in Editors : pc[e] \in Working ~> pc[e] \in Terminal \cup {"wait", "waitOld"}

\* The message of NodeReplace, "Failed to start new node. Rolled back": the load balancer
\* that was running is running again.
RolledBackServes ==
  \A e \in Editors : pc[e] = "rolledBack" /\ ran[e] => \E c \in Named(LbName) : run[c]
=============================================================================
