----------------------------- MODULE StartPhases -----------------------------
(***************************************************************************)
(* What starting a cluster promises: it comes up group by group.  A node is *)
(* up when the container runtime has been asked to start it.  The nodes of  *)
(* a group come up together, and only when all groups before it are up; if  *)
(* it fails, part of the current group and nothing after it is up.          *)
(***************************************************************************)
CONSTANTS
  Groups,   \* the phases that start nodes
  Follows,  \* the phase after each of them
  Members   \* the nodes of each of them

VARIABLES
  phase,    \* the current phase
  todo,     \* the nodes that were down
  up        \* those of them that are up

vars == <<phase, todo, up>>

Nodes == UNION {Members[p] : p \in Groups}

Init ==
  /\ phase = "init" /\ up = {}
  /\ todo \subseteq Nodes

GroupUp ==
  /\ phase \in Groups
  /\ phase' = Follows[phase]
  /\ up' = up \cup (Members[phase] \cap todo)
  /\ UNCHANGED todo

GroupFails ==
  /\ phase \in Groups
  /\ \E S \in SUBSET (Members[phase] \cap todo) : up' = up \cup S
  /\ phase' = "err" /\ UNCHANGED todo

PostStart ==
  /\ phase = "post" /\ phase' \in {"ok", "err"}
  /\ UNCHANGED <<todo, up>>

Spec == Init /\ [][GroupUp \/ GroupFails \/ PostStart]_vars
=============================================================================
