---------------------------- MODULE MCLbMembership ----------------------------
(* A cluster of two servers.  A server is added, it and another one are deleted, by a command
   each. *)
EXTENDS LbMembership
MCInitial == {"server-0", "server-1"}
MCAddTasks == {"a0"}
MCDelTasks == {"d0", "d1"}
MCOf == [a0 |-> "new-0", d0 |-> "new-0", d1 |-> "server-1"]
MCCmd == [a0 |-> "add", d0 |-> "delete-new-0", d1 |-> "delete-server-1"]
=============================================================================
