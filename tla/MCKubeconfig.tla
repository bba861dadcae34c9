----------------------------- MODULE MCKubeconfig -----------------------------
(* A cluster is created, deleted and merged into a file; for each process that is the default
   file or, by its flags or its KUBECONFIG, the cluster's own one. *)
EXTENDS Kubeconfig
MCTasks == {"create", "delete", "merge"}
MCKind == [t \in MCTasks |-> t]
MCOf == [t \in MCTasks |-> "c1"]
MCOwn == [c1 |-> "c1.yaml"]
MCFlags ==
  {MergeDefaults, [MergeDefaults EXCEPT !.switch = FALSE],
   [MergeDefaults EXCEPT !.update = FALSE], [MergeDefaults EXCEPT !.overwrite = TRUE]}
MCOptions ==
  MCFlags \cup {[o EXCEPT !.output = "c1.yaml"] : o \in {p \in MCFlags : p.update /\ p.switch}}
=============================================================================
