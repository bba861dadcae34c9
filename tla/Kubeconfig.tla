------------------------------ MODULE Kubeconfig ------------------------------
(***************************************************************************)
(* The user's kubeconfig files: `k3d cluster create` and `k3d kubeconfig    *)
(* merge` put a cluster's entries into a file, `k3d cluster delete` takes   *)
(* them out of the default file and removes the cluster's own file.  Every  *)
(* task is a process that reads a whole file, changes what it read and      *)
(* writes it back, without a lock, and that may be killed at any point.     *)
(* Which file is the default one depends on a process's KUBECONFIG: by the  *)
(* hint that a creation ends with it may be a cluster's own file.           *)
(***************************************************************************)
EXTENDS Naturals

CONSTANTS
  Clusters, \* the k3d clusters, whose entries are named after them
  Foreign,  \* names of entries that the user has from elsewhere
  Tasks,    \* the processes
  Kind,     \* what each of them does: "create", "merge" or "delete" ...
  Of,       \* ... the entries of which cluster
  Paths,    \* the files, the one without KUBECONFIG among them
  Own,      \* the file of each cluster in the k3d directory
  Options,  \* the flags of a task, and the output file by its flags or its KUBECONFIG
  MaxGen    \* bound: how often a cluster is created

Default == "default"
None == "none"
Names == Clusters \cup Foreign

\* The flags of `k3d kubeconfig merge --kubeconfig-merge-default` when no other one is given;
\* without that one the output is the cluster's own file.  A creation may only change switch,
\* and the output by KUBECONFIG; a deletion only that.
MergeDefaults == [update |-> TRUE, switch |-> TRUE, overwrite |-> FALSE, output |-> Default]

ASSUME KubeconfigAssumption ==
  /\ Clusters \cap Foreign = {} /\ None \notin Names
  /\ Default \in Paths /\ Own \in [Clusters -> Paths]
  /\ Of \in [Tasks -> Clusters]
  /\ Kind \in [Tasks -> {"create", "merge", "delete"}]
  /\ MaxGen \in Nat \ {0}
  /\ Options \subseteq [update : BOOLEAN, switch : BOOLEAN, overwrite : BOOLEAN, output : Paths]
  /\ MergeDefaults \in Options

\* An entry is the generation of the cluster it was made for; zero is no entry.
Gens == 0..MaxGen
Configs == [clusters : [Names -> Gens], users : [Names -> Gens], contexts : [Names -> Gens],
            current : Names \cup {None}]
Nothing == [n \in Names |-> 0]
Empty == [clusters |-> Nothing, users |-> Nothing, contexts |-> Nothing, current |-> None]

VARIABLES
  gen,    \* the generation of each cluster, counted by creations
  alive,  \* the clusters that exist
  exists, \* the files that exist
  file,   \* what is in them
  opt,    \* the flags of each task
  pc,     \* control state of each task
  new,    \* the generation of the cluster in the kubeconfig it has fetched
  mem,    \* the file as it has read it
  temp,   \* its temporary file
  open,   \* the file that it has opened for overwriting: is it still the one at the path, and
          \* has another process emptied it or written to it since?
  fault,  \* history: tasks one of whose calls failed
  solo,   \* history: tasks that have overlapped with no other one
  was     \* history: the file at the task's path when it began

world == <<gen, alive>>
disk == <<exists, file>>
vars == <<gen, alive, exists, file, opt, pc, new, mem, temp, open, fault, solo, was>>

\* The file that a task works on.
Out(t) == opt[t].output

Terminal == {"ok", "failed", "killed"}
Working == {"get", "load", "make", "reload", "apply", "rename", "truncate", "fill", "rest",
            "removeOwn"}
Entries(cs) == [n \in Names |-> IF n \in Foreign \cup cs THEN 1 ELSE 0]
UserFile(cs, cur) ==
  [clusters |-> Entries(cs), users |-> Entries(cs), contexts |-> Entries(cs), current |-> cur]

Init ==
  /\ alive \in SUBSET Clusters
  /\ gen = [c \in Clusters |-> IF c \in alive THEN 1 ELSE 0]
  /\ \/ exists = {} /\ file = [p \in Paths |-> Empty]
     \/ \E users \in Paths, cur \in {None} \cup Foreign :
          /\ exists = {users}
          /\ file = [p \in Paths |-> IF p = users THEN UserFile(alive, cur) ELSE Empty]
  /\ opt \in [Tasks -> Options]
  /\ \A t \in Tasks : /\ Kind[t] # "merge" => opt[t].update /\ ~opt[t].overwrite
                      /\ Kind[t] = "delete" => opt[t].switch
  /\ pc = [t \in Tasks |-> "idle"]
  /\ new = [t \in Tasks |-> 0]
  /\ mem = [t \in Tasks |-> Empty] /\ temp = [t \in Tasks |-> Empty]
  /\ open = [t \in Tasks |-> "no"]
  /\ fault = {} /\ solo = {} /\ was = [t \in Tasks |-> Empty]
-----------------------------------------------------------------------------
At(t, p) == pc[t] = p
Goto(t, q) == pc' = [pc EXCEPT ![t] = q]

\* A deletion goes on, with a warning, when the entries cannot be removed.
Fails(t) ==
  /\ Goto(t, IF Kind[t] = "delete" THEN "removeOwn" ELSE "failed")
  /\ fault' = fault \cup {t}

Begins(t) ==
  /\ At(t, "idle")
  /\ LET others == {u \in Tasks : pc[u] \in Working}
     IN  solo' = IF others = {} THEN solo \cup {t} ELSE solo \ others
  /\ was' = [was EXCEPT ![t] = file[Out(t)]]
  /\ UNCHANGED <<disk, opt, new, mem, temp, open>>

\* ClusterRun, after the check that no cluster has the name; then the default file is updated.
CreateCluster(t) ==
  /\ Kind[t] = "create" /\ Begins(t)
  /\ \/ /\ Of[t] \notin alive /\ gen[Of[t]] < MaxGen
        /\ alive' = alive \cup {Of[t]} /\ gen' = [gen EXCEPT ![Of[t]] = @ + 1]
        /\ Goto(t, "get") /\ UNCHANGED fault
     \/ Goto(t, "failed") /\ fault' = fault \cup {t} /\ UNCHANGED world

\* ClusterGet of the cluster to be merged.
FindCluster(t) ==
  /\ Kind[t] = "merge" /\ Begins(t) /\ UNCHANGED world
  /\ \/ Of[t] \in alive /\ Goto(t, "get") /\ UNCHANGED fault
     \/ Goto(t, "failed") /\ fault' = fault \cup {t}

\* ClusterDelete; the entries are removed only when it succeeds.
DeleteCluster(t) ==
  /\ Kind[t] = "delete" /\ Begins(t) /\ UNCHANGED gen
  /\ \/ Of[t] \in alive /\ alive' = alive \ {Of[t]} /\ Goto(t, "load") /\ UNCHANGED fault
     \/ Goto(t, "failed") /\ fault' = fault \cup {t} /\ UNCHANGED alive
-----------------------------------------------------------------------------
\* KubeconfigGet: the kubeconfig of a server, its entries renamed after the cluster.
KubeconfigGet(t) ==
  /\ At(t, "get")
  /\ \/ /\ Of[t] \in alive /\ new' = [new EXCEPT ![t] = gen[Of[t]]]
        /\ Goto(t, IF opt[t].overwrite THEN "truncate" ELSE "load") /\ UNCHANGED fault
     \/ Fails(t) /\ UNCHANGED new
  /\ UNCHANGED <<world, disk, opt, mem, temp, open, solo, was>>

\* LoadFromFile: only a task that merges makes a file that is not there, and does so once.
\* What another process has written in part fails to parse, or is read as it is.
Load(t) ==
  /\ pc[t] \in {"load", "reload"}
  /\ \/ /\ Out(t) \in exists /\ mem' = [mem EXCEPT ![t] = file[Out(t)]]
        /\ Goto(t, "apply") /\ UNCHANGED fault
     \/ /\ Out(t) \notin exists /\ At(t, "load") /\ Kind[t] # "delete"
        /\ Goto(t, "make") /\ UNCHANGED <<mem, fault>>
     \/ Fails(t) /\ UNCHANGED mem
  /\ UNCHANGED <<world, disk, opt, new, temp, open, solo, was>>

\* Those in the given stages that hold the file at a path open share it from now on.
Shared(p, stages) ==
  [u \in Tasks |-> IF open[u] # "no" /\ Out(u) = p /\ pc[u] \in stages THEN "shared" ELSE open[u]]

\* os.Create, which also empties a file that another process has made in the meantime: what
\* that one has still to write ends up behind a gap.
Make(t) ==
  /\ At(t, "make")
  /\ \/ /\ exists' = exists \cup {Out(t)} /\ file' = [file EXCEPT ![Out(t)] = Empty]
        /\ open' = Shared(Out(t), {"rest"})
        /\ Goto(t, "reload") /\ UNCHANGED fault
     \/ Fails(t) /\ UNCHANGED <<disk, open>>
  /\ UNCHANGED <<world, opt, new, mem, temp, solo, was>>

Conflict(cfg, c) == cfg.clusters[c] # 0 \/ cfg.users[c] # 0 \/ cfg.contexts[c] # 0

\* The three entries of a cluster set (or, with generation zero, deleted).
With(cfg, c, g, cur) ==
  [clusters |-> [cfg.clusters EXCEPT ![c] = g], users |-> [cfg.users EXCEPT ![c] = g],
   contexts |-> [cfg.contexts EXCEPT ![c] = g], current |-> cur]

\* Mutated form of Merged: a missing current context is not set either.
MergedAsTold(cfg, c, g, switch) == With(cfg, c, g, IF switch THEN c ELSE cfg.current)

Merged(cfg, c, g, switch) ==
  With(cfg, c, g, IF switch \/ cfg.current = None THEN c ELSE cfg.current)

\* Mutated form of RemovedFrom: the current context stays.
RemovedFromSections(cfg, c) == {With(cfg, c, 0, cfg.current)}

\* KubeconfigRemoveCluster: any other context becomes the current one, or none.
RemovedFrom(cfg, c) ==
  LET others == {n \in Names \ {c} : cfg.contexts[n] # 0}
      currents == IF cfg.current # c THEN {cfg.current}
                  ELSE IF others = {} THEN {None} ELSE others
  IN  {With(cfg, c, 0, cur) : cur \in currents}

\* KubeconfigMerge or KubeconfigRemoveCluster, and KubeconfigWrite to a temporary file.
Apply(t) ==
  /\ At(t, "apply")
  /\ \/ /\ \/ /\ Kind[t] # "delete" /\ (opt[t].update \/ ~Conflict(mem[t], Of[t]))
              /\ temp' = [temp EXCEPT ![t] = Merged(mem[t], Of[t], new[t], opt[t].switch)]
           \/ /\ Kind[t] = "delete"
              /\ \E cfg \in RemovedFrom(mem[t], Of[t]) : temp' = [temp EXCEPT ![t] = cfg]
        /\ Goto(t, "rename") /\ UNCHANGED fault
     \/ Fails(t) /\ UNCHANGED temp
  /\ UNCHANGED <<world, disk, opt, new, mem, open, solo, was>>

\* Other processes that hold the file at a path open hold a file without a name from now on.
Unlinks(p) == open' = [u \in Tasks |-> IF Out(u) = p THEN "no" ELSE open[u]]

\* Mutated form of Rename: the file at the path is emptied first and written then.
RenameInPlace(t) ==
  /\ At(t, "rename") /\ Out(t) \in exists
  /\ IF file[Out(t)] # Empty
       THEN file' = [file EXCEPT ![Out(t)] = Empty] /\ UNCHANGED pc
       ELSE file' = [file EXCEPT ![Out(t)] = temp[t]]
            /\ Goto(t, IF Kind[t] = "delete" THEN "removeOwn" ELSE "ok")
  /\ UNCHANGED <<world, exists, opt, new, mem, temp, open, fault, solo, was>>

\* KubeconfigWrite follows symbolic links, for which the file must exist, and renames.
Rename(t) ==
  /\ At(t, "rename")
  /\ \/ /\ Out(t) \in exists /\ file' = [file EXCEPT ![Out(t)] = temp[t]]
        /\ Unlinks(Out(t))
        /\ Goto(t, IF Kind[t] = "delete" THEN "removeOwn" ELSE "ok") /\ UNCHANGED fault
     \/ Fails(t) /\ UNCHANGED <<file, open>>
  /\ UNCHANGED <<world, exists, opt, new, mem, temp, solo, was>>

\* KubeconfigWriteToPath, for --overwrite: os.Create ...
Truncate(t) ==
  /\ At(t, "truncate")
  /\ \/ /\ exists' = exists \cup {Out(t)} /\ file' = [file EXCEPT ![Out(t)] = Empty]
        /\ open' = [Shared(Out(t), {"rest"}) EXCEPT ![t] = "alone"]
        /\ Goto(t, "fill") /\ UNCHANGED fault
     \/ Fails(t) /\ UNCHANGED <<disk, open>>
  /\ UNCHANGED <<world, opt, new, mem, temp, solo, was>>

\* What is to be written, and what is there after a part of it: the sections are in the order
\* clusters, contexts, current context, users.
Content(t) == Merged(Empty, Of[t], new[t], TRUE)
Parts(t) == {[Content(t) EXCEPT !.users = Nothing],
             [Content(t) EXCEPT !.users = Nothing, !.contexts = Nothing, !.current = None]}

\* A write to the file that was opened, wherever that is now; left is what becomes of open.
WriteOpened(t, contents, left) ==
  \/ /\ open[t] = "no" /\ UNCHANGED <<file, open>>
  \/ /\ open[t] # "no" /\ \E cfg \in contents : file' = [file EXCEPT ![Out(t)] = cfg]
     /\ open' = [Shared(Out(t), {"fill", "rest"}) EXCEPT ![t] = left]

\* ... and write, which may fail, or be seen by others, half-way.
Fill(t) ==
  /\ At(t, "fill")
  /\ \/ WriteOpened(t, Parts(t), open[t]) /\ Goto(t, "rest") /\ UNCHANGED fault
     \/ Fails(t) /\ open' = [open EXCEPT ![t] = "no"] /\ UNCHANGED file
  /\ UNCHANGED <<world, exists, opt, new, mem, temp, solo, was>>

\* The rest of the write: the content is whole, unless others have emptied the file or written
\* to it in the meantime.
FillRest(t) ==
  /\ At(t, "rest")
  /\ \/ /\ WriteOpened(t, {Content(t)} \cup IF open[t] = "shared" THEN Parts(t) ELSE {}, "no")
        /\ Goto(t, "ok") /\ UNCHANGED fault
     \/ Fails(t) /\ open' = [open EXCEPT ![t] = "no"] /\ UNCHANGED file
  /\ UNCHANGED <<world, exists, opt, new, mem, temp, solo, was>>

\* The cluster's own file; that it cannot be removed is only a warning.
RemoveOwn(t) ==
  /\ At(t, "removeOwn")
  /\ \/ /\ exists' = exists \ {Own[Of[t]]} /\ file' = [file EXCEPT ![Own[Of[t]]] = Empty]
        /\ Unlinks(Own[Of[t]]) /\ UNCHANGED fault
     \/ fault' = fault \cup {t} /\ UNCHANGED <<disk, open>>
  /\ Goto(t, "ok") /\ UNCHANGED <<world, opt, new, mem, temp, solo, was>>

Kill(t) ==
  /\ pc[t] \in Working /\ Goto(t, "killed")
  /\ open' = [open EXCEPT ![t] = "no"]
  /\ UNCHANGED <<world, disk, opt, new, mem, temp, fault, solo, was>>
-----------------------------------------------------------------------------
Begin(t) == CreateCluster(t) \/ FindCluster(t) \/ DeleteCluster(t)
Read(t) == KubeconfigGet(t) \/ Load(t) \/ Make(t) \/ Apply(t)
Put(t) == Rename(t) \/ Truncate(t) \/ Fill(t) \/ FillRest(t) \/ RemoveOwn(t) \/ Kill(t)
Next == \E t \in Tasks : Begin(t) \/ Read(t) \/ Put(t)
Spec == Init /\ [][Next]_vars
-----------------------------------------------------------------------------
\* The clusters', the files' and the processes' state keep their types.
TypeOK ==
  /\ gen \in [Clusters -> Gens] /\ alive \subseteq Clusters
  /\ exists \subseteq Paths /\ file \in [Paths -> Configs]
  /\ opt \in [Tasks -> Options] /\ pc \in [Tasks -> {"idle"} \cup Working \cup Terminal]
  /\ new \in [Tasks -> Gens] /\ mem \in [Tasks -> Configs] /\ temp \in [Tasks -> Configs]
  /\ open \in [Tasks -> {"no", "alone", "shared"}]
  /\ \A t \in Tasks : open[t] # "no" => pc[t] \in {"fill", "rest"}
  /\ fault \subseteq Tasks /\ solo \subseteq Tasks /\ was \in [Tasks -> Configs]

\* A task that was told to overwrite the file has come to do so.
Overwritten(p) ==
  \E t \in Tasks : opt[t].overwrite /\ Out(t) = p /\ pc[t] \notin {"idle", "get", "truncate"}

\* Whatever processes race, fail or are killed, a cluster's three entries are all there or
\* all missing, of one generation, and the current context exists - in every file that no
\* process has come to overwrite in place; one that was may be left, and read, half written.
Whole(cfg) ==
  /\ \A c \in Clusters : cfg.clusters[c] = cfg.users[c] /\ cfg.users[c] = cfg.contexts[c]
  /\ cfg.current = None \/ cfg.contexts[cfg.current] # 0
FilesWhole == \A p \in Paths : Overwritten(p) \/ Whole(file[p])

\* Likewise the entries that the user has from elsewhere are lost from a file only when a
\* process has come to overwrite it, or when a cluster whose own file it is has been deleted,
\* and the file with it.
HasForeign(cfg) ==
  \A n \in Foreign : cfg.clusters[n] = 1 /\ cfg.users[n] = 1 /\ cfg.contexts[n] = 1
OwnRemoved(p) == \E t \in Tasks : Kind[t] = "delete" /\ Own[Of[t]] = p /\ pc[t] = "ok"
ForeignKept ==
  [][\A p \in Paths : HasForeign(file[p]) /\ ~HasForeign(file'[p]) =>
       (Overwritten(p) \/ OwnRemoved(p))']_vars

\* What a task that found the file old is to leave in it: the other entries as they were,
\* those of its cluster new or gone, and the current context where it was told to; without
\* --update it has not replaced an entry.
Exact(t, cfg) ==
  LET old == was[t]
      c == Of[t]
  IN  /\ \A n \in Names \ {c} : /\ cfg.clusters[n] = old.clusters[n]
                                /\ cfg.users[n] = old.users[n]
                                /\ cfg.contexts[n] = old.contexts[n]
      /\ cfg.contexts[c] = IF Kind[t] = "delete" THEN 0 ELSE gen[c]
      /\ Kind[t] # "delete" /\ ~opt[t].update => old.contexts[c] = 0
      /\ Kind[t] # "delete" => cfg.current =
           IF opt[t].switch \/ old.current = None THEN c ELSE old.current
      /\ Kind[t] = "delete" /\ old.current # c => cfg.current = old.current

\* A process that meets no other one and reports no error leaves exactly what it was told to;
\* one that overwrites leaves nothing else, whole, and a deletion removes the cluster's own
\* file - if that is its KUBECONFIG, with all that is in it.
SoloExact ==
  [][\A t \in solo \ fault' : pc[t] \in Working /\ pc'[t] = "ok" =>
       LET own == Kind[t] = "delete" /\ Own[Of[t]] = Out(t)
       IN  /\ ~opt[t].overwrite /\ ~own => Exact(t, file'[Out(t)])
           /\ opt[t].overwrite => file'[Out(t)] = Merged(Empty, Of[t], gen[Of[t]], TRUE)
           /\ Kind[t] = "delete" => Own[Of[t]] \notin exists']_vars
=============================================================================
