--------------------------- MODULE Kubeconfig_proofs ---------------------------
(***************************************************************************)
(* For any clusters, files and processes: the types, that no interleaving,  *)
(* failure or kill leaves a file with some of a cluster's entries unless it *)
(* is overwritten in place, that the user's other entries are lost only to  *)
(* an overwriting process or with a deleted cluster whose own file they are *)
(* in, and that a process which meets no other one and reports no error     *)
(* changes exactly what it was told to.                                     *)
(***************************************************************************)
EXTENDS Kubeconfig, TLAPS

\* The files that the model starts from.
LEMMA EmptyTyped == Empty \in Configs /\ Whole(Empty)
  BY KubeconfigAssumption DEF Empty, Configs, Gens, Nothing, Names, Whole

LEMMA UserFileTyped ==
  ASSUME NEW cs \in SUBSET Clusters, NEW cur \in {None} \cup Foreign
  PROVE  UserFile(cs, cur) \in Configs /\ Whole(UserFile(cs, cur))
<1>1. Entries(cs) \in [Names -> Gens]
  BY KubeconfigAssumption DEF Gens, Entries
<1>2. cur # None => Entries(cs)[cur] # 0
  BY DEF Names, Entries
<1> QED
  BY <1>1, <1>2 DEF Configs, Whole, Names, UserFile

\* Setting or deleting the entries of a cluster.
LEMMA WithIs ==
  ASSUME NEW cfg \in Configs, NEW c \in Clusters, NEW g \in Gens, NEW cur \in Names \cup {None}
  PROVE  /\ With(cfg, c, g, cur) \in Configs
         /\ Whole(cfg) /\ (cur # None => IF cur = c THEN g # 0 ELSE cfg.contexts[cur] # 0)
              => Whole(With(cfg, c, g, cur))
         /\ HasForeign(With(cfg, c, g, cur)) <=> HasForeign(cfg)
<1>1. c \in Names /\ c # None
  BY KubeconfigAssumption DEF Names
<1>2. With(cfg, c, g, cur) \in Configs
  <2>1. /\ [cfg.clusters EXCEPT ![c] = g] \in [Names -> Gens]
        /\ [cfg.users EXCEPT ![c] = g] \in [Names -> Gens]
        /\ [cfg.contexts EXCEPT ![c] = g] \in [Names -> Gens]
    BY <1>1 DEF Configs
  <2> QED
    BY <2>1 DEF With, Configs
<1>3. ASSUME Whole(cfg), cur # None => IF cur = c THEN g # 0 ELSE cfg.contexts[cur] # 0
      PROVE  Whole(With(cfg, c, g, cur))
  <2>1. \A d \in Clusters : /\ [cfg.clusters EXCEPT ![c] = g][d] = [cfg.users EXCEPT ![c] = g][d]
                            /\ [cfg.users EXCEPT ![c] = g][d] = [cfg.contexts EXCEPT ![c] = g][d]
    BY <1>3 DEF Whole, Configs, Names
  <2>2. cur = None \/ [cfg.contexts EXCEPT ![c] = g][cur] # 0
    BY <1>1, <1>3 DEF Configs
  <2> QED
    BY <2>1, <2>2 DEF Whole, With
<1>4. HasForeign(With(cfg, c, g, cur)) <=> HasForeign(cfg)
  BY KubeconfigAssumption DEF HasForeign, Configs, Names, With
<1> QED
  BY <1>2, <1>3, <1>4

\* What merging a cluster's entries into a file gives.
LEMMA MergedIs ==
  ASSUME NEW cfg \in Configs, NEW c \in Clusters, NEW g \in Gens, NEW switch \in BOOLEAN
  PROVE  /\ Merged(cfg, c, g, switch) \in Configs
         /\ g # 0 /\ Whole(cfg) => Whole(Merged(cfg, c, g, switch))
         /\ HasForeign(Merged(cfg, c, g, switch)) <=> HasForeign(cfg)
<1> DEFINE cur == IF switch \/ cfg.current = None THEN c ELSE cfg.current
<1>1. cur \in Names \cup {None}
  BY DEF Configs, Names
<1>2. g # 0 /\ Whole(cfg) => (cur # None => IF cur = c THEN g # 0 ELSE cfg.contexts[cur] # 0)
  BY DEF Whole
<1>3. Merged(cfg, c, g, switch) = With(cfg, c, g, cur)
  BY DEF Merged
<1> HIDE DEF cur
<1> QED
  BY <1>1, <1>2, <1>3, WithIs

\* What removing a cluster's entries from a file gives.
LEMMA RemovedIs ==
  ASSUME NEW cfg \in Configs, NEW c \in Clusters, NEW r \in RemovedFrom(cfg, c)
  PROVE  /\ r \in Configs
         /\ Whole(cfg) => Whole(r)
         /\ HasForeign(r) <=> HasForeign(cfg)
<1>1. PICK cur \in Names \cup {None} :
        /\ r = With(cfg, c, 0, cur)
        /\ cur # None => cur # c
        /\ cur = cfg.current \/ cur = None \/ cfg.contexts[cur] # 0
  BY DEF RemovedFrom, Configs
<1>2. Whole(cfg) => (cur # None => IF cur = c THEN 0 # 0 ELSE cfg.contexts[cur] # 0)
  BY <1>1 DEF Whole
<1>3. 0 \in Gens
  BY KubeconfigAssumption DEF Gens
<1> QED
  BY <1>1, <1>2, <1>3, WithIs

\* The file that a task works on.
LEMMA OutIs == ASSUME TypeOK, NEW t \in Tasks PROVE Out(t) \in Paths
  BY KubeconfigAssumption DEF TypeOK, Out

-----------------------------------------------------------------------------
\* The parts of the invariant: whole files in memory and on disk and, for that, that a
\* fetched kubeconfig is of a cluster that was created, and that deletions fetch none.
Fetched(t) ==
  /\ pc[t] \in {"get", "truncate", "fill", "rest"} => Kind[t] # "delete"
  /\ pc[t] \in {"truncate", "fill", "rest"} => opt[t].overwrite
  /\ pc[t] \in {"load", "make", "reload", "apply", "truncate", "fill", "rest"} /\ Kind[t] # "delete"
       => new[t] # 0
Spoilt(t) == Overwritten(Out(t))
WholeInv ==
  /\ FilesWhole
  /\ \A t \in Tasks : (Spoilt(t) \/ (Whole(mem[t]) /\ Whole(temp[t]))) /\ Fetched(t)
  /\ \A c \in alive : gen[c] # 0

\* The initial state.
LEMMA InitOK == Init => TypeOK /\ WholeInv
<1> SUFFICES ASSUME Init PROVE TypeOK /\ WholeInv
  OBVIOUS
<1>1. /\ \A p \in Paths : file[p] \in Configs /\ Whole(file[p])
      /\ file = [p \in Paths |-> file[p]] /\ exists \subseteq Paths
  <2>1. CASE exists = {} /\ file = [p \in Paths |-> Empty]
    BY <2>1, EmptyTyped
  <2>2. ASSUME NEW users \in Paths, NEW cur \in {None} \cup Foreign, exists = {users},
               file = [p \in Paths |-> IF p = users THEN UserFile(alive, cur) ELSE Empty]
        PROVE  /\ \A p \in Paths : file[p] \in Configs /\ Whole(file[p])
               /\ file = [p \in Paths |-> file[p]] /\ exists \subseteq Paths
    <3>1. UserFile(alive, cur) \in Configs /\ Whole(UserFile(alive, cur))
      BY UserFileTyped DEF Init
    <3> QED
      BY <2>2, <3>1, EmptyTyped
  <2> QED
    BY <2>1, <2>2 DEF Init
<1>2. gen \in [Clusters -> Gens] /\ alive \subseteq Clusters /\ \A c \in alive : gen[c] # 0
  BY KubeconfigAssumption DEF Init, Gens
<1>3. /\ mem = [t \in Tasks |-> Empty] /\ temp = [t \in Tasks |-> Empty]
      /\ was = [t \in Tasks |-> Empty] /\ pc = [t \in Tasks |-> "idle"]
      /\ new \in [Tasks -> Gens] /\ open = [t \in Tasks |-> "no"]
      /\ opt \in [Tasks -> Options] /\ fault = {} /\ solo = {}
  BY KubeconfigAssumption DEF Init, Gens
<1>4. TypeOK
  BY <1>1, <1>2, <1>3, EmptyTyped DEF TypeOK
<1>5. WholeInv
  BY <1>1, <1>2, <1>3, EmptyTyped DEF WholeInv, FilesWhole, Fetched
<1> QED
  BY <1>4, <1>5

PCs == {"idle"} \cup Working \cup Terminal

\* Moving a task moves no other one and keeps the types.
LEMMA GotoIs ==
  ASSUME TypeOK, NEW t \in Tasks, NEW q \in PCs, Goto(t, q)
  PROVE  /\ pc' \in [Tasks -> PCs] /\ pc'[t] = q
         /\ \A u \in Tasks : u # t => pc'[u] = pc[u]
  BY DEF TypeOK, Goto, PCs

LEMMA FailsIs ==
  ASSUME TypeOK, NEW t \in Tasks, Fails(t)
  PROVE  /\ pc' \in [Tasks -> PCs] /\ fault' \subseteq Tasks
         /\ pc'[t] = (IF Kind[t] = "delete" THEN "removeOwn" ELSE "failed")
         /\ \A u \in Tasks : u # t => pc'[u] = pc[u]
<1> DEFINE q == IF Kind[t] = "delete" THEN "removeOwn" ELSE "failed"
<1>1. q \in PCs /\ Goto(t, q) /\ fault' = fault \cup {t}
  BY DEF Fails, PCs, Working, Terminal
<1> HIDE DEF q
<1>2. pc' \in [Tasks -> PCs] /\ pc'[t] = q /\ \A u \in Tasks : u # t => pc'[u] = pc[u]
  BY <1>1, GotoIs
<1>3. fault' \subseteq Tasks
  BY <1>1 DEF TypeOK
<1> QED
  BY <1>2, <1>3 DEF q

\* Beginning a task keeps the types and records the file it finds.
LEMMA BeginsIs ==
  ASSUME TypeOK, NEW t \in Tasks, Begins(t)
  PROVE  /\ solo' \subseteq Tasks /\ was' \in [Tasks -> Configs] /\ pc[t] = "idle"
         /\ UNCHANGED <<exists, file, opt, new, mem, temp, open>>
  BY OutIs DEF TypeOK, Begins, disk, At

\* A step is of one task, and a file that a task has come to overwrite stays one.
LEMMA Onward ==
  ASSUME TypeOK, NEW t \in Tasks, Begin(t) \/ Read(t) \/ Put(t)
  PROVE  /\ UNCHANGED opt /\ \A u \in Tasks : u # t => pc'[u] = pc[u]
         /\ pc[t] \notin {"idle", "get", "truncate"} => pc'[t] \notin {"idle", "get", "truncate"}
<1>1. CASE Begin(t)
  BY <1>1 DEF Begin, CreateCluster, FindCluster, DeleteCluster, Begins, At, Goto, TypeOK
<1>2. CASE Fails(t)
  <2>1. pc'[t] \in {"removeOwn", "failed"} /\ \A u \in Tasks : u # t => pc'[u] = pc[u]
    BY <1>2, FailsIs
  <2>2. ~Begin(t) => UNCHANGED opt
    BY DEF Read, KubeconfigGet, Load, Make, Apply, Put, Rename, Truncate, Fill, FillRest, RemoveOwn, Kill
  <2> QED
    BY <1>1, <2>1, <2>2
<1>3. CASE Read(t) /\ ~Fails(t)
  BY <1>3 DEF Read, KubeconfigGet, Load, Make, Apply, Goto, At, TypeOK
<1>4. CASE Put(t) /\ ~Fails(t)
  BY <1>4 DEF Put, Rename, Truncate, Fill, FillRest, RemoveOwn, Kill, Goto, At, TypeOK
<1> QED
  BY <1>1, <1>2, <1>3, <1>4

LEMMA StaysOverwritten ==
  ASSUME TypeOK, NEW t \in Tasks, Begin(t) \/ Read(t) \/ Put(t)
  PROVE  /\ \A p \in Paths : Overwritten(p) => Overwritten(p)'
         /\ \A u \in Tasks : Out(u)' = Out(u) /\ (Spoilt(u) => Spoilt(u)')
<1>1. /\ UNCHANGED opt /\ \A u \in Tasks : u # t => pc'[u] = pc[u]
      /\ pc[t] \notin {"idle", "get", "truncate"} => pc'[t] \notin {"idle", "get", "truncate"}
  BY Onward
<1>2. \A u \in Tasks : Out(u)' = Out(u)
  BY <1>1 DEF Out
<1>3. \A p : Overwritten(p) => Overwritten(p)'
  BY <1>1, <1>2 DEF Overwritten
<1> QED
  BY <1>2, <1>3 DEF Spoilt
-----------------------------------------------------------------------------
\* One step of one task.  What it may disturb: the clusters, the files, its own memory.
LEMMA BeginStep ==
  ASSUME TypeOK, WholeInv, NEW t \in Tasks, Begin(t)
  PROVE  TypeOK' /\ WholeInv'
<1>1. /\ solo' \subseteq Tasks /\ was' \in [Tasks -> Configs] /\ pc[t] = "idle"
      /\ UNCHANGED <<exists, file, opt, new, mem, temp, open>>
  BY BeginsIs DEF Begin, CreateCluster, FindCluster, DeleteCluster
<1>2. PICK q \in {"get", "load", "failed"} :
        Goto(t, q) /\ (q = "load" => Kind[t] = "delete") /\ (q = "get" => Kind[t] # "delete")
  BY DEF Begin, CreateCluster, FindCluster, DeleteCluster
<1>3. q \in PCs
  BY <1>2 DEF PCs, Working, Terminal
<1>4. pc' \in [Tasks -> PCs] /\ pc'[t] = q /\ \A u \in Tasks : u # t => pc'[u] = pc[u]
  BY <1>2, <1>3, GotoIs
<1>5. gen' \in [Clusters -> Gens] /\ alive' \subseteq Clusters /\ \A c \in alive' : gen'[c] # 0
  <2>1. Of[t] \in Clusters /\ MaxGen \in Nat
    BY KubeconfigAssumption
  <2>2. CASE UNCHANGED gen /\ alive' \subseteq alive
    BY <2>2 DEF TypeOK, WholeInv
  <2>3. CASE /\ gen[Of[t]] < MaxGen /\ alive' = alive \cup {Of[t]}
             /\ gen' = [gen EXCEPT ![Of[t]] = @ + 1]
    BY <2>1, <2>3 DEF TypeOK, WholeInv, Gens
  <2> QED
    BY <2>2, <2>3 DEF Begin, CreateCluster, FindCluster, DeleteCluster, world
<1>6. fault' \subseteq Tasks
  BY DEF Begin, CreateCluster, FindCluster, DeleteCluster, TypeOK
<1>7. \A u \in Tasks : (open'[u] # "no" => pc'[u] \in {"fill", "rest"}) /\ Fetched(u)'
  BY <1>1, <1>2, <1>4 DEF TypeOK, WholeInv, Fetched
<1> QED
  BY <1>1, <1>4, <1>5, <1>6, <1>7, StaysOverwritten DEF TypeOK, WholeInv, FilesWhole, Whole, PCs

LEMMA GetStep ==
  ASSUME TypeOK, WholeInv, NEW t \in Tasks, KubeconfigGet(t)
  PROVE  TypeOK' /\ WholeInv'
<1>m. /\ \A p \in Paths : Overwritten(p) => Overwritten(p)'
      /\ \A u \in Tasks : Out(u)' = Out(u) /\ (Spoilt(u) => Spoilt(u)')
  BY StaysOverwritten DEF Read
<1>1. /\ UNCHANGED <<gen, alive, exists, file, opt, mem, temp, open, solo, was>>
      /\ pc[t] = "get"
  BY DEF KubeconfigGet, world, disk, At
<1>2. CASE Fails(t) /\ UNCHANGED new
  <2>1. /\ pc' \in [Tasks -> PCs] /\ fault' \subseteq Tasks
        /\ pc'[t] \in {"removeOwn", "failed"} /\ \A u \in Tasks : u # t => pc'[u] = pc[u]
    BY <1>2, FailsIs
  <2> QED
    BY <1>m, <1>1, <1>2, <2>1 DEF TypeOK, WholeInv, FilesWhole, Whole, Fetched, PCs
<1>3. CASE /\ Of[t] \in alive /\ new' = [new EXCEPT ![t] = gen[Of[t]]]
           /\ Goto(t, IF opt[t].overwrite THEN "truncate" ELSE "load") /\ UNCHANGED fault
  <2>1. PICK q \in {"truncate", "load"} : Goto(t, q) /\ (q = "truncate" => opt[t].overwrite)
    BY <1>3
  <2>2. q \in PCs
    BY DEF PCs, Working
  <2>3. pc' \in [Tasks -> PCs] /\ pc'[t] = q /\ \A u \in Tasks : u # t => pc'[u] = pc[u]
    BY <2>1, <2>2, GotoIs
  <2>4. new' \in [Tasks -> Gens] /\ new'[t] # 0 /\ \A u \in Tasks : u # t => new'[u] = new[u]
    BY <1>3, KubeconfigAssumption DEF TypeOK, WholeInv
  <2> QED
    BY <1>m, <1>1, <1>3, <2>1, <2>3, <2>4 DEF TypeOK, WholeInv, FilesWhole, Whole, Fetched, PCs
<1> QED
  BY <1>2, <1>3 DEF KubeconfigGet

LEMMA LoadStep ==
  ASSUME TypeOK, WholeInv, NEW t \in Tasks, Load(t)
  PROVE  TypeOK' /\ WholeInv'
<1>m. /\ \A p \in Paths : Overwritten(p) => Overwritten(p)'
      /\ \A u \in Tasks : Out(u)' = Out(u) /\ (Spoilt(u) => Spoilt(u)')
  BY StaysOverwritten DEF Read
<1>1. /\ UNCHANGED <<gen, alive, exists, file, opt, new, temp, open, solo, was>>
      /\ pc[t] \in {"load", "reload"} /\ Out(t) \in Paths
  BY OutIs DEF Load, world, disk
<1>2. mem' \in [Tasks -> Configs] /\ \A u \in Tasks : Spoilt(u) \/ (Whole(mem'[u]) /\ Whole(temp[u]))
  BY <1>1 DEF Load, TypeOK, WholeInv, FilesWhole, Spoilt
<1>3. CASE Fails(t)
  <2>1. /\ pc' \in [Tasks -> PCs] /\ fault' \subseteq Tasks
        /\ pc'[t] \in {"removeOwn", "failed"} /\ \A u \in Tasks : u # t => pc'[u] = pc[u]
    BY <1>3, FailsIs
  <2> QED
    BY <1>m, <1>1, <1>2, <2>1 DEF TypeOK, WholeInv, FilesWhole, Whole, Fetched, PCs
<1>4. ASSUME NEW q \in {"apply", "make"}, Goto(t, q), UNCHANGED fault
      PROVE  TypeOK' /\ WholeInv'
  <2>1. q \in PCs
    BY DEF PCs, Working
  <2>2. pc' \in [Tasks -> PCs] /\ pc'[t] = q /\ \A u \in Tasks : u # t => pc'[u] = pc[u]
    BY <1>4, <2>1, GotoIs
  <2> QED
    BY <1>m, <1>1, <1>2, <1>4, <2>2 DEF TypeOK, WholeInv, FilesWhole, Whole, Fetched, PCs
<1> QED
  BY <1>3, <1>4 DEF Load

LEMMA MakeStep ==
  ASSUME TypeOK, WholeInv, NEW t \in Tasks, Make(t)
  PROVE  TypeOK' /\ WholeInv'
<1>m. /\ \A p \in Paths : Overwritten(p) => Overwritten(p)'
      /\ \A u \in Tasks : Out(u)' = Out(u) /\ (Spoilt(u) => Spoilt(u)')
  BY StaysOverwritten DEF Read
<1>1. /\ UNCHANGED <<gen, alive, opt, new, mem, temp, solo, was>>
      /\ pc[t] = "make" /\ Out(t) \in Paths
  BY OutIs DEF Make, world, At
<1>2. exists' \subseteq Paths /\ file' \in [Paths -> Configs] /\ \A p \in Paths : Overwritten(p) \/ Whole(file'[p])
  BY <1>1, EmptyTyped DEF Make, TypeOK, WholeInv, FilesWhole, disk
<1>o. /\ open' \in [Tasks -> {"no", "alone", "shared"}]
      /\ \A u \in Tasks : open'[u] # "no" => open[u] # "no"
  BY DEF Make, Shared, TypeOK
<1>3. CASE Fails(t)
  <2>1. /\ pc' \in [Tasks -> PCs] /\ fault' \subseteq Tasks
        /\ pc'[t] \in {"removeOwn", "failed"} /\ \A u \in Tasks : u # t => pc'[u] = pc[u]
    BY <1>3, FailsIs
  <2> QED
    BY <1>m, <1>o, <1>1, <1>2, <2>1 DEF TypeOK, WholeInv, FilesWhole, Whole, Fetched, PCs
<1>4. CASE Goto(t, "reload") /\ UNCHANGED fault
  <2>1. "reload" \in PCs
    BY DEF PCs, Working
  <2>2. pc' \in [Tasks -> PCs] /\ pc'[t] = "reload" /\ \A u \in Tasks : u # t => pc'[u] = pc[u]
    BY <1>4, <2>1, GotoIs
  <2> QED
    BY <1>m, <1>o, <1>1, <1>2, <1>4, <2>2 DEF TypeOK, WholeInv, FilesWhole, Whole, Fetched, PCs
<1> QED
  BY <1>3, <1>4 DEF Make

LEMMA ApplyStep ==
  ASSUME TypeOK, WholeInv, NEW t \in Tasks, Apply(t)
  PROVE  TypeOK' /\ WholeInv'
<1>m. /\ \A p \in Paths : Overwritten(p) => Overwritten(p)'
      /\ \A u \in Tasks : Out(u)' = Out(u) /\ (Spoilt(u) => Spoilt(u)')
  BY StaysOverwritten DEF Read
<1>1. /\ UNCHANGED <<gen, alive, exists, file, opt, new, mem, open, solo, was>>
      /\ pc[t] = "apply" /\ Of[t] \in Clusters /\ mem[t] \in Configs /\ (Spoilt(t) \/ Whole(mem[t]))
      /\ new[t] \in Gens /\ opt[t].switch \in BOOLEAN
  BY KubeconfigAssumption DEF Apply, TypeOK, WholeInv, world, disk, At
<1>2. CASE Fails(t) /\ UNCHANGED temp
  <2>1. /\ pc' \in [Tasks -> PCs] /\ fault' \subseteq Tasks
        /\ pc'[t] \in {"removeOwn", "failed"} /\ \A u \in Tasks : u # t => pc'[u] = pc[u]
    BY <1>2, FailsIs
  <2> QED
    BY <1>m, <1>1, <1>2, <2>1 DEF TypeOK, WholeInv, FilesWhole, Whole, Fetched, PCs
<1>3. CASE ~(Fails(t) /\ UNCHANGED temp)
  <2>1. Goto(t, "rename") /\ UNCHANGED fault
    BY <1>3 DEF Apply
  <2>2. PICK cfg \in Configs : temp' = [temp EXCEPT ![t] = cfg] /\ (Spoilt(t) \/ Whole(cfg))
    <3>1. CASE Kind[t] # "delete"
      <4>1. new[t] # 0
        BY <1>1, <3>1 DEF WholeInv, Fetched
      <4>2. temp' = [temp EXCEPT ![t] = Merged(mem[t], Of[t], new[t], opt[t].switch)]
        BY <1>3, <3>1 DEF Apply
      <4> QED
        BY <1>1, <4>1, <4>2, MergedIs
    <3>2. CASE Kind[t] = "delete"
      <4>1. PICK cfg \in RemovedFrom(mem[t], Of[t]) : temp' = [temp EXCEPT ![t] = cfg]
        BY <1>3, <3>2 DEF Apply
      <4> QED
        BY <1>1, <4>1, RemovedIs
    <3> QED
      BY <3>1, <3>2
  <2>3. temp' \in [Tasks -> Configs] /\ \A u \in Tasks : Spoilt(u) \/ (Whole(mem[u]) /\ Whole(temp'[u]))
    BY <2>2 DEF TypeOK, WholeInv
  <2>4. "rename" \in PCs
    BY DEF PCs, Working
  <2>5. pc' \in [Tasks -> PCs] /\ pc'[t] = "rename" /\ \A u \in Tasks : u # t => pc'[u] = pc[u]
    BY <2>1, <2>4, GotoIs
  <2> QED
    BY <1>m, <1>1, <2>1, <2>3, <2>5 DEF TypeOK, WholeInv, FilesWhole, Whole, Fetched, PCs
<1> QED
  BY <1>2, <1>3

\* What a task that overwrites its file may write to it.
LEMMA ContentTyped ==
  ASSUME TypeOK, NEW t \in Tasks
  PROVE  Content(t) \in Configs /\ Parts(t) \subseteq Configs
<1>1. Content(t) \in Configs
  BY EmptyTyped, MergedIs, KubeconfigAssumption DEF Content, TypeOK
<1>2. Nothing \in [Names -> Gens]
  BY KubeconfigAssumption DEF Nothing, Gens
<1> QED
  BY <1>1, <1>2 DEF Parts, Configs

LEMMA PutStep ==
  ASSUME TypeOK, WholeInv, NEW t \in Tasks, Put(t)
  PROVE  TypeOK' /\ WholeInv'
<1>m. /\ \A p \in Paths : Overwritten(p) => Overwritten(p)'
      /\ \A u \in Tasks : Out(u)' = Out(u) /\ (Spoilt(u) => Spoilt(u)')
  BY StaysOverwritten
<1>1. /\ UNCHANGED <<gen, alive, opt, new, mem, temp, solo, was>>
      /\ pc[t] \in Working /\ Out(t) \in Paths /\ Of[t] \in Clusters /\ Own[Of[t]] \in Paths
  BY KubeconfigAssumption, OutIs
  DEF Put, Rename, Truncate, Fill, FillRest, RemoveOwn, Kill, world, disk, At, Working
<1>2. file' \in [Paths -> Configs] /\ \A p \in Paths : Overwritten(p) \/ Whole(file'[p])
  <2>1. CASE Rename(t)
    BY <1>1, <2>1 DEF Rename, TypeOK, WholeInv, FilesWhole, Spoilt
  <2>2. CASE Truncate(t)
    BY <1>1, <2>2, EmptyTyped DEF Truncate, TypeOK, WholeInv, FilesWhole, disk
  <2>3. CASE Fill(t) \/ FillRest(t)
    <3>1. CASE UNCHANGED file
      BY <3>1 DEF TypeOK, WholeInv, FilesWhole
    <3>2. CASE \E cfg \in {Content(t)} \cup Parts(t) : file' = [file EXCEPT ![Out(t)] = cfg]
      <4>1. PICK cfg \in Configs : file' = [file EXCEPT ![Out(t)] = cfg]
        BY <3>2, ContentTyped
      <4>2. opt[t].overwrite /\ pc[t] \in {"fill", "rest"}
        BY <2>3 DEF Fill, FillRest, At, WholeInv, Fetched
      <4>3. Overwritten(Out(t))
        BY <4>2 DEF Overwritten
      <4> QED
        BY <1>1, <4>1, <4>3 DEF TypeOK, WholeInv, FilesWhole
    <3> QED
      BY <2>3, <3>1, <3>2 DEF Fill, FillRest, WriteOpened
  <2>4. CASE RemoveOwn(t)
    BY <1>1, <2>4, EmptyTyped DEF RemoveOwn, TypeOK, WholeInv, FilesWhole, disk
  <2>5. CASE Kill(t)
    BY <2>5 DEF Kill, TypeOK, WholeInv, FilesWhole, disk
  <2> QED
    BY <2>1, <2>2, <2>3, <2>4, <2>5 DEF Put
<1>3. exists' \subseteq Paths
  BY <1>1 DEF Put, Rename, Truncate, Fill, FillRest, RemoveOwn, Kill, disk, TypeOK
<1>4. /\ pc' \in [Tasks -> PCs] /\ fault' \subseteq Tasks
      /\ pc'[t] \in Terminal \cup {"fill", "rest", "removeOwn"}
      /\ pc'[t] = "fill" => pc[t] = "truncate"
      /\ pc'[t] = "rest" => pc[t] = "fill"
      /\ \A u \in Tasks : u # t => pc'[u] = pc[u]
  <2>1. CASE Fails(t)
    BY <2>1, FailsIs DEF Terminal
  <2>2. ASSUME NEW q \in Terminal \cup {"fill", "rest", "removeOwn"}, Goto(t, q),
               q = "fill" => pc[t] = "truncate", q = "rest" => pc[t] = "fill", fault' \subseteq Tasks
        PROVE  <1>4!1 /\ <1>4!2 /\ <1>4!3 /\ <1>4!4 /\ <1>4!5
    BY <2>2, GotoIs DEF PCs, Working, Terminal
  <2> QED
    BY <2>1, <2>2 DEF Put, Rename, Truncate, Fill, FillRest, RemoveOwn, Kill, TypeOK, Terminal, At
<1>5. /\ open' \in [Tasks -> {"no", "alone", "shared"}]
      /\ \A u \in Tasks : open'[u] # "no" => pc'[u] \in {"fill", "rest"}
  <2>1. CASE Rename(t)
    BY <1>4, <2>1 DEF Rename, Unlinks, TypeOK, At
  <2>2. CASE Truncate(t)
    BY <1>4, <2>2 DEF Truncate, Shared, TypeOK, At, Goto
  <2>3. CASE Fill(t) \/ FillRest(t)
    <3>1. CASE WriteOpened(t, Parts(t), open[t]) /\ At(t, "fill") /\ Goto(t, "rest")
      BY <1>4, <3>1 DEF WriteOpened, Shared, TypeOK, At, Goto
    <3>2. CASE open' = [open EXCEPT ![t] = "no"]
      BY <1>4, <3>2 DEF TypeOK
    <3>3. CASE FillRest(t)
      BY <1>4, <3>3 DEF FillRest, WriteOpened, Shared, TypeOK, At
    <3> QED
      BY <2>3, <3>1, <3>2, <3>3 DEF Fill
  <2>4. CASE RemoveOwn(t)
    BY <1>4, <2>4 DEF RemoveOwn, Unlinks, TypeOK, At
  <2>5. CASE Kill(t)
    BY <1>4, <2>5 DEF Kill, TypeOK
  <2> QED
    BY <2>1, <2>2, <2>3, <2>4, <2>5 DEF Put
<1>6. \A u \in Tasks : Fetched(u)'
  BY <1>1, <1>4 DEF WholeInv, Fetched, Terminal
<1> QED
  BY <1>m, <1>1, <1>2, <1>3, <1>4, <1>5, <1>6 DEF TypeOK, WholeInv, FilesWhole, Whole, PCs

\* Every step keeps types and whole files.
LEMMA Step == TypeOK /\ WholeInv /\ [Next]_vars => TypeOK' /\ WholeInv'
<1> SUFFICES ASSUME TypeOK, WholeInv, [Next]_vars PROVE TypeOK' /\ WholeInv'
  OBVIOUS
<1>1. CASE UNCHANGED vars
  BY <1>1 DEF vars, TypeOK, WholeInv, FilesWhole, Whole, Fetched, Spoilt, Overwritten, Out
<1>2. CASE Next
  BY <1>2, BeginStep, GetStep, LoadStep, MakeStep, ApplyStep, PutStep DEF Next, Read
<1> QED
  BY <1>1, <1>2

\* Type correctness of Kubeconfig for any clusters, files and processes.
THEOREM TypeCorrect == Spec => []TypeOK
  BY InitOK, Step, PTL DEF Spec

\* No interleaving, failure or kill leaves some of a cluster's entries in a file, or a current
\* context that does not exist, unless a process has come to overwrite the file in place.
THEOREM FilesStayWhole == Spec => []FilesWhole
<1>1. WholeInv => FilesWhole
  BY DEF WholeInv
<1> QED
  BY <1>1, InitOK, Step, PTL DEF Spec
-----------------------------------------------------------------------------
\* The two ways in which the user's entries may have been lost from a file.
LostFrom(p) == Overwritten(p) \/ OwnRemoved(p)

\* Where the user's entries are, or are not: until then, what a task has read from the file
\* and what it is about to put there has them if and only if the file has them, and nobody is
\* about to make the file anew.
Kept(t, p) ==
  /\ pc[t] \in {"truncate", "fill", "rest"} => opt[t].overwrite
  /\ pc[t] = "removeOwn" => Kind[t] = "delete"
  /\ ~LostFrom(p) /\ Out(t) = p =>
       /\ HasForeign(file[p]) => pc[t] # "make"
       /\ pc[t] = "apply" => (HasForeign(mem[t]) <=> HasForeign(file[p]))
       /\ pc[t] = "rename" => (HasForeign(temp[t]) <=> HasForeign(file[p]))
KeptInv(p) ==
  /\ ~LostFrom(p) /\ HasForeign(file[p]) => p \in exists
  /\ \A t \in Tasks : Kept(t, p)

\* Without foreign entries there is nothing to keep.
LEMMA EmptyHasNone == Foreign # {} => ~HasForeign(Empty)
  BY DEF HasForeign, Empty, Nothing, Names

\* Initially a file that has entries exists, and no task has begun.
LEMMA KeptInit == ASSUME Foreign # {}, Init, NEW p \in Paths PROVE KeptInv(p)
<1>1. HasForeign(file[p]) => p \in exists
  BY EmptyHasNone, KubeconfigAssumption DEF Init
<1>2. \A t \in Tasks : pc[t] = "idle"
  BY DEF Init
<1> QED
  BY <1>1, <1>2 DEF KeptInv, Kept

\* What is lost stays lost.
LEMMA StaysLost ==
  ASSUME TypeOK, NEW t \in Tasks, Begin(t) \/ Read(t) \/ Put(t)
  PROVE  UNCHANGED opt /\ \A p \in Paths : LostFrom(p) => LostFrom(p)'
<1>1. \A p \in Paths : OwnRemoved(p) => OwnRemoved(p)'
  <2>1. pc[t] = "ok" => pc'[t] = pc[t]
    BY DEF Begin, CreateCluster, FindCluster, DeleteCluster, Begins, Read, KubeconfigGet, Load, Make, Apply,
           Put, Rename, Truncate, Fill, FillRest, RemoveOwn, Kill, At, Working
  <2> QED
    BY <2>1, Onward DEF OwnRemoved
<1> QED
  BY <1>1, Onward, StaysOverwritten DEF LostFrom

\* Every step that loses nothing keeps the user's entries where they are, and every step the
\* invariant.
LEMMA KeptStep ==
  ASSUME Foreign # {}, TypeOK, WholeInv, NEW p \in Paths, KeptInv(p), [Next]_vars
  PROVE  KeptInv(p)' /\ (~LostFrom(p)' => (HasForeign(file'[p]) <=> HasForeign(file[p])))
<1> DEFINE Same == ~LostFrom(p)' => /\ HasForeign(file'[p]) <=> HasForeign(file[p])
                                    /\ HasForeign(file'[p]) => p \in exists'
           Mine(t) == /\ \A u \in Tasks : u # t => mem'[u] = mem[u] /\ temp'[u] = temp[u]
                      /\ Kept(t, p)'
<1> HIDE DEF LostFrom
<1>1. ASSUME NEW t \in Tasks, Begin(t) \/ Read(t) \/ Put(t), Same, Mine(t)
      PROVE  KeptInv(p)' /\ (~LostFrom(p)' => (HasForeign(file'[p]) <=> HasForeign(file[p])))
  <2>1. UNCHANGED opt /\ (LostFrom(p) => LostFrom(p)') /\ \A u \in Tasks : u # t => pc'[u] = pc[u]
    BY <1>1, StaysLost, Onward
  <2>2. ASSUME NEW u \in Tasks, u # t PROVE Kept(u, p)'
    BY <1>1, <2>1, <2>2 DEF KeptInv, Kept, HasForeign, Out
  <2> QED
    BY <1>1, <2>1, <2>2 DEF KeptInv, HasForeign
<1>2. CASE UNCHANGED vars
  <2>1. LostFrom(p)' <=> LostFrom(p)
    BY <1>2 DEF vars, LostFrom, Overwritten, OwnRemoved, Out
  <2> QED
    BY <1>2, <2>1 DEF vars, KeptInv, Kept, HasForeign, Out
<1>3. ASSUME NEW t \in Tasks, Begin(t) \/ Read(t) \/ Put(t), UNCHANGED <<exists, file>> PROVE Same
  BY <1>3, StaysLost DEF KeptInv, HasForeign
<1>4. ASSUME NEW t \in Tasks, Begin(t) PROVE Same /\ Mine(t)
  <2>1. UNCHANGED <<exists, file, opt, mem, temp>>
    BY <1>4, BeginsIs DEF Begin, CreateCluster, FindCluster, DeleteCluster
  <2>2. pc'[t] \in {"get", "load", "failed"}
    BY <1>4 DEF Begin, CreateCluster, FindCluster, DeleteCluster, Goto, TypeOK
  <2> QED
    BY <1>3, <1>4, <2>1, <2>2 DEF Kept
<1>5. ASSUME NEW t \in Tasks, KubeconfigGet(t) PROVE Same /\ Mine(t)
  <2>1. UNCHANGED <<exists, file, opt, mem, temp>>
    BY <1>5 DEF KubeconfigGet, disk
  <2>2. /\ pc'[t] \in {"truncate", "load", "removeOwn", "failed"}
        /\ pc'[t] = "truncate" => opt[t].overwrite
        /\ pc'[t] = "removeOwn" => Kind[t] = "delete"
    BY <1>5 DEF KubeconfigGet, Fails, Goto, TypeOK
  <2> QED
    BY <1>3, <1>5, <2>1, <2>2 DEF Kept, Read
<1>6. ASSUME NEW t \in Tasks, Load(t) PROVE Same /\ Mine(t)
  <2>1. UNCHANGED <<exists, file, opt, temp>> /\ \A u \in Tasks : u # t => mem'[u] = mem[u]
    BY <1>6 DEF Load, disk, TypeOK
  <2>2. /\ pc'[t] \in {"apply", "make", "removeOwn", "failed"}
        /\ pc'[t] = "apply" => mem'[t] = file[Out(t)]
        /\ pc'[t] = "make" => Out(t) \notin exists
        /\ pc'[t] = "removeOwn" => Kind[t] = "delete"
    BY <1>6 DEF Load, Fails, Goto, TypeOK
  <2>3. Same /\ (LostFrom(p) => LostFrom(p)')
    BY <1>3, <1>6, <2>1, StaysLost DEF Read
  <2>4. Kept(t, p)'
    BY <2>1, <2>2, <2>3 DEF Kept, KeptInv, HasForeign, Out
  <2> QED
    BY <2>1, <2>3, <2>4
<1>7. ASSUME NEW t \in Tasks, Make(t) PROVE Same /\ Mine(t)
  <2>1. UNCHANGED <<opt, mem, temp>> /\ pc[t] = "make" /\ (LostFrom(p) => LostFrom(p)')
    BY <1>7, StaysLost DEF Make, At, Read
  <2>2. pc'[t] \in {"reload", "removeOwn", "failed"} /\ (pc'[t] = "removeOwn" => Kind[t] = "delete")
    BY <1>7 DEF Make, Fails, Goto, TypeOK
  <2>3. CASE UNCHANGED disk
    BY <1>3, <1>7, <2>1, <2>2, <2>3 DEF disk, Kept, Read
  <2>4. CASE exists' = exists \cup {Out(t)} /\ file' = [file EXCEPT ![Out(t)] = Empty]
    <3>1. ~LostFrom(p) => (HasForeign(file'[p]) <=> HasForeign(file[p]))
      <4>1. CASE Out(t) = p
        <5>1. file'[p] = Empty
          BY <2>4, <4>1, KubeconfigAssumption DEF TypeOK
        <5> QED
          BY <2>1, <4>1, <5>1, EmptyHasNone DEF KeptInv, Kept
      <4>2. CASE Out(t) # p
        <5>1. file'[p] = file[p]
          BY <2>4, <4>2, KubeconfigAssumption DEF TypeOK
        <5> QED
          BY <5>1
      <4> QED
        BY <4>1, <4>2
    <3> QED
      BY <2>1, <2>2, <2>4, <3>1 DEF KeptInv, Kept
  <2> QED
    BY <1>7, <2>3, <2>4 DEF Make
<1>8. ASSUME NEW t \in Tasks, Apply(t) PROVE Same /\ Mine(t)
  <2>1. UNCHANGED <<exists, file, opt, mem>> /\ pc[t] = "apply" /\ mem[t] \in Configs
        /\ Of[t] \in Clusters /\ new[t] \in Gens /\ opt[t].switch \in BOOLEAN
    BY <1>8, KubeconfigAssumption DEF Apply, disk, At, TypeOK
  <2>2. /\ pc'[t] \in {"rename", "removeOwn", "failed"} /\ (pc'[t] = "removeOwn" => Kind[t] = "delete")
        /\ \A u \in Tasks : u # t => temp'[u] = temp[u]
    BY <1>8 DEF Apply, Fails, Goto, TypeOK
  <2>3. pc'[t] = "rename" => (HasForeign(temp'[t]) <=> HasForeign(mem[t]))
    <3> SUFFICES ASSUME pc'[t] = "rename" PROVE HasForeign(temp'[t]) <=> HasForeign(mem[t])
      OBVIOUS
    <3>1. ~Fails(t)
      BY DEF Fails, Goto, TypeOK
    <3>2. CASE temp' = [temp EXCEPT ![t] = Merged(mem[t], Of[t], new[t], opt[t].switch)]
      <4>1. temp'[t] = Merged(mem[t], Of[t], new[t], opt[t].switch)
        BY <3>2 DEF TypeOK
      <4> QED
        BY <2>1, <4>1, MergedIs
    <3>3. ASSUME NEW r \in RemovedFrom(mem[t], Of[t]), temp' = [temp EXCEPT ![t] = r]
          PROVE  HasForeign(temp'[t]) <=> HasForeign(mem[t])
      <4>1. temp'[t] = r
        BY <3>3 DEF TypeOK
      <4> QED
        BY <2>1, <4>1, RemovedIs
    <3> QED
      BY <1>8, <3>1, <3>2, <3>3 DEF Apply
  <2>4. Same /\ (LostFrom(p) => LostFrom(p)')
    BY <1>3, <1>8, <2>1, StaysLost DEF Read
  <2>5. Kept(t, p)'
    <3>1. HasForeign(file'[p]) <=> HasForeign(file[p])
      BY <2>1
    <3> QED
      BY <2>1, <2>2, <2>3, <2>4, <3>1 DEF Kept, KeptInv, Out
  <2> QED
    BY <2>1, <2>2, <2>4, <2>5
<1>9. ASSUME NEW t \in Tasks, Put(t) PROVE Same /\ Mine(t)
  <2>1. UNCHANGED <<opt, mem, temp>> /\ (LostFrom(p) => LostFrom(p)')
    BY <1>9, StaysLost DEF Put, Rename, Truncate, Fill, FillRest, RemoveOwn, Kill
  <2>2. /\ pc'[t] \in Terminal \cup {"fill", "rest", "removeOwn"}
        /\ pc'[t] = "fill" => pc[t] = "truncate"
        /\ pc'[t] = "rest" => pc[t] = "fill"
        /\ pc'[t] = "removeOwn" => Kind[t] = "delete"
    BY <1>9 DEF Put, Rename, Truncate, Fill, FillRest, RemoveOwn, Kill, Fails, Goto, Terminal, TypeOK, At
  <2>3. Kept(t, p)'
    BY <2>1, <2>2 DEF Kept, KeptInv, Terminal
  <2>4. Same
    <3>1. CASE UNCHANGED <<exists, file>>
      BY <1>3, <1>9, <3>1
    <3>2. ASSUME Rename(t), file' = [file EXCEPT ![Out(t)] = temp[t]], UNCHANGED exists
          PROVE  Same
      <4>1. CASE Out(t) = p
        <5>1. file'[p] = temp[t] /\ pc[t] = "rename"
          BY <3>2, <4>1, KubeconfigAssumption DEF TypeOK, Rename, At
        <5> QED
          BY <2>1, <3>2, <4>1, <5>1 DEF KeptInv, Kept
      <4>2. CASE Out(t) # p
        <5>1. file'[p] = file[p]
          BY <3>2, <4>2, KubeconfigAssumption DEF TypeOK
        <5> QED
          BY <2>1, <3>2, <5>1 DEF KeptInv
      <4> QED
        BY <4>1, <4>2
    <3>3. CASE Truncate(t) \/ Fill(t) \/ FillRest(t)
      <4>1. opt[t].overwrite
        BY <3>3 DEF KeptInv, Kept, Truncate, Fill, FillRest, At
      <4>2. CASE Out(t) = p
        <5>1. Overwritten(p)'
          BY <2>1, <2>2, <3>3, <4>1, <4>2 DEF Overwritten, Out, Terminal
        <5> QED
          BY <5>1 DEF LostFrom
      <4>3. CASE Out(t) # p
        <5>1. file'[p] = file[p] /\ exists \subseteq exists'
          BY <3>3, <4>3, KubeconfigAssumption DEF TypeOK, Truncate, Fill, FillRest, WriteOpened, disk
        <5> QED
          BY <2>1, <5>1 DEF KeptInv
      <4> QED
        BY <4>2, <4>3
    <3>4. CASE RemoveOwn(t)
      <4>1. CASE Own[Of[t]] = p
        <5>1. Kind[t] = "delete" /\ pc'[t] = "ok"
          BY <3>4 DEF RemoveOwn, At, Goto, KeptInv, Kept, TypeOK
        <5>2. OwnRemoved(p)'
          BY <4>1, <5>1 DEF OwnRemoved
        <5> QED
          BY <5>2 DEF LostFrom
      <4>2. CASE Own[Of[t]] # p
        <5>1. file'[p] = file[p] /\ (p \in exists => p \in exists')
          BY <3>4, <4>2, KubeconfigAssumption DEF TypeOK, RemoveOwn, disk
        <5> QED
          BY <2>1, <5>1 DEF KeptInv
      <4> QED
        BY <4>1, <4>2
    <3> QED
      BY <1>9, <3>1, <3>2, <3>3, <3>4 DEF Put, Rename, Kill, disk
  <2> QED
    BY <2>1, <2>3, <2>4
<1> QED
  BY <1>1, <1>2, <1>4, <1>5, <1>6, <1>7, <1>8, <1>9 DEF Next, Read

\* Whatever processes race, fail or are killed, the entries that the user has from elsewhere
\* stay in the file they are in until a task that was told to overwrite it does so, or a
\* cluster whose own file it is is deleted.
THEOREM ForeignEntriesKept == Spec => ForeignKept
<1> DEFINE KInv == Foreign # {} => \A p \in Paths : KeptInv(p)
<1>1. TypeOK /\ WholeInv /\ KInv /\ [Next]_vars => KInv'
  BY KeptStep
<1>2. Init => KInv
  BY KeptInit
<1>3. TypeOK /\ WholeInv /\ KInv /\ [Next]_vars
        => [\A p \in Paths : HasForeign(file[p]) /\ ~HasForeign(file'[p]) =>
              (Overwritten(p) \/ OwnRemoved(p))']_vars
  <2>1. CASE Foreign = {}
    BY <2>1 DEF HasForeign
  <2>2. CASE Foreign # {}
    BY <2>2, KeptStep DEF LostFrom
  <2> QED
    BY <2>1, <2>2
<1> QED
  BY <1>1, <1>2, <1>3, InitOK, Step, PTL DEF Spec, ForeignKept
-----------------------------------------------------------------------------
\* A task that has met no other and reported nothing is the only one at work, and what it
\* holds is what it found when it began, or that with its change made.
Alone(t) ==
  /\ \A u \in Tasks : pc[u] \in Working => u = t
  /\ pc[t] \in {"truncate", "fill", "rest"} => opt[t].overwrite /\ new[t] = gen[Of[t]]
  /\ pc[t] \in {"fill", "rest"} => open[t] = "alone"
  /\ pc[t] \in {"load", "make", "reload", "apply", "rename"} => ~opt[t].overwrite
  /\ pc[t] \in {"get", "load", "make", "reload"} => file[Out(t)] = was[t]
  /\ pc[t] = "make" => Out(t) \notin exists
  /\ pc[t] = "apply" => mem[t] = was[t]
  /\ pc[t] \in {"load", "make", "reload", "apply"} /\ Kind[t] # "delete" => new[t] = gen[Of[t]]
  /\ pc[t] = "rename" => Exact(t, temp[t])
  /\ pc[t] = "removeOwn" => Kind[t] = "delete" /\ ~opt[t].overwrite /\ Exact(t, file[Out(t)])

\* The invariant that carries SoloExact.
SoloInv ==
  /\ \A p \in Paths : p \notin exists => file[p] = Empty
  /\ \A t \in Tasks : open[t] # "no" => Out(t) \in exists
  /\ \A t \in Tasks : Kind[t] = "delete" => ~opt[t].overwrite
  /\ \A t \in solo : pc[t] # "idle" /\ (pc[t] \in Working /\ t \notin fault => Alone(t))

\* What the merged file holds: its other entries as they were, the cluster's as told.
LEMMA MergedExact ==
  ASSUME NEW cfg \in Configs, NEW c \in Names, NEW g \in Gens, NEW switch \in BOOLEAN,
         NEW r, r = Merged(cfg, c, g, switch)
  PROVE  /\ \A n \in Names \ {c} : /\ r.clusters[n] = cfg.clusters[n]
                                   /\ r.users[n] = cfg.users[n]
                                   /\ r.contexts[n] = cfg.contexts[n]
         /\ r.contexts[c] = g
         /\ r.current = IF switch \/ cfg.current = None THEN c ELSE cfg.current
  BY DEF Merged, With, Configs

\* Likewise what is left when a cluster's entries are removed.
LEMMA RemovedExact ==
  ASSUME NEW cfg \in Configs, NEW c \in Names, NEW r \in RemovedFrom(cfg, c)
  PROVE  /\ \A n \in Names \ {c} : /\ r.clusters[n] = cfg.clusters[n]
                                   /\ r.users[n] = cfg.users[n]
                                   /\ r.contexts[n] = cfg.contexts[n]
         /\ r.contexts[c] = 0
         /\ cfg.current # c => r.current = cfg.current
<1>1. PICK cur : /\ r = With(cfg, c, 0, cur)
                 /\ cfg.current # c => cur = cfg.current
  BY DEF RemovedFrom
<1> QED
  BY <1>1 DEF With, Configs

\* Initially no task has begun.
LEMMA SoloInit == Init => SoloInv
<1> SUFFICES ASSUME Init PROVE SoloInv
  OBVIOUS
<1>1. \A p \in Paths : p \notin exists => file[p] = Empty
  BY DEF Init
<1> QED
  BY <1>1 DEF Init, SoloInv

\* A step of a task that has begun: it was at work, and what it recorded when it began stays.
AtWork(t) ==
  /\ pc[t] \in Working /\ pc'[t] # "idle" /\ fault \subseteq fault'
  /\ \A u \in Tasks : u # t => pc'[u] = pc[u]
  /\ UNCHANGED <<gen, alive, opt, solo, was>>

LEMMA ReadOrPutWorks ==
  ASSUME TypeOK, NEW t \in Tasks, Read(t) \/ Put(t)
  PROVE  AtWork(t)
<1>1. CASE Fails(t)
  <2>1. pc'[t] # "idle" /\ fault \subseteq fault' /\ \A u \in Tasks : u # t => pc'[u] = pc[u]
    BY <1>1 DEF Fails, Goto, TypeOK
  <2> QED
    BY <2>1 DEF Read, Put, KubeconfigGet, Load, Make, Apply, Rename, Truncate, Fill, FillRest, RemoveOwn, Kill,
       AtWork, At, Working, world
<1>2. ASSUME NEW q, Goto(t, q), q # "idle", fault \subseteq fault' PROVE AtWork(t)
  <2>1. pc'[t] # "idle" /\ \A u \in Tasks : u # t => pc'[u] = pc[u]
    BY <1>2 DEF Goto, TypeOK
  <2> QED
    BY <1>2, <2>1 DEF Read, Put, KubeconfigGet, Load, Make, Apply, Rename, Truncate, Fill, FillRest, RemoveOwn,
       Kill, AtWork, At, Working, world
<1> QED
  BY <1>1, <1>2 DEF Read, Put, KubeconfigGet, Load, Make, Apply, Rename, Truncate, Fill, FillRest, RemoveOwn, Kill

\* Only files that exist have something in them, and a file held open at its path exists.
LEMMA FilesExist ==
  ASSUME TypeOK, SoloInv, NEW t \in Tasks, Begin(t) \/ Read(t) \/ Put(t)
  PROVE  /\ \A p \in Paths : p \notin exists' => file'[p] = Empty
         /\ \A u \in Tasks : open'[u] # "no" => Out(u) \in exists'
<1>1. /\ Out(t) \in Paths /\ Own[Of[t]] \in Paths
      /\ \A p \in Paths : p \notin exists => file[p] = Empty
      /\ \A u \in Tasks : open[u] # "no" => Out(u) \in exists
  BY OutIs, KubeconfigAssumption DEF SoloInv
<1>2. CASE UNCHANGED disk /\ \A u \in Tasks : open'[u] # "no" => open[u] # "no"
  BY <1>1, <1>2 DEF disk
<1>3. CASE Make(t) \/ Truncate(t)
  BY <1>1, <1>3 DEF Make, Truncate, Shared, TypeOK, disk
<1>4. CASE Rename(t)
  BY <1>1, <1>4 DEF Rename, Unlinks, TypeOK
<1>5. CASE Fill(t) \/ FillRest(t)
  <2>1. UNCHANGED exists /\ \A u \in Tasks : open'[u] # "no" => open[u] # "no"
    BY <1>5 DEF Fill, FillRest, WriteOpened, Shared, TypeOK
  <2>2. UNCHANGED file \/ (Out(t) \in exists /\ \A p \in Paths : p # Out(t) => file'[p] = file[p])
    BY <1>1, <1>5 DEF Fill, FillRest, WriteOpened, TypeOK
  <2> QED
    BY <1>1, <2>1, <2>2
<1>6. CASE RemoveOwn(t)
  BY <1>1, <1>6 DEF RemoveOwn, Unlinks, TypeOK, disk
<1> QED
  <2>1. Begin(t) \/ Read(t) \/ Kill(t) => Make(t) \/ (UNCHANGED disk /\ \A u \in Tasks : open'[u] # "no" => open[u] # "no")
    BY DEF Begin, CreateCluster, FindCluster, DeleteCluster, Begins, Read, KubeconfigGet, Load, Apply, Kill, TypeOK
  <2> QED
    BY <1>2, <1>3, <1>4, <1>5, <1>6, <2>1 DEF Put

\* What the step of a task that has met no other and reports nothing does to what it holds.
LEMMA AloneStep ==
  ASSUME TypeOK, WholeInv, SoloInv, NEW t \in Tasks, Alone(t), AtWork(t), Read(t) \/ Put(t),
         pc'[t] \in Working, t \notin fault'
  PROVE  Alone(t)'
<1> USE DEF AtWork
<1>1. \A u \in Tasks : pc'[u] \in Working => u = t
  BY DEF Alone
<1>2. ~Fails(t) /\ Of[t] \in Names /\ was[t] \in Configs /\ Out(t)' = Out(t) /\ Out(t) \in Paths
  BY KubeconfigAssumption, OutIs DEF Fails, TypeOK, Names, Out
<1>3. CASE KubeconfigGet(t)
  <2>1. /\ pc[t] = "get" /\ new'[t] = gen[Of[t]] /\ UNCHANGED file
        /\ \/ pc'[t] = "truncate" /\ opt[t].overwrite
           \/ pc'[t] = "load" /\ ~opt[t].overwrite
    BY <1>2, <1>3 DEF KubeconfigGet, At, Goto, TypeOK, disk
  <2> QED
    BY <1>1, <1>2, <2>1 DEF Alone
<1>4. CASE Load(t)
  <2>1. /\ pc[t] \in {"load", "reload"} /\ UNCHANGED <<file, exists, new>>
        /\ \/ pc'[t] = "make" /\ Out(t) \notin exists
           \/ pc'[t] = "apply" /\ mem'[t] = file[Out(t)]
    BY <1>2, <1>4 DEF Load, At, Goto, TypeOK, disk
  <2> QED
    BY <1>1, <1>2, <2>1 DEF Alone
<1>5. CASE Make(t)
  <2>1. pc[t] = "make" /\ pc'[t] = "reload" /\ file'[Out(t)] = Empty /\ UNCHANGED new
    BY <1>2, <1>5 DEF Make, At, Goto, TypeOK, disk
  <2>2. was[t] = Empty
    BY <1>2, <2>1 DEF Alone, SoloInv
  <2> QED
    BY <1>1, <1>2, <2>1, <2>2 DEF Alone
<1>6. CASE Apply(t)
  <2>1. pc[t] = "apply" /\ pc'[t] = "rename" /\ mem[t] = was[t]
    BY <1>2, <1>6 DEF Apply, At, Goto, TypeOK, Alone
  <2>2. Exact(t, temp'[t])
    <3>1. CASE Kind[t] = "delete"
      <4>1. temp'[t] \in RemovedFrom(was[t], Of[t])
        BY <1>2, <1>6, <2>1, <3>1 DEF Apply, TypeOK
      <4> QED
        BY <1>2, <3>1, <4>1, RemovedExact DEF Exact
    <3>2. CASE Kind[t] # "delete"
      <4>1. /\ temp'[t] = Merged(was[t], Of[t], new[t], opt[t].switch)
            /\ opt[t].update \/ ~Conflict(was[t], Of[t])
        BY <1>2, <1>6, <2>1, <3>2 DEF Apply, TypeOK
      <4>2. new[t] = gen[Of[t]] /\ new[t] \in Gens /\ opt[t].switch \in BOOLEAN
        BY <2>1, <3>2, KubeconfigAssumption DEF Alone, TypeOK
      <4>3. /\ \A n \in Names \ {Of[t]} : /\ temp'[t].clusters[n] = was[t].clusters[n]
                                          /\ temp'[t].users[n] = was[t].users[n]
                                          /\ temp'[t].contexts[n] = was[t].contexts[n]
            /\ temp'[t].contexts[Of[t]] = gen[Of[t]]
            /\ temp'[t].current = IF opt[t].switch \/ was[t].current = None THEN Of[t] ELSE was[t].current
        BY <1>2, <4>1, <4>2, MergedExact
      <4>4. ~opt[t].update => was[t].contexts[Of[t]] = 0
        BY <4>1 DEF Conflict
      <4> QED
        BY <3>2, <4>3, <4>4 DEF Exact
    <3> QED
      BY <3>1, <3>2
  <2>3. Exact(t, temp[t])'
    BY <2>2 DEF Exact
  <2> QED
    BY <1>1, <2>1, <2>3 DEF Alone
<1>7. CASE Rename(t)
  <2>1. pc[t] = "rename" /\ pc'[t] = "removeOwn" /\ Kind[t] = "delete" /\ file'[Out(t)] = temp[t]
    BY <1>2, <1>7 DEF Rename, At, Goto, TypeOK, Working
  <2>2. Exact(t, file'[Out(t)])
    BY <2>1 DEF Alone
  <2>3. Exact(t, file[Out(t)])'
    BY <1>2, <2>2 DEF Exact
  <2> QED
    BY <1>1, <2>1, <2>3 DEF Alone
<1>8. CASE Truncate(t)
  <2>1. /\ pc[t] = "truncate" /\ pc'[t] = "fill" /\ opt[t].overwrite /\ open'[t] = "alone"
        /\ new' = new
    BY <1>2, <1>8 DEF Truncate, Shared, At, Goto, TypeOK, Alone
  <2> QED
    BY <1>1, <1>2, <2>1 DEF Alone
<1>9. CASE Fill(t)
  <2>1. /\ pc[t] = "fill" /\ pc'[t] = "rest" /\ opt[t].overwrite /\ open'[t] = "alone"
        /\ new' = new
    BY <1>2, <1>9 DEF Fill, WriteOpened, Shared, At, Goto, TypeOK, Alone
  <2> QED
    BY <1>1, <1>2, <2>1 DEF Alone
<1>10. CASE FillRest(t) \/ RemoveOwn(t) \/ Kill(t)
  BY <1>2, <1>10 DEF FillRest, RemoveOwn, Kill, Goto, TypeOK, Working
<1> QED
  BY <1>3, <1>4, <1>5, <1>6, <1>7, <1>8, <1>9, <1>10 DEF Read, Put

\* Every step keeps what the tasks that have met no other hold: another task's step either is
\* impossible or takes them out of that set.
LEMMA SoloStep == TypeOK /\ WholeInv /\ SoloInv /\ [Next]_vars => SoloInv'
<1> SUFFICES ASSUME TypeOK, WholeInv, SoloInv, [Next]_vars PROVE SoloInv'
  OBVIOUS
<1>1. CASE UNCHANGED vars
  BY <1>1 DEF vars, SoloInv, Alone, Exact, Out
<1>2. ASSUME NEW u \in Tasks, Begin(u) \/ Read(u) \/ Put(u) PROVE SoloInv'
  <2>1. UNCHANGED opt
    BY <1>2, ReadOrPutWorks DEF AtWork, Begin, CreateCluster, FindCluster, DeleteCluster, Begins
  <2>2. /\ \A p \in Paths : p \notin exists' => file'[p] = Empty
        /\ \A t \in Tasks : open'[t] # "no" => Out(t)' \in exists'
    BY <1>2, <2>1, FilesExist DEF Out
  <2>3. \A t \in Tasks : Kind[t] = "delete" => ~opt'[t].overwrite
    BY <2>1 DEF SoloInv
  <2>4. ASSUME NEW t \in solo' PROVE pc'[t] # "idle" /\ (pc'[t] \in Working /\ t \notin fault' => Alone(t)')
    <3>1. CASE Begin(u)
      <4> DEFINE others == {v \in Tasks : pc[v] \in Working}
      <4>1. /\ pc[u] = "idle" /\ pc'[u] \in {"get", "load", "failed"}
            /\ \A v \in Tasks : v # u => pc'[v] = pc[v]
            /\ pc'[u] = "get" => Kind[u] # "delete"
            /\ pc'[u] = "load" => Kind[u] = "delete"
            /\ was'[u] = file[Out(u)] /\ UNCHANGED file
            /\ solo' = IF others = {} THEN solo \cup {u} ELSE solo \ others
        BY <3>1 DEF Begin, CreateCluster, FindCluster, DeleteCluster, Begins, At, Goto, TypeOK, disk
      <4>2. Out(u)' = Out(u)
        BY <2>1 DEF Out
      <4> HIDE DEF others
      <4>3. t \in Tasks /\ (t = u \/ (t \in solo /\ pc[t] # "idle"))
        BY <4>1 DEF SoloInv, TypeOK
      <4>4. t # u => pc'[t] \notin Working
        <5>1. CASE others = {}
          BY <4>1, <4>3, <5>1 DEF others
        <5>2. CASE others # {}
          BY <4>1, <4>3, <5>2 DEF others
        <5> QED
          BY <5>1, <5>2
      <4>5. ASSUME t = u, pc'[u] \in Working PROVE Alone(u)'
        <5>1. others = {}
          BY <4>1, <4>5 DEF SoloInv
        <5>2. \A v \in Tasks : pc'[v] \in Working => v = u
          BY <4>1, <5>1 DEF others
        <5>3. file'[Out(u)'] = was'[u]
          BY <4>1, <4>2
        <5>4. pc'[u] = "load" => ~opt'[u].overwrite
          BY <2>3, <4>1
        <5> QED
          BY <4>1, <4>5, <5>2, <5>3, <5>4 DEF Alone, Working
      <4> QED
        BY <4>1, <4>3, <4>4, <4>5
    <3>2. CASE Read(u) \/ Put(u)
      <4>1. AtWork(u)
        BY <3>2, ReadOrPutWorks
      <4>2. t \in solo /\ t \in Tasks /\ pc'[t] # "idle"
        BY <4>1 DEF AtWork, SoloInv, TypeOK
      <4>3. ASSUME pc'[t] \in Working, t \notin fault' PROVE Alone(t)'
        <5>1. pc[t] \in Working /\ t \notin fault
          BY <4>1, <4>3 DEF AtWork, TypeOK
        <5>2. Alone(t)
          BY <4>2, <5>1 DEF SoloInv
        <5>3. u = t
          BY <4>1, <5>2 DEF AtWork, Alone
        <5> QED
          BY <3>2, <4>1, <4>2, <4>3, <5>2, <5>3, AloneStep
      <4> QED
        BY <4>2, <4>3
    <3> QED
      BY <1>2, <3>1, <3>2
  <2> QED
    BY <2>2, <2>3, <2>4 DEF SoloInv
<1> QED
  BY <1>1, <1>2 DEF Next

\* What the last step of such a task leaves.
LEMMA SoloOutcome ==
  ASSUME TypeOK, SoloInv, [Next]_vars, NEW t \in solo \ fault', pc[t] \in Working, pc'[t] = "ok"
  PROVE  /\ ~opt[t].overwrite /\ ~(Kind[t] = "delete" /\ Own[Of[t]] = Out(t)) =>
              Exact(t, file'[Out(t)])
         /\ opt[t].overwrite => file'[Out(t)] = Merged(Empty, Of[t], gen[Of[t]], TRUE)
         /\ Kind[t] = "delete" => Own[Of[t]] \notin exists'
<1>t. t \in Tasks /\ Out(t) \in Paths
  BY OutIs DEF TypeOK
<1>1. PICK u \in Tasks : Begin(u) \/ Read(u) \/ Put(u)
  BY DEF Next, vars, Working
<1>2. Read(u) \/ Put(u)
  <2>1. ~Begin(u)
    <3>1. Begin(u) => pc[u] = "idle" /\ pc'[u] # "ok" /\ \A v \in Tasks : v # u => pc'[v] = pc[v]
      BY DEF Begin, CreateCluster, FindCluster, DeleteCluster, Begins, At, Goto, TypeOK
    <3> QED
      BY <1>t, <3>1 DEF Working
  <2> QED
    BY <1>1, <2>1
<1>3. AtWork(u)
  BY <1>2, ReadOrPutWorks
<1>4. u = t /\ t \notin fault
  BY <1>t, <1>3 DEF AtWork, Working
<1>5. Alone(t)
  BY <1>4 DEF SoloInv
<1>6. ~Fails(t)
  BY DEF Fails
<1>7. Rename(t) \/ FillRest(t) \/ RemoveOwn(t)
  BY <1>2, <1>4, <1>6, <1>t
  DEF Read, Put, KubeconfigGet, Load, Make, Apply, Truncate, Fill, Kill, Goto, TypeOK
<1>8. CASE Rename(t)
  <2>1. pc[t] = "rename" /\ Kind[t] # "delete" /\ file'[Out(t)] = temp[t]
    BY <1>t, <1>6, <1>8 DEF Rename, At, Goto, TypeOK
  <2> QED
    BY <1>5, <2>1 DEF Alone
<1>9. CASE FillRest(t)
  <2>1. pc[t] = "rest" /\ opt[t].overwrite /\ open[t] = "alone" /\ new[t] = gen[Of[t]]
    BY <1>5, <1>9 DEF FillRest, At, Alone
  <2>2. file' = [file EXCEPT ![Out(t)] = Content(t)]
    BY <1>6, <1>9, <2>1 DEF FillRest, WriteOpened
  <2>3. file'[Out(t)] = Merged(Empty, Of[t], gen[Of[t]], TRUE)
    BY <1>t, <2>1, <2>2 DEF Content, TypeOK
  <2>4. Kind[t] # "delete"
    BY <1>t, <2>1 DEF SoloInv
  <2> QED
    BY <2>1, <2>3, <2>4
<1>10. CASE RemoveOwn(t)
  <2>1. pc[t] = "removeOwn" /\ Kind[t] = "delete" /\ ~opt[t].overwrite /\ Exact(t, file[Out(t)])
    BY <1>5, <1>10 DEF RemoveOwn, At, Alone
  <2>2. Own[Of[t]] \in Paths
    BY <1>t, KubeconfigAssumption
  <2>3. exists' = exists \ {Own[Of[t]]} /\ file' = [file EXCEPT ![Own[Of[t]]] = Empty]
    BY <1>4, <1>10 DEF RemoveOwn
  <2>4. Own[Of[t]] # Out(t) => file'[Out(t)] = file[Out(t)]
    BY <1>t, <2>2, <2>3 DEF TypeOK
  <2> QED
    BY <2>1, <2>3, <2>4
<1> QED
  BY <1>7, <1>8, <1>9, <1>10

\* A process that meets no other one and reports no error leaves exactly what it was told to:
\* the other entries as they were, its cluster's new or gone, the current context as asked; or
\* nothing but its cluster's, if it overwrites; or no file, if a deleted cluster's own file is
\* the one it works on.
THEOREM AloneIsExact == Spec => SoloExact
<1>1. Init => SoloInv
  BY SoloInit
<1>2. TypeOK /\ WholeInv /\ SoloInv /\ [Next]_vars =>
       [\A t \in solo \ fault' : pc[t] \in Working /\ pc'[t] = "ok" =>
         LET own == Kind[t] = "delete" /\ Own[Of[t]] = Out(t)
         IN  /\ ~opt[t].overwrite /\ ~own => Exact(t, file'[Out(t)])
             /\ opt[t].overwrite => file'[Out(t)] = Merged(Empty, Of[t], gen[Of[t]], TRUE)
             /\ Kind[t] = "delete" => Own[Of[t]] \notin exists']_vars
  BY SoloOutcome
<1> QED
  BY <1>1, <1>2, InitOK, Step, SoloStep, PTL DEF Spec, SoloExact
=============================================================================
