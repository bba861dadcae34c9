-------------------------------- MODULE NodeAdd --------------------------------
(***************************************************************************)
(* `k3d node create`: NodeAddToClusterMulti reads the cluster, and every    *)
(* replica of the new node is made from the container of an existing node,  *)
(* without what must not be copied, with the fields of the command laid     *)
(* over it.  Nodes that were added are copied in turn; nodes are deleted,   *)
(* by other commands also between the two reads.                            *)
(* A memory limit is in tenths of MiB, up to ten gigabytes; the flags of a  *)
(* node's command that play no part here are one "san" each time --tls-san  *)
(* is appended.                                                             *)
(***************************************************************************)
EXTENDS Integers, Sequences, FiniteSets, FiniteSetsExt, SequencesExt

CONSTANTS
  New,        \* the names of nodes that may be added; a name may be used again
  Clusters,   \* clusters to begin with: [servers, agents, lb, mem, files, userInit]
  Requests,   \* options of a command: [role, mem, token, init, replicas]
  None,       \* nothing: no container, no URL, no label, no token
  MaxRequests \* bound: commands that add nodes

Server(i) == <<"server", i>>
Agent(i) == <<"agent", i>>
Lb == <<"loadbalancer", 0>>
FirstNames(c) ==
  {Server(i) : i \in 0 .. c.servers - 1} \cup {Agent(i) : i \in 0 .. c.agents - 1}
    \cup (IF c.lb THEN {Lb} ELSE {})
Names == New \cup UNION {FirstNames(c) : c \in Clusters}
ClusterToken == "token"

\* A container that runs k3d's proxy or k3s.
Roles == {"server", "agent", "loadbalancer"}
Flags == Roles \cup {"init", "san"}
Containers ==
  [role : Roles, cmd : Seq(Flags), args : {<<>>}, url : Names \cup {None},
   token : {ClusterToken} \cup {r.token : r \in Requests}, mounts : Seq({"images", "meminfo", "edac"}),
   ports : SUBSET {"api"}, init : {"true", "false", None}, mem : Nat, files : BOOLEAN]

\* The new nodes are k3s nodes: --role accepts every key of NodeRoles, those of a
\* load balancer and of a registry as well, and such nodes are left aside here.
ASSUME NodeAddAssumption ==
  /\ None \notin Names /\ None \notin Requests /\ None \notin Containers /\ None # "true"
  /\ MaxRequests \in Nat
  /\ \A c \in Clusters : /\ c.servers \in Nat \ {0} /\ c.agents \in Nat /\ c.mem \in Nat
                         /\ c.lb \in BOOLEAN /\ c.files \in BOOLEAN /\ c.userInit \in BOOLEAN
  /\ \A r \in Requests : /\ r.role \in {"server", "agent"} /\ r.mem \in Nat
                         /\ r.init \in BOOLEAN /\ r.replicas \in Nat \ {0}

VARIABLES
  node,    \* runtime: the container of each name, or None
  listing, \* runtime: their names, newest first
  request, \* the options of the command that runs, or None
  snap,    \* the names and roles of the nodes that it has read
  todo,    \* its replicas that are still to be added
  count,   \* bound: commands so far
  troubles \* history: "panic"; "doubled" when the user gave a first server of two the flag as
           \* well; "fileLost" when registries.yaml was neither read nor written; "raced" when a
           \* node was deleted that a command had read; "reused" when its name can come again

vars == <<node, listing, request, snap, todo, count, troubles>>

-----------------------------------------------------------------------------
(* Nodes *)

\* The files that make the kubelet see the limit, mounted over the host's.
MemoryMounts(n) == IF n.mem = 0 THEN <<>> ELSE <<"meminfo", "edac">>

\* The container's command is the node's with its arguments appended; the mounts,
\* ports, labels and the environment are taken over.
TranslateNodeToContainer(n) == [n EXCEPT !.cmd = n.cmd \o n.args, !.args = <<>>]

\* NodeCreate with patchAgentSpec and patchServerSpec: --tls-san is appended to a
\* server's arguments.
NodeCreate(n) ==
  TranslateNodeToContainer(
    [n EXCEPT !.args = @ \o IF n.role = "server" THEN <<"san">> ELSE <<>>,
              !.mounts = @ \o MemoryMounts(n)])

\* Mutated form of Reread: written in MiB, read as megabytes.
RereadSmaller(mem) == (mem * 100000) \div 104858

\* A gigabyte, in tenths of MiB.
Gigabyte == 9537

\* HumanSize writes four digits of megabytes or of gigabytes, in powers of 1000,
\* which RAMInBytes reads in powers of 1024.
Reread(mem) ==
  IF mem < Gigabyte THEN (mem * 104858 + 50000) \div 100000
  ELSE (((mem * 104858 + 500000) \div 1000000) * 1024) \div 100

\* What is read of a container: the arguments stay in its command, the limit is text.
TranslateContainerDetailsToNode(c) == [c EXCEPT !.mem = Reread(c.mem)]

Times(seq, x) == Cardinality({i \in DOMAIN seq : seq[i] = x})

\* The initializing server is the server with the label and the flag.
IsInit(n) == node[n].role = "server" /\ node[n].init = "true" /\ Times(node[n].cmd, "init") > 0

\* A node of the cluster to begin with, as ClusterCreate sets it up.
FirstNode(c, role, i) ==
  LET multi == c.servers > 1
      first == role = "server" /\ i = 0
  IN  NodeCreate(
        [role   |-> role, cmd |-> <<role>>,
         args   |-> (IF first /\ c.userInit THEN <<"init">> ELSE <<>>)
                    \o (IF first /\ multi THEN <<"init">> ELSE <<>>),
         url    |-> IF role = "agent" \/ (role = "server" /\ multi /\ ~first) THEN Server(0) ELSE None,
         token  |-> ClusterToken,
         mounts |-> <<"images">>,
         ports  |-> IF role = "loadbalancer" \/ (first /\ ~c.lb) THEN {"api"} ELSE {},
         init   |-> IF role = "server" /\ multi THEN (IF first THEN "true" ELSE "false") ELSE None,
         mem    |-> IF role = "server" THEN c.mem ELSE 0,
         files  |-> c.files])

FirstListing(c) ==
  (IF c.lb THEN <<Lb>> ELSE <<>>) \o [i \in 1 .. c.agents |-> Agent(c.agents - i)]
    \o [i \in 1 .. c.servers |-> Server(c.servers - i)]

Init ==
  \E c \in Clusters :
    /\ listing = FirstListing(c)
    /\ node = [n \in Names |-> IF n \in FirstNames(c) THEN FirstNode(c, n[1], n[2]) ELSE None]
    /\ request = None /\ snap = <<>> /\ todo = {} /\ count = 0
    /\ troubles = IF c.userInit /\ c.servers > 1 THEN {"doubled"} ELSE {}
-----------------------------------------------------------------------------
(* Sanitizing the source node *)

\* An element leaves the array of the slice: slice[:i] and slice[i+1:] are appended,
\* or the last element takes its place (RemoveElementFromStringSlice).
Closed(how, arr, len, i) ==
  IF how = "shift" THEN [j \in DOMAIN arr |-> IF i <= j /\ j < len THEN arr[j + 1] ELSE arr[j]]
  ELSE [arr EXCEPT ![i] = arr[len]]

\* A slice that became shorter is indexed behind its end.
Panics == <<"panic">>

\* One pass of `for i, elem := range slice { if elem == x { slice = ... } }`: the loop
\* goes over the array that the slice had at first while the elements in it move.
Visit(acc, x, how, i) ==
  IF ~acc.ok \/ acc.arr[i] # x THEN acc
  ELSE IF i > acc.len THEN [acc EXCEPT !.ok = FALSE]
  ELSE [arr |-> Closed(how, acc.arr, acc.len, i), len |-> acc.len - 1, ok |-> TRUE]

\* The slice and its array after each pass.
Visits(slice, x, how) ==
  LET after[i \in 0 .. Len(slice)] ==
        IF i = 0 THEN [arr |-> slice, len |-> Len(slice), ok |-> TRUE]
        ELSE Visit(after[i - 1], x, how, i)
  IN  after

Dropped(slice, x, how) ==
  LET end == Visits(slice, x, how)[Len(slice)]
  IN  IF end.ok THEN SubSeq(end.arr, 1, end.len) ELSE Panics

\* Mutated form of CutFlags: nothing is cut.
CutNothing(r, src) == src.cmd

\* "we cannot have two servers as init servers"
CutFlags(r, src) == IF r.role = "server" THEN Dropped(src.cmd, "init", "shift") ELSE src.cmd

\* Mutated form of DropMounts: one of the two is forgotten.
DropMeminfo(src) == Dropped(src.mounts, "meminfo", "swap")

DropMounts(src) == Dropped(Dropped(src.mounts, "edac", "swap"), "meminfo", "swap")

Sanitized(r, src) ==
  [src EXCEPT !.cmd = CutFlags(r, src), !.mounts = DropMounts(src), !.ports = {},
              !.mem = IF src.role = r.role THEN @ ELSE 0]
-----------------------------------------------------------------------------
(* NodeAddToCluster *)

\* Nodes in the order of the listing.
FirstOf(roles) ==
  LET i == SelectInSeq(snap, LAMBDA s : s.role \in roles) IN IF i = 0 THEN None ELSE snap[i].name

\* checkK3SURLIsActive looks for the URL's name among them.
Known == {snap[i].name : i \in DOMAIN snap}

\* The first node of the role, or any k3s node.
SourceOf(r) ==
  LET same == FirstOf({r.role})
  IN  IF same # None THEN same ELSE FirstOf({"server", "agent"})

\* The load balancer, or the first server.
RegistrationNode ==
  IF FirstOf({"loadbalancer"}) # None THEN FirstOf({"loadbalancer"}) ELSE FirstOf({"server"})

\* Mutated form of UrlFor: the copied URL is never looked at.
UrlCopied(src) == IF src.url # None THEN src.url ELSE RegistrationNode

\* The URL of the source is kept while the node it names is in the cluster.
UrlFor(src) == IF src.url # None /\ src.url \in Known THEN src.url ELSE RegistrationNode

\* What the command says is laid over the sanitized source; it says how the node is
\* run when no node of its role was read.
Copied(r, src) ==
  [src EXCEPT !.role = r.role, !.cmd = IF FirstOf({r.role}) # None THEN @ ELSE <<r.role>>,
              !.args = IF r.init THEN <<"init">> ELSE <<>>,
              !.mem = IF r.mem # 0 THEN r.mem ELSE @, !.url = UrlFor(src),
              !.token = IF r.token # None THEN r.token ELSE @]

\* No source, no node to register with, a flag in the arguments that is cut
\* out of the source's empty ones, or the loops above.
Crashes(r) ==
  SourceOf(r) # None =>
    LET src == node[SourceOf(r)]
    IN  src # None /\ \/ r.role = "server" /\ (r.init \/ CutFlags(r, src) = Panics)
                      \/ DropMounts(src) = Panics
                      \/ UrlFor(src) = None

\* The reading of the source's registries.yaml breaks off in the archive's header,
\* the 512 bytes that are cut away whatever was read.
MayBreakOff(r) == LET src == node[SourceOf(r)] IN SourceOf(r) # None /\ src # None /\ src.files

\* The command: the cluster is read once for all replicas.
Multi ==
  /\ request = None /\ count < MaxRequests /\ listing # <<>> /\ "panic" \notin troubles
  /\ \E r \in Requests : request' = r /\ todo' \in kSubset(r.replicas, New)
  /\ snap' = [i \in DOMAIN listing |-> [name |-> listing[i], role |-> node[listing[i]].role]]
  /\ count' = count + 1 /\ UNCHANGED <<node, listing, troubles>>

\* The command has waited for all replicas.
End(n) == todo' = todo \ {n} /\ request' = (IF todo = {n} THEN None ELSE request)
          /\ snap' = IF todo = {n} THEN <<>> ELSE snap

\* A replica: the source's details are read again, the container is created;
\* reading or writing registries.yaml may fail, with a warning, and what is there
\* then is nothing or a part of it.
AddToCluster(n) ==
  /\ n \in todo /\ node[n] = None /\ ~Crashes(request) /\ node[SourceOf(request)] # None
  /\ LET src == TranslateContainerDetailsToNode(node[SourceOf(request)])
         new == NodeCreate(Copied(request, Sanitized(request, src)))
     IN  \E kept \in {new.files, FALSE} :
           /\ node' = [node EXCEPT ![n] = [new EXCEPT !.files = kept]]
           /\ troubles' = IF new.files /\ ~kept THEN troubles \cup {"fileLost"} ELSE troubles
  /\ listing' = <<n>> \o listing /\ End(n) /\ UNCHANGED count

\* The source is gone, the name is taken, or the runtime fails.
AddFails(n) ==
  /\ n \in todo /\ SourceOf(request) # None
  /\ End(n) /\ UNCHANGED <<node, listing, count, troubles>>

\* One goroutine's panic ends the program.
AddPanics(n) ==
  /\ n \in todo /\ (Crashes(request) \/ MayBreakOff(request))
  /\ request' = None /\ todo' = {} /\ snap' = <<>> /\ troubles' = troubles \cup {"panic"}
  /\ UNCHANGED <<node, listing, count>>

\* `k3d node delete` of any node.
Delete(n) ==
  /\ node[n] # None /\ "panic" \notin troubles
  /\ node' = [node EXCEPT ![n] = None]
  /\ \E i \in DOMAIN listing : listing[i] = n /\ listing' = RemoveAt(listing, i)
  /\ troubles' = troubles \cup (IF n \in Known THEN {"raced"} ELSE {}) \cup (IF n \in New THEN {"reused"} ELSE {})
  /\ UNCHANGED <<request, snap, todo, count>>

Next ==
  \/ Multi
  \/ \E n \in New : AddToCluster(n) \/ AddFails(n) \/ AddPanics(n)
  \/ \E n \in Names : Delete(n)

Spec == Init /\ [][Next]_vars
-----------------------------------------------------------------------------
(* Properties *)

Nodes == {n \in Names : node[n] # None}

TypeOK ==
  /\ ToSet(listing) = Nodes /\ IsInjective(listing)
  /\ node \in [Names -> Containers \cup {None}] /\ listing \in Seq(Names)
  /\ snap \in Seq([name : Names, role : Roles])
  /\ request \in Requests \cup {None} /\ todo \subseteq New /\ count \in 0 .. MaxRequests
  /\ request = None <=> todo = {}

\* Every node that is added has the URL of another node of the cluster, as it
\* was read, which is a server or the load balancer, and the token that was
\* given, if one was (node.go:195): also after the node that the source joined
\* has been deleted.
JoinsTheCluster ==
  [][\A n \in New : node[n] = None /\ node'[n] # None =>
       /\ request.token # None => node'[n].token = request.token
       /\ \E i \in DOMAIN snap : /\ snap[i].name = node'[n].url
                                 /\ snap[i].role = "agent" => "reused" \in troubles
       /\ node'[n].url = n => "raced" \in troubles]_vars

\* No two containers publish the same host port, so that each can be started.
OneNodePerPort == \A m, n \in Nodes : m # n => node[m].ports \cap node[n].ports = {}

\* At most one node is taken for the initializing server, the one that
\* ClusterStart starts first and without which it would pass over another
\* (cluster.go:931), unless the user gave that server the flag as well.
OneInitServer == "doubled" \notin troubles => \A m, n \in Nodes : IsInit(m) /\ IsInit(n) => m = n

\* No container has two mounts at one place, however often a node is copied.
MountsOnce == \A n \in Nodes : \A x \in {"images", "meminfo", "edac"} : Times(node[n].mounts, x) <= 1

\* A node runs the command of the role that its label has: a source of the
\* other role does not pass on its own.
RunsItsRole == \A n \in Nodes : node[n].role # "loadbalancer" => node[n].cmd[1] = node[n].role

\* The files that show a limit are mounted exactly when there is one, also on the
\* copy of a copy, with a limit of its own or without (node.go:641).
LimitShown == \A n \in Nodes : node[n].mem > 0 <=> Times(node[n].mounts, "meminfo") = 1

\* The limit is written and read in different units (translate.go:282, node.go:642),
\* which gives a copy more memory than its source has but never less, also where
\* the copies grow from megabytes into gigabytes; a copy of a node of the other
\* role has no limit.
LimitKept ==
  [][\A n \in New : node[n] = None /\ node'[n] # None /\ request.mem = 0 =>
       LET src == node[SourceOf(request)]
       IN  IF src.role = request.role THEN node'[n].mem >= src.mem ELSE node'[n].mem = 0]_vars

\* Every k3s node has the registries.yaml of the others, unless reading or writing
\* it failed once: then the copies of the node without it have none either
\* (node.go:156).
FilesSpread ==
  "fileLost" \notin troubles =>
    \A m, n \in {n \in Nodes : node[n].role # "loadbalancer"} : node[m].files = node[n].files

\* What keeps a copy from running beside its source is not copied, and what it needs
\* is (node.go:107-185), however often copies are copied.
CopiesRun == OneNodePerPort /\ MountsOnce /\ LimitShown /\ RunsItsRole /\ FilesSpread
=============================================================================
