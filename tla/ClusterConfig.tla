----------------------------- MODULE ClusterConfig ----------------------------
(***************************************************************************)
(* From a configuration file and the flags of `k3d cluster create` to the  *)
(* cluster that is created, and what `k3d cluster edit` and `k3d node      *)
(* edit` do to its ports afterwards.  The command runs through the stages  *)
(* of its Run function; a stage that returns an error ends it.             *)
(***************************************************************************)
EXTENDS LbPorts, TLC, FiniteSetsExt

CONSTANTS
  Files,      \* the configuration files, the built-in one among them
  FlagSets,   \* the flags a user may give with them
  Changes,    \* the port options of an edit
  FreePorts,  \* what the kernel returns for a free port
  MaxEdits    \* bound on the number of edits

Maps == {"label", "runtimeLabel"}           \* options that are kept in a map, by key
Lenient == {"volume", "file", "ulimit"}     \* options that may lack a filter
Kinds == Maps \cup Lenient \cup {"env", "arg"}
Versions == {"v1alpha2", "v1alpha3", "v1alpha4", "v1alpha5"}
DefaultName == "k3s-default"
Unset == 0

\* What can be written in a file, in a flag and in a change: filters as NodeFilters takes them
\* apart, options with their filters, ports with their mappings.
Fields == {"version", "name", "network", "servers", "agents", "noLb", "pid", "apiPort", "options",
           "serverArgs", "agentArgs", "ports", "aliases", "faults"}
Plain == {"network", "servers", "agents", "noLb", "pid"}   \* flags that are fields of a file
IsList(s) == s \in Seq(Range(s))
Subsets == {None, Every} \cup [kind : {"list"}, of : Seq(Nat)]
             \cup [kind : {"range"}, from : Nat \cup {Open}, to : Nat \cup {Open}]
Texts(known) == known \cup STRING   \* what the program knows, or anything else
Filters == {f \in [group : Texts(Groups), subset : Subsets, suffix : Texts({NoSuffix, "proxy", "direct"}),
                   bracketed : BOOLEAN] : f.bracketed => f.subset # None}
AreOptions(s) ==
  IsList(s) /\ \A o \in Range(s) : {"what", "filters"} \subseteq DOMAIN o /\ o.filters \in Seq(Filters)
ArePorts(s) ==
  /\ IsList(s)
  /\ \A p \in Range(s) : /\ {"maps", "filters"} \subseteq DOMAIN p
                         /\ p.maps \in Seq([host : Nat, port : Ports]) /\ p.filters \in Seq(Filters)
Typed(c) ==   \* an ulimit is not split at an @
  /\ c.apiPort \in Nat /\ DOMAIN c.options = Kinds /\ \A k \in Kinds : AreOptions(c.options[k])
  /\ \A o \in Range(c.options["ulimit"]) : o.filters = <<>>
  /\ ArePorts(c.ports) /\ IsList(c.aliases)

ASSUME ConfigAssumption ==
  /\ ApiPort \in Ports /\ FreePorts \subseteq Nat \ {Unset} /\ MaxEdits \in Nat
  /\ \A f \in Files :
       /\ DOMAIN f = Fields /\ Typed(f) /\ f.servers \in Nat /\ f.agents \in Nat /\ f.noLb \in BOOLEAN
       /\ IsList(f.serverArgs) /\ IsList(f.agentArgs)
       /\ \A p \in Range(f.ports) : "removal" \in DOMAIN p /\ p.removal = FALSE
  /\ \A g \in FlagSets :
       /\ Typed(g) /\ DOMAIN g.plain \subseteq Plain
       /\ \A f \in {"servers", "agents"} \cap DOMAIN g.plain : g.plain[f] \in Nat
       /\ "noLb" \in DOMAIN g.plain => g.plain["noLb"] \in BOOLEAN
  /\ \A options \in Changes : ArePorts(options) /\ \A p \in Range(options) : p.removal \in BOOLEAN

VARIABLES
  phase,    \* the stage the command has reached
  file,     \* the configuration file
  flags,    \* the flags
  cfg,      \* the simple configuration
  cluster,  \* the cluster configuration
  ports,    \* its ports, of the load balancer's container once it exists
  volumes,  \* runtime: the named volumes the command has created
  taken,    \* runtime: is there a cluster of that name?
  edits,    \* the number of edits so far
  drift     \* history: a cluster edit has removed a port since the last node edit

vars == <<phase, file, flags, cfg, cluster, ports, volumes, taken, edits, drift>>
input == <<file, flags>>

NoCluster == [nodes |-> <<>>]
NoPorts == [published |-> NoBindings, config |-> NoBindings, direct |-> <<>>]

Init ==
  /\ phase = "start" /\ file \in Files /\ flags \in FlagSets /\ taken \in BOOLEAN
  /\ cfg = file /\ cluster = NoCluster /\ ports = NoPorts
  /\ volumes = {} /\ edits = 0 /\ drift = FALSE
-----------------------------------------------------------------------------
Goto(from, to) == phase = from /\ phase' = to
Fatal(from) == Goto(from, "failed") /\ UNCHANGED <<input, cfg, cluster, ports, volumes, taken, edits, drift>>

(* The file, and the flags that have a field of the same form in it *)

\* Fields of the present version that an older one does not have: a value the flag has
\* set is lost when the configuration is decoded.
KnownTo(version) ==
  IF version \in {"v1alpha4", "v1alpha5"} THEN Plain ELSE Plain \ {"pid"}
Decoded(version) ==
  [f \in DOMAIN file |-> IF f \in DOMAIN flags.plain \cap KnownTo(version) THEN flags.plain[f] ELSE file[f]]

Unbracketed(o) == [o EXCEPT !.filters = [i \in DOMAIN @ |-> [@[i] EXCEPT !.bracketed = FALSE]]]
Rewritten(s) == [i \in DOMAIN s |-> Unbracketed(s[i])]
ForGroup(args, group) ==
  [i \in DOMAIN args |-> [what |-> args[i], filters |-> <<Filter(group, Every, NoSuffix)>>]]

\* Mutated form of MigrateV1Alpha2: the loop changes copies of the environment variables.
MigrateOnlyLabels(c) ==
  [c EXCEPT !.version = "v1alpha3",
            !.options = [@ EXCEPT !["runtimeLabel"] = Rewritten(@),
                                  !["arg"] = ForGroup(c.serverArgs, "server") \o ForGroup(c.agentArgs, "agent")]]

\* The syntax of filters is rewritten in place, and arguments get the filters that their
\* fields stood for; v1alpha2 has no other kinds of options.
MigrateV1Alpha2(c) ==
  [c EXCEPT !.version = "v1alpha3", !.ports = Rewritten(@),
            !.options = [k \in Kinds |->
               CASE k \in {"volume", "env", "runtimeLabel"} -> Rewritten(@[k])
                 [] k = "arg" -> ForGroup(c.serverArgs, "server") \o ForGroup(c.agentArgs, "agent")
                 [] OTHER -> <<>>]]

\* The later ones only move fields.
MigrateV1Alpha3(c) == [c EXCEPT !.version = "v1alpha4"]
MigrateV1Alpha4(c) == [c EXCEPT !.version = "v1alpha5"]

Migrated(c) ==
  CASE c.version = "v1alpha2" -> MigrateV1Alpha4(MigrateV1Alpha3(MigrateV1Alpha2(c)))
    [] c.version = "v1alpha3" -> MigrateV1Alpha4(MigrateV1Alpha3(c))
    [] c.version = "v1alpha4" -> MigrateV1Alpha4(c)
    [] c.version = "v1alpha5" -> c

ReadConfig ==
  \/ /\ "schema" \notin file.faults /\ file.version \in Versions
     /\ Goto("start", "read")
     /\ cfg' = Migrated(Decoded(file.version))
     /\ UNCHANGED <<input, cluster, ports, volumes, taken, edits, drift>>
  \/ ("schema" \in file.faults \/ file.version \notin Versions) /\ Fatal("start")
-----------------------------------------------------------------------------
(* The other flags *)

\* A flag has one @ that is not escaped and a filter after it, or neither.  One that has
\* only escaped ones is refused, too.
SplitFails(flag) == flag.ats > 1 \/ (flag.ats = 0 /\ flag.escaped)

\* Occurrences with the same text are one option, with the filters of them all.
Grouped(s) ==
  LET filters(w) == FlattenSeq([i \in DOMAIN s |-> IF s[i].what = w THEN s[i].filters ELSE <<>>])
  IN  {[what |-> w, filters |-> filters(w)] : w \in {s[i].what : i \in DOMAIN s}}
\* They are read from a map, in no particular order; ulimits have no filter, and no map.
Orders(k) ==
  IF k = "ulimit" THEN {[i \in DOMAIN flags.options[k] |->
                           [what |-> flags.options[k][i].what, filters |-> <<>>]]}
  ELSE SetToSeqs(Grouped(flags.options[k]))
PortOrders ==
  SetToSeqs({[maps |-> p.maps, filters |-> p.filters, removal |-> FALSE] : p \in Range(flags.ports)})

FlagsRefused ==
  \/ \E k \in Kinds : \E o \in Range(flags.options[k]) : SplitFails(o)
  \/ \E i, j \in DOMAIN flags.ports : i # j /\ flags.ports[i].maps = flags.ports[j].maps
  \/ \E p \in Range(flags.ports) : SplitFails(p)
  \/ flags.faults # {}     \* a port, an address or a host name that does not parse

\* Mutated form of Joined: the flags come before the file's options.
JoinedFlagsFirst(own, given) == given \o own

Joined(own, given) == own \o given

ApplyCLIOverrides ==
  \/ /\ ~FlagsRefused /\ Goto("read", "merged")
     /\ \E chosen \in [Kinds -> UNION {Orders(k) : k \in Kinds}], order \in PortOrders,
           free \in FreePorts \cup {ApiPort} :     \* the API's port if the kernel has none
          /\ \A k \in Kinds : chosen[k] \in Orders(k)
          /\ cfg' = [cfg EXCEPT !.options = [k \in Kinds |-> Joined(@[k], chosen[k])],
                                !.ports = Joined(@, order),
                                !.apiPort = IF flags.apiPort # Unset THEN flags.apiPort
                                            ELSE IF @ # Unset THEN @ ELSE free,
                                !.aliases = Joined(@, flags.aliases)]
     /\ UNCHANGED <<input, cluster, ports, volumes, taken, edits, drift>>
  \/ FlagsRefused /\ Fatal("read")

\* The name may be an argument; the host's network excludes a load balancer.
ProcessSimpleConfig ==
  /\ Goto("merged", "simple")
  /\ LET named == IF flags.name # "" THEN [cfg EXCEPT !.name = flags.name] ELSE cfg
     IN  cfg' = IF named.network = "host" THEN [named EXCEPT !.noLb = TRUE, !.apiPort = ApiPort] ELSE named
  /\ UNCHANGED <<input, cluster, ports, volumes, taken, edits, drift>>
-----------------------------------------------------------------------------
(* The cluster configuration *)

\* Values that only a later stage looks at, each by a check of its own.
TransformFaults == {"image", "subnet", "lbOverride", "registry", "file", "reservedLabel"}
ValidateFaults == {"name", "timeout", "memory"}

\* Mutated form of NodesOf: the load balancer's node is always there.
NodesOfWithLb(c) ==
  <<Lb>> \o [i \in 1..c.servers |-> Server(i - 1)] \o [i \in 1..c.agents |-> Agent(i - 1)]

NodesOf(c) ==
  (IF c.noLb THEN <<>> ELSE <<Lb>>) \o [i \in 1..c.servers |-> Server(i - 1)]
                                    \o [i \in 1..c.agents |-> Agent(i - 1)]

\* LoadbalancerPrepare publishes the API; the configuration gets each server as it is made.
FirstPorts(c, nodes) ==
  LET none == [NoPorts EXCEPT !.direct = [n \in Range(nodes) |-> NoBindings]]
  IN  IF c.noLb THEN none
      ELSE [none EXCEPT !.published[ApiPort] = <<c.apiPort>>, !.config[ApiPort] = Group(nodes, "server")]

LacksFilter(nodes, k, o) == k \notin Lenient /\ o.filters = <<>> /\ Len(nodes) > 1
OptionFails(nodes, k, o) == LacksFilter(nodes, k, o) \/ FilterNodes(nodes, o.filters) = {}

\* What a node holds of one kind: in a map the last value of a key stays.
Given(nodes, k, n) ==
  LET given(o) == IF \E l \in FilterNodes(nodes, o.filters) : n \in Range(l) THEN <<o.what>> ELSE <<>>
  IN  FlattenSeq([i \in DOMAIN cfg.options[k] |-> given(cfg.options[k][i])])
Held(k, s) ==
  IF k \in Maps THEN {s[i] : i \in {i \in DOMAIN s : \A j \in DOMAIN s : j > i => s[j].key # s[i].key}}
  ELSE Range(s)

TransformSimpleToClusterConfig ==
  LET c == IF cfg.name = "" THEN [cfg EXCEPT !.name = DefaultName] ELSE cfg
      nodes == NodesOf(c)
      refused == \/ c.faults \cap TransformFaults # {}
                 \/ \E k \in Kinds : \E o \in Range(c.options[k]) : OptionFails(nodes, k, o)
      outcomes == TransformPorts(nodes, ~c.noLb, FirstPorts(c, nodes), c.ports)
  IN  \/ /\ ~refused /\ Goto("simple", "cluster")
         /\ ports' \in outcomes
         /\ cluster' = [nodes |-> nodes, name |-> c.name, network |-> c.network, apiPort |-> c.apiPort,
                        lb |-> ~c.noLb, aliases |-> c.aliases, pid |-> c.pid,
                        mounts |-> [n \in Range(nodes) |-> Given(nodes, "volume", n)],
                        held |-> [n \in Range(nodes) |-> [k \in Kinds \ {"volume"} |-> Held(k, Given(nodes, k, n))]]]
         /\ UNCHANGED <<input, cfg, volumes, taken, edits, drift>>
      \/ (refused \/ outcomes = {}) /\ Fatal("simple")

\* The shortcut for a directory of k3s is replaced where it occurs first, be it in the source.
Expanded(v) ==
  CASE v.dest # "shortcut" -> v
    [] v.dest = "shortcut" /\ v.src = "shortcut" -> [src |-> "path", dest |-> "absolute"]
    [] v.dest = "shortcut" /\ v.src = "mentionsShortcut" -> [v EXCEPT !.src = "mangled"]
    [] v.dest = "shortcut" /\ v.src \notin {"shortcut", "mentionsShortcut"} -> [v EXCEPT !.dest = "absolute"]

ProcessClusterConfig ==
  /\ Goto("cluster", "processed")
  /\ LET mounts == [n \in DOMAIN cluster.mounts |->
                      [i \in DOMAIN cluster.mounts[n] |-> Expanded(cluster.mounts[n][i])]]
     IN  cluster' = [cluster EXCEPT !.mounts = mounts,
                                    !.apiPort = IF cluster.network = "host" THEN ApiPort ELSE @]
  /\ UNCHANGED <<input, cfg, ports, volumes, taken, edits, drift>>

\* Mutated form of HostNetworkRefused: the load balancer is not counted.
HostNetworkRefusedByServers ==
  cluster.network = "host" /\ (cfg.servers > 1 \/ cluster.aliases # <<>>)

HostNetworkRefused ==
  cluster.network = "host" /\ (Len(cluster.nodes) > 1 \/ cluster.aliases # <<>>)
Refused == HostNetworkRefused \/ cfg.faults \cap ValidateFaults # {} \/ "bad" \in Range(cluster.aliases)

\* Node by node the volumes are checked, and one named for k3d that does not exist is
\* created; those stay when a later volume is refused.
ValidateClusterConfig ==
  LET all == FlattenSeq([i \in DOMAIN cluster.nodes |-> cluster.mounts[cluster.nodes[i]]])
      bad == {i \in DOMAIN all : all[i].dest # "absolute"}
      missing == {i \in DOMAIN all : all[i].src = "k3dVolume"}
      first == IF bad = {} THEN Len(all) + 1 ELSE Min(bad)
  IN  /\ phase = "processed"
      /\ UNCHANGED <<input, cfg, cluster, ports, taken, edits, drift>>
      /\ \/ /\ ~Refused /\ bad = {} /\ phase' = "valid"
            /\ volumes' = {cluster.name : i \in missing}
         \/ /\ ~Refused /\ phase' = "failed"    \* here, or where a volume cannot be created
            /\ \E stop \in ({first} \cap bad) \cup {i \in missing : i < first} :
                 volumes' = {cluster.name : i \in {i \in missing : i < stop}}
         \/ Refused /\ phase' = "failed" /\ UNCHANGED volumes

\* A cluster of that name ends the command; ClusterRun may fail and is rolled back.
CreateCluster ==
  /\ phase = "valid" /\ phase' \in (IF taken THEN {"failed"} ELSE {"created", "failed"})
  /\ UNCHANGED <<input, cfg, cluster, ports, volumes, taken, edits, drift>>
-----------------------------------------------------------------------------
(* Changing the ports of the load balancer that runs *)

\* The runtime lists the containers from the newest to the oldest; they were created in
\* the order of the nodes.
Listing == Reverse(cluster.nodes)

Edits == phase = "created" /\ edits < MaxEdits /\ edits' = edits + 1
Keeps == UNCHANGED <<phase, input, cfg, cluster, volumes, taken>>

\* A first pass refuses any suffix, and with it an option that has no filter.
EditRefused(options) ==
  \/ ~cluster.lb
  \/ \E p \in Range(options) : FilterNodesWithSuffix(Listing, p.filters, {}) = {}

ClusterEditChangesetSimple ==
  /\ Edits /\ Keeps
  /\ \E options \in Changes :
       LET outcomes == TransformPorts(Listing, TRUE, ports, options)
       IN  \/ /\ ~EditRefused(options)
              /\ ports' \in outcomes
              /\ drift' = (drift \/ \E p \in Range(options) : p.removal)
           \/ UNCHANGED <<ports, drift>>     \* refused, or the node is not replaced

\* A binding counts as present on any address of the host; removing takes the first.
EditBinding(f, m, removal) ==
  IF removal THEN Without(f, m.port, m.host)
  ELSE IF m.host \in Range(f[m.port]) THEN f ELSE With(f, m.port, m.host)
EditBindings(f, maps, removal) == FoldLeft(LAMBDA g, m : EditBinding(g, m, removal), f, maps)

\* Mutated form of GeneratedConfig: made from the ports before the edit.
GeneratedFromOld(published) ==
  [p \in Ports |-> IF ports.published[p] = <<>> THEN <<>> ELSE Group(Listing, "server")]

\* The configuration is made anew: every port published is forwarded to the servers.
GeneratedConfig(published) ==
  [p \in Ports |-> IF published[p] = <<>> THEN <<>> ELSE Group(Listing, "server")]

NodeEdit ==
  /\ Edits /\ Keeps /\ cluster.lb
  /\ \/ \E options \in Changes :
          LET maps == FlattenSeq([i \in DOMAIN options |-> options[i].maps])
              published == EditBindings(ports.published, maps, options[1].removal)
          IN  ports' = [ports EXCEPT !.published = published, !.config = GeneratedConfig(published)]
     \/ UNCHANGED ports
  /\ drift' = IF ports' = ports THEN drift ELSE FALSE

Done == phase = "failed" \/ (phase = "created" /\ edits = MaxEdits)
Next ==
  \/ ReadConfig \/ ApplyCLIOverrides \/ ProcessSimpleConfig \/ TransformSimpleToClusterConfig
  \/ ProcessClusterConfig \/ ValidateClusterConfig \/ CreateCluster
  \/ ClusterEditChangesetSimple \/ NodeEdit
  \/ Done /\ UNCHANGED vars

Spec == Init /\ [][Next]_vars
-----------------------------------------------------------------------------
(* Properties *)

\* What a filter means, whatever order the filters are in (docs/design/concepts.md).
Names(f, n) ==
  \/ f.group = "all"
  \/ /\ f.group = n.role
     /\ \/ n = Lb \/ f.subset = Every
        \/ f.subset.kind = "list" /\ n.idx \in Range(f.subset.of)
        \/ /\ f.subset.kind = "range"
           /\ f.subset.from <= n.idx /\ f.subset.to \in {Open} \cup {i \in Nat : n.idx <= i}
Meant(nodes, filters) ==
  IF Unfiltered(filters) THEN Range(nodes) ELSE {n \in Range(nodes) : \E f \in Range(filters) : Names(f, n)}

\* What the user has asked for, in the file or by flags.
FileOptions(k) ==
  IF file.version # "v1alpha2" THEN file.options[k]
  ELSE CASE k = "arg" -> ForGroup(file.serverArgs, "server") \o ForGroup(file.agentArgs, "agent")
         [] k \in {"volume", "env", "runtimeLabel"} -> file.options[k]
         [] OTHER -> <<>>
Asked(k) == Range(FileOptions(k)) \cup Range(flags.options[k])

\* Options with the same text count as one for their filters, of which those with one decide.
\* When a filter for the load balancer or for all is among several, the one that comes first
\* ends the evaluation (filter.go:147-168).
Unambiguous(k, o) ==
  LET same == {p \in Asked(k) : p.what = o.what}
      filters == UNION {Range(p.filters) : p \in same}
  IN  /\ \A p \in same : Unfiltered(p.filters) <=> Unfiltered(o.filters)
      /\ \/ Unfiltered(o.filters)
         \/ \A f \in filters : f.group \in {"server", "agent"}
         \/ \A f, g \in filters : f = g

Made == phase \in {"cluster", "processed", "valid", "created"}
Nodes == Range(cluster.nodes)
K3sNodes == {n \in Nodes : n # Lb}
Holds(n, k) == IF k = "volume" THEN Range(cluster.mounts[n]) ELSE cluster.held[n][k]
Same(k, asked, held) == held = asked \/ (k = "volume" /\ held = Expanded(asked))

TypeOK ==
  /\ phase \in {"start", "read", "merged", "simple", "cluster", "processed", "valid", "created", "failed"}
  /\ Made => /\ Cardinality(Nodes) = Len(cluster.nodes) /\ cluster.lb = (Lb \in Nodes)
             /\ DOMAIN cluster.held = Nodes /\ DOMAIN cluster.mounts = Nodes /\ DOMAIN ports.direct = Nodes
             /\ cluster.apiPort \in Nat \ {Unset}
  /\ \A p \in Ports : ports.published[p] \in Seq(Nat) /\ ports.config[p] \in Seq(Nodes)
  /\ edits \in 0..MaxEdits /\ drift \in BOOLEAN

\* A cluster in the host's network has no second node and no load balancer, and its API is
\* at the port k3s uses: four stages see to it, none of them alone.
HostNetworkAlone ==
  phase \in {"valid", "created"} /\ cluster.network = "host" =>
    Len(cluster.nodes) <= 1 /\ ~cluster.lb /\ cluster.apiPort = ApiPort /\ cluster.aliases = <<>>

\* No node gets an option that was not asked for it: what is split from the flags, put
\* together in a map, appended to the file's options and filtered one by one adds nothing.
OnlyNamedNodes ==
  Made => \A n \in Nodes, k \in Kinds : \A held \in Holds(n, k) :
            \E o \in Asked(k) : Same(k, o.what, held) /\ n \in Meant(cluster.nodes, o.filters)

\* Every node an option names without ambiguity gets it, each node if it has no filter, or for
\* a label another value of the key.
NamedNodesGetIt ==
  Made => \A k \in Kinds : \A o \in Asked(k) :
            Unambiguous(k, o) =>
              \A n \in Meant(cluster.nodes, o.filters) :
                \E held \in Holds(n, k) :
                  IF k \in Maps THEN held.key = o.what.key ELSE Same(k, o.what, held)

\* An option reaches no node that its filters do not name, and unless they are ambiguous all
\* those that they do (docs/design/concepts.md): through the split of the flags, the map, the
\* file's options and every filter's turn.
FiltersHold == OnlyNamedNodes /\ NamedNodesGetIt

\* A label given by a flag is stronger than one of the file with the same key, on the nodes
\* that the flag names without ambiguity.
FlagLabelWins ==
  Made => \A k \in Maps : \A o \in Range(flags.options[k]) :
            Unambiguous(k, o) =>
              \A n \in Meant(cluster.nodes, o.filters) :
                \E p \in Range(flags.options[k]) :
                  p.what.key = o.what.key /\ p.what \in cluster.held[n][k]

\* The filters that are written for the present version, in the file or in flags.
FiltersOf(c) ==
  UNION ({Range(p.filters) : p \in Range(c.ports)}
           \cup UNION {{Range(o.filters) : o \in Range(c.options[k])} : k \in Kinds})
Written == FiltersOf(flags) \cup (IF file.version = "v1alpha2" THEN {} ELSE FiltersOf(file))

\* After a migration no filter of the old version is in its syntax, which nothing would accept.
MigratedFiltersParse ==
  phase \notin {"start", "failed"} =>
    /\ cfg.version = "v1alpha5"
    /\ \A f \in FiltersOf(cfg) : f.bracketed => f \in Written

\* The load balancer of a cluster that has a server forwards exactly the ports its container
\* publishes: at creation, after edits that add ports, and again after every node edit.
PortsInSync ==
  Made /\ ~drift /\ (\E n \in Nodes : n.role = "server") => \A p \in Ports : ports.published[p] = <<>> <=> ports.config[p] = <<>>

\* It forwards to nodes of the cluster and never to itself.
BackendsAreNodes ==
  Made => \A p \in Ports : Range(ports.config[p]) \subseteq K3sNodes

\* A node serves a mapping when it publishes the port itself, or when the load balancer
\* publishes it and forwards it to that node.
Serves(st, n, m, suffix) ==
  IF suffix = "direct" THEN m.host \in Range(st.direct[n][m.port])
  ELSE m.host \in Range(st.published[m.port]) /\ n \in Range(st.config[m.port])

\* In a new cluster every node that a filter of a port option names serves each of the
\* option's mappings, whatever the other options of the same port are.  A filter for the load
\* balancer, or no filter in a cluster of several nodes, stands for all the nodes behind it;
\* one with the suffix "all", which is accepted and ignored, is left out.
PortsServed ==
  Made /\ edits = 0 =>
    \A o \in Range(cfg.ports) : \A f \in Range(TargetFilters(cluster.nodes, o)) :
      f.suffix # "all" =>
        \A n \in Nodes, m \in Range(o.maps) : Names(f, n) => Serves(ports, n, m, f.suffix)

\* What is published at the host ends in nodes of the cluster, and for the ports of a new
\* cluster in those that were named.
PortsReachNodes == BackendsAreNodes /\ PortsServed
===============================================================================
