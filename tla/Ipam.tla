--------------------------------- MODULE Ipam ---------------------------------
(***************************************************************************)
(* The addresses of a cluster's network: the subnet that `--subnet auto`    *)
(* finds with the help of a network made for it, the address that is        *)
(* reserved for the tools container, the static addresses that the servers  *)
(* get when their containers are created, and what the runtime hands out to *)
(* the others while the cluster is started, stopped and extended.           *)
(* The addresses of the subnet are 0 .. last.  The runtime gives a          *)
(* container without a static address the lowest that is free (external;    *)
(* tests/test_ipam.sh relies on it) and takes it back when it stops.        *)
(***************************************************************************)
EXTENDS Integers, FiniteSets

CONSTANTS
  Count,     \* the servers created with the cluster are 1 .. Count
  Added,     \* servers that `k3d node create` may add
  Others,    \* agents and load balancer: no static address
  Tools,     \* the tools container
  Outsiders, \* containers of no node of the cluster: registries, other clusters' nodes
  Lasts,     \* the sizes of subnet, each by its last address
  Subnets,   \* the subnets that there are
  None       \* no address, no subnet

Servers == 1 .. Count
Containers == Servers \cup Added \cup Others \cup {Tools} \cup Outsiders

ASSUME IpamAssumption ==
  /\ Count \in Nat \ {0} /\ IsFiniteSet(Outsiders)
  /\ Lasts \subseteq Nat \ {0, 1} /\ \A last \in Lasts : None \notin 0 .. last
  /\ None \notin Subnets
  /\ \A s \in Servers : s \notin Added \cup Others \cup {Tools} \cup Outsiders
  /\ Added \cap (Others \cup {Tools} \cup Outsiders) = {}
  /\ Others \cap ({Tools} \cup Outsiders) = {} /\ Tools \notin Outsiders

VARIABLES
  last,     \* the last address of the subnet
  cmd,      \* control state of the command that runs, or how the last one ended;
            \* first the value of --subnet: "none", "auto" or "prefix"
  fake,     \* runtime: the subnet of the network made by getFreeSubnetPrefix, or None
  subnet,   \* the prefix in the struct, until the network is there
  theirs,   \* runtime: the subnets of all other networks, until then
  managed,  \* IPAM.Managed of the network that is used
  used,     \* IPAM.IPsUsed of the struct, where ClusterPrepNetwork and nodeSetup note
            \* what they gave out
  reserved, \* the address that ClusterPrepNetwork sets aside
  static,   \* runtime: the address a server's container asks for, None when it asks for none
  made,     \* runtime: the servers that have a container
  at,       \* runtime: the address of each running container, None when it does not run
  refused,  \* history: has a server been refused its address?
  troubles  \* history: what has happened besides whole creations, stops and starts

net == <<last, fake, subnet, theirs, managed>>
given == <<used, reserved, static, made>>
vars == <<net, given, cmd, at, refused, troubles>>

Gateway == 1
InSubnet == 0 .. last
Held == {at[c] : c \in Containers} \ {None}

\* What is left of the subnet without its first and last address, the
\* gateway and the addresses of `taken`.
Free(taken) == InSubnet \ (taken \cup {0, Gateway, last})

Lowest(a, taken) == a \in Free(taken) /\ \A b \in Free(taken) : a <= b

Init ==
  /\ cmd \in {"none", "auto", "prefix"} /\ last \in Lasts
  /\ fake = None /\ theirs \in SUBSET Subnets
  /\ subnet \in IF cmd = "prefix" THEN Subnets ELSE {None}
  /\ managed = "no" /\ used = {} /\ reserved = None
  /\ static = [s \in Servers \cup Added |-> None] /\ made = {}
  /\ at = [c \in Containers |-> None]
  /\ refused = "no" /\ troubles = {}

\* Containers of others and single nodes mix up everything.
Trouble(t) == IF "meddled" \in troubles THEN troubles ELSE troubles \cup {t}

Goto(p, q) == cmd = p /\ cmd' = q
-----------------------------------------------------------------------------
(* The network *)

Prep == UNCHANGED <<last, given, at, refused, troubles>>

\* What the other networks are does not matter any more.
HasNetwork == fake' = None /\ subnet' = None /\ theirs' = {}

\* A network of that name exists: it is used as it is, and --subnet has no effect.
UseExisting ==
  /\ Prep /\ cmd \in {"none", "auto", "prefix"} /\ cmd' = "create" /\ HasNetwork
  /\ UNCHANGED managed

\* With --network, a prefix is an error; without it, the network of the default
\* name may still be there, and UseExisting applies.
PrefixOfNamed ==
  /\ Prep /\ Goto("prefix", "failed") /\ UNCHANGED <<fake, subnet, theirs, managed>>

\* Without --subnet the runtime picks one.
CreateUnmanaged == Prep /\ Goto("none", "create") /\ HasNetwork /\ UNCHANGED managed

\* getFreeSubnetPrefix: a network is created for the runtime to pick a subnet ...
CreateFake ==
  /\ Prep
  /\ \/ Goto("auto", "inspectFake") /\ fake' \in Subnets \ theirs
     \/ Goto("auto", "failed") /\ UNCHANGED fake
  /\ UNCHANGED <<subnet, theirs, managed>>

\* Mutated form of DeleteFake: the network is left to be removed later.
KeepFake ==
  /\ Prep /\ Goto("inspectFake", "found") /\ subnet' = fake
  /\ UNCHANGED <<fake, theirs, managed>>

\* ... inspected and removed again; when either fails it stays.
DeleteFake ==
  /\ Prep
  /\ \/ Goto("inspectFake", "found") /\ subnet' = fake /\ fake' = None
     \/ Goto("inspectFake", "failed") /\ UNCHANGED <<fake, subnet>>
  /\ UNCHANGED <<theirs, managed>>

\* NetworkCreate with the prefix: refused when any network has it.
CreateNetwork ==
  /\ Prep /\ cmd \in {"prefix", "found"}
  /\ \/ subnet \notin theirs \cup {fake} /\ cmd' = "reserve" /\ managed' = "yes" /\ HasNetwork
     \/ subnet \in theirs \cup {fake} /\ cmd' = "overlap"
        /\ UNCHANGED <<fake, subnet, theirs, managed>>

\* Other commands, another k3d among them, create and remove networks at any time.
OthersNetworks ==
  /\ cmd \in {"auto", "inspectFake", "prefix", "found"}
  /\ theirs' \in {theirs \cup {s} : s \in Subnets \ {fake}} \cup {theirs \ {s} : s \in Subnets}
  /\ UNCHANGED <<last, fake, subnet, managed, given, cmd, at, refused, troubles>>
-----------------------------------------------------------------------------
(* The creation of the cluster *)

\* Mutated form of GetIP: only what the runtime reports is taken.
GetIPOfRunning(a) == Lowest(a, Held)

\* GetIP: the lowest address that no running container has (GetNetwork) and
\* the struct does not hold as used.
GetIP(a) == Lowest(a, Held \cup used)

\* The program panics, and nothing is rolled back: `ipset.Ranges()[0]` of an
\* empty set, or GetNetwork fails and the message of its error takes the name
\* of the network that it did not return.
GetIPPanics ==
  /\ \/ Free(Held \cup used) = {} /\ cmd' = "panic"
     \/ cmd' = "nilNetwork"
  /\ UNCHANGED given

\* ClusterPrepNetwork, at its end: an address for the tools container.
Reserve ==
  /\ cmd = "reserve"
  /\ \/ \E a \in InSubnet :
          GetIP(a) /\ reserved' = a /\ used' = used \cup {a} /\ cmd' = "create" /\ UNCHANGED <<static, made>>
     \/ GetIPPanics
  /\ UNCHANGED <<net, at, refused, troubles>>

\* nodeSetup of the servers, one after the other; the container does not run yet.
NodeSetup(s) ==
  /\ cmd = "create" /\ s \notin made /\ \A t \in Servers : t < s => t \in made
  /\ \/ /\ managed = "yes"
        /\ \/ \E a \in InSubnet : /\ GetIP(a) /\ used' = used \cup {a}
                                  /\ static' = [static EXCEPT ![s] = a] /\ made' = made \cup {s}
                                  /\ UNCHANGED <<reserved, cmd>>
           \/ GetIPPanics
     \/ managed = "no" /\ made' = made \cup {s} /\ UNCHANGED <<used, reserved, static, cmd>>
  /\ UNCHANGED <<net, at, refused, troubles>>

\* The agents and the load balancer are created as well.
EndCreate ==
  /\ Servers \subseteq made /\ Goto("create", "gather")
  /\ UNCHANGED <<net, given, at, refused, troubles>>
-----------------------------------------------------------------------------
(* Containers start and stop *)

Runs(c) == at[c] # None
Wants(c) == IF c \in Servers \cup Added THEN static[c] ELSE None

\* Mutated form of Start: what TranslateNodeToContainer puts into the endpoint's
\* settings is lost.
StartDynamic(c) ==
  /\ ~Runs(c) /\ \E a \in InSubnet : Lowest(a, Held) /\ at' = [at EXCEPT ![c] = a]
  /\ UNCHANGED refused

\* A container starts with the address that it asks for, or any.
Start(c) ==
  /\ ~Runs(c)
  /\ \E a \in InSubnet : /\ IF Wants(c) # None THEN a = Wants(c) /\ a \notin Held ELSE Lowest(a, Held)
                         /\ at' = [at EXCEPT ![c] = a]
  /\ UNCHANGED refused

\* It does not: another has its address, or the subnet is full.
StartRefused(c) ==
  /\ ~Runs(c) /\ UNCHANGED at
  /\ \/ Wants(c) # None /\ Wants(c) \in Held /\ refused' = "yes"
     \/ Wants(c) = None /\ Free(Held) = {} /\ UNCHANGED refused

Stopped(S) == at' = [c \in Containers |-> IF c \in S THEN None ELSE at[c]]

\* EnsureToolsNode, from a goroutine of the creation ...
EnsureToolsNode ==
  /\ cmd = "create" /\ Start(Tools)
  /\ UNCHANGED <<net, given, cmd, troubles>>

\* ... and from GatherEnvironmentInfo, which deletes the container; an error of
\* the runtime in this is a warning.
GatherEnvironmentInfo ==
  /\ \/ cmd = "gather" /\ cmd' = "gather" /\ Start(Tools) /\ UNCHANGED troubles
     \/ Goto("gather", "up") /\ StartRefused(Tools) /\ UNCHANGED troubles
     \/ /\ Goto("gather", "servers") /\ Runs(Tools) /\ UNCHANGED refused
        /\ \/ Stopped({Tools}) /\ UNCHANGED troubles
           \/ UNCHANGED at /\ troubles' = Trouble("leak")
  /\ UNCHANGED <<net, given>>

\* Mutated form of ClusterStart: one group for all nodes.
ClusterStartAtOnce ==
  /\ \/ \E c \in made \cup Others : Start(c) /\ cmd = "servers" /\ UNCHANGED cmd
     \/ \E c \in made \cup Others : StartRefused(c) /\ Goto("servers", "up")
     \/ cmd = "servers" /\ cmd' = "up" /\ UNCHANGED <<at, refused>>
  /\ UNCHANGED <<net, given, troubles>>

\* ClusterStart: the initializing server (the first), the servers one by one,
\* then the others; the first error ends it.
ClusterStart ==
  /\ \/ \E s \in made : /\ cmd = "servers" /\ (s = 1 \/ Runs(1)) /\ UNCHANGED cmd
                        /\ Start(s)
     \/ \E s \in made : (s = 1 \/ Runs(1)) /\ Goto("servers", "up") /\ StartRefused(s)
     \/ Goto("servers", "others") /\ (\A s \in made : Runs(s)) /\ UNCHANGED <<at, refused>>
     \/ \E o \in Others : cmd = "others" /\ UNCHANGED cmd /\ Start(o)
     \/ \E o \in Others : Goto("others", "up") /\ StartRefused(o)
     \/ (Goto("servers", "up") \/ Goto("others", "up")) /\ UNCHANGED <<at, refused>>
  /\ UNCHANGED <<net, given, troubles>>

\* `k3d cluster start`.
StartCommand == Goto("up", "gather") /\ UNCHANGED <<net, given, at, refused, troubles>>

\* `k3d cluster stop`: a node that cannot be stopped is passed over.
ClusterStop ==
  /\ cmd = "up" /\ UNCHANGED cmd
  /\ \E S \in SUBSET (made \cup Others \cup {Tools}) :
       /\ Stopped(S)
       /\ troubles' = IF \A c \in made \cup Others \cup {Tools} : Runs(c) => c \in S
                      THEN troubles ELSE Trouble("partial")
  /\ UNCHANGED <<net, given, refused>>

\* Single nodes stop and start: `k3d node stop`, `k3d node start`, the restart
\* policy of the runtime.
SingleNode ==
  /\ cmd = "up" /\ UNCHANGED cmd /\ troubles' = {"meddled"}
  /\ \E c \in made \cup Others : \/ Runs(c) /\ Stopped({c}) /\ UNCHANGED refused
                                 \/ Start(c) \/ StartRefused(c)
  /\ UNCHANGED <<net, given>>

\* Containers that are none of the cluster's nodes join the network and leave it.
Outside ==
  /\ cmd \in {"reserve", "create", "gather", "servers", "others", "up"} /\ UNCHANGED cmd
  /\ \E o \in Outsiders : \/ Start(o) /\ troubles' = {"meddled"}
                          \/ Runs(o) /\ Stopped({o}) /\ UNCHANGED <<refused, troubles>>
  /\ UNCHANGED <<net, given>>

\* NodeAddToCluster for a server: the new node is a copy of an existing server,
\* its address included when that one runs and has a label of a static address
\* (the first agent of a cluster without agents is such a copy, too).
AddServer(n) ==
  /\ cmd = "up" /\ n \notin made /\ UNCHANGED cmd
  /\ made' = made \cup {n} /\ troubles' = {"meddled"}
  /\ \E s \in Servers :
       \/ /\ Runs(s) /\ static[s] # None /\ static' = [static EXCEPT ![n] = at[s]]
          /\ refused' = "yes" /\ UNCHANGED at
       \/ /\ ~(Runs(s) /\ static[s] # None) /\ UNCHANGED static
          /\ Start(n) \/ StartRefused(n)
  /\ UNCHANGED <<net, used, reserved>>

Next ==
  \/ UseExisting \/ PrefixOfNamed \/ CreateUnmanaged \/ CreateFake \/ DeleteFake \/ CreateNetwork \/ OthersNetworks
  \/ Reserve \/ EndCreate \/ EnsureToolsNode \/ GatherEnvironmentInfo \/ ClusterStart
  \/ \E s \in Servers : NodeSetup(s)
  \/ StartCommand \/ ClusterStop \/ SingleNode \/ Outside
  \/ \E n \in Added : AddServer(n)

Spec == Init /\ [][Next]_vars
-----------------------------------------------------------------------------
(* Properties *)

TypeOK ==
  /\ last \in Lasts
  /\ cmd \in {"none", "auto", "prefix", "inspectFake", "found", "overlap", "reserve", "create", "gather",
              "servers", "others", "up", "failed", "panic", "nilNetwork"}
  /\ fake \in Subnets \cup {None} /\ subnet \in Subnets \cup {None} /\ theirs \subseteq Subnets
  /\ managed \in {"yes", "no"} /\ used \subseteq Free({}) /\ reserved \in InSubnet \cup {None}
  /\ static \in [Servers \cup Added -> InSubnet \cup {None}] /\ made \subseteq Servers \cup Added
  /\ at \in [Containers -> InSubnet \cup {None}]
  /\ refused \in {"no", "yes"} /\ troubles \subseteq {"leak", "partial", "meddled"}

\* In a network that k3d manages, every server created with the cluster asks
\* for an address that is usable, the gateway's excepted, that no other of
\* them asks for, and that is not the one set aside for the tools container
\* (cluster.go:334, network.go:100).
AddressesOfTheirOwn ==
  managed = "yes" =>
    \A s \in Servers \cap made :
      /\ static[s] \in Free({reserved})
      /\ \A t \in Servers \cap made : static[s] = static[t] => s = t

\* A server that runs has its static address.
ServersHaveTheirs ==
  managed = "yes" => \A s \in Servers : Runs(s) => at[s] = static[s]

\* The server's address is its own over every stop and start (CHANGELOG.md:727):
\* when it runs it has no other, and when it does not, no agent, load balancer
\* or other server has taken it, in whatever order the containers start and
\* however many of them a stop has passed over.  Only the tools container may
\* have it, after a stop in part, and anybody once others have meddled.
ServersKeepAddress ==
  /\ ServersHaveTheirs
  /\ managed = "yes" /\ "meddled" \notin troubles =>
       \A s \in Servers, c \in Containers :
         Runs(c) /\ at[c] = static[s] => c = s \/ (c = Tools /\ "partial" \in troubles)

\* A server is refused its address only when a container that is no node of
\* the cluster was in the network, single nodes were started or added, or the
\* tools container was left behind in a cluster that was stopped in part: whole
\* stops and starts never do it, even when the tools container cannot be
\* deleted (environment.go:48), because its address was set aside.
RefusedForAReason ==
  refused = "yes" => "meddled" \in troubles \/ {"leak", "partial"} \subseteq troubles

\* The program panics for want of an address only in a subnet smaller than what
\* the creation needs: network, gateway and broadcast address, the reserved
\* one, the servers, the tools container and the containers of others.  When the
\* network cannot be read it panics in a subnet of any size, but only over a
\* network that k3d manages.  Either way, none of the nodes runs yet.
PanicForAReason ==
  /\ cmd = "panic" => last + 1 < 5 + Count + Cardinality(Outsiders)
  /\ cmd \in {"panic", "nilNetwork"} => managed = "yes" /\ \A c \in made \cup Others : ~Runs(c)

\* The subnet found with --subnet auto is refused only when another command
\* has taken it meanwhile: k3d's own network, made to find it, is gone by then.
OnlyOthersOverlap == cmd = "overlap" => fake = None /\ subnet \in theirs

\* A command that uses a network ends without its address only for these reasons.
CommandsEndForAReason == RefusedForAReason /\ PanicForAReason
=============================================================================
