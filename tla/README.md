# k3d in TLA+

Specifications of k3d (the Go program in `src/`, which runs k3s clusters in containers): TLA+
modules translated from the source, TLC configurations that check them on small instances, and
proofs that TLAPS checks for every value of the constants.

## 1. The system

k3d is a command line program without a daemon. Every invocation is a process of its own that reads
what it needs from the container runtime (Docker), changes containers, networks and volumes by
further calls, and exits; all durable state is the runtime's (container names, labels, networks,
volumes) and a few files of the user (kubeconfig). Several commands may run at the same time, no lock
exists between them, and every runtime call may fail. Inside a command, goroutines (errgroups) start
nodes and prepare helpers concurrently.

### Inventory

| Component (source) | State it keeps | Operations | Interacts with | What is hard | What makes it correct |
|---|---|---|---|---|---|
| Cluster creation and rollback (`pkg/client/cluster.go` ClusterRun, ClusterPrep, ClusterCreate, ClusterDelete; `cmd/cluster/clusterCreate.go`) | the Cluster struct (nodes, labels, network), the runtime's objects | prepare network, volume, registries; create nodes; start; roll back | tools node (goroutine), registry, runtime, cluster start | goroutine not joined on failure; partial failure; two commands of one name; who owns the network is known only from labels | success means complete; rollback restores; a user's network is left alone; the command ends |
| Cluster start (`ClusterStart`, `NodeStart`, `NodeWaitForLogMessage`) | nodes' running state, goroutine groups, log streams, deadline | start groups of nodes, wait for ready messages, inject host records | runtime, hooks (`pkg/client/hooks.go`, `pkg/actions`), environment | concurrency with cancellation, crash loops, timeout | start order; nothing acts after the return; success means ready |
| Load balancer replacement (`NodeEdit`, `NodeReplace`, `ClusterEditChangesetSimple`) | two containers and their names | rename, create, stop, start, delete, undo | runtime, load balancer configuration | no transaction: failure or kill between any two calls, overlapping edits | never without a container; replaced or restored |
| Adding and deleting nodes, load balancer membership (`NodeAddToCluster*`, `NodeDelete`, `UpdateLoadbalancerConfig`) | the configuration file in the load balancer, the servers that exist | add, delete, regenerate and write the configuration | cluster get, confd/nginx in `proxy/` | read-modify-write without a lock, stale cluster structs | the configuration names the servers that exist |
| Load balancer ports (`loadbalancer.go`, `ports.go`, `pkg/util/filter.go`, `pkg/util/ports.go`) | port map of the configuration | add and remove mappings, node filters | configuration transformation | list updates inside loops, filter syntax | an added port reaches the filtered nodes, once; a removed one is gone |
| IPAM (`ipam.go`, `docker/network.go`) | used addresses of the network | next free address, free subnet | cluster creation, node add | stale lists of used addresses | no address twice, none outside the prefix |
| Registries (`registry.go`, `cmd/registry`) | registry containers, networks they are connected to | create, connect, delete, configuration files | cluster creation and deletion | sharing between clusters | not deleted while another cluster uses it |
| Cluster deletion, stop, restart (`ClusterDelete`, `ClusterStop`, `cmd/cluster`) | runtime objects | delete nodes, network, volumes | registries, networks shared by clusters | two clusters sharing a network or registry | shared things survive, others do not leak |
| Kubeconfig (`kubeconfig.go`, `cmd/kubeconfig`) | the user's kubeconfig file | get, merge, write, remove | cluster creation and deletion | read-modify-write by several processes | other clusters' entries survive |
| Tools node and image import (`tools.go`) | tools container, image tars in the volume | ensure, import, delete | cluster creation, runtime | mutex only within a process | the tools node exists while it is used |
| Configuration (`pkg/config`, `cmd/util/config`) | config documents of four API versions | read, migrate, merge, transform, validate | everything above | defaults and migrations | migration keeps meaning |
| Docker runtime (`pkg/runtimes/docker`) | none of its own | translation of nodes to containers, calls | Docker | not transactional | look-up by name and label |
| Hooks, actions, fixes (`pkg/actions`, `pkg/types/fixes`, `hooks.go`) | files in containers | write, rewrite, exec | node start | errors only logged before the start | files are there before the start |
| CLI (`cmd`), listings, completion, docgen, `tools/`, `proxy/` | none | argument parsing, output, images | client | - | - |

The hazards of the code, each at its line, and the properties that cover them are listed in
`PROJECT.json`.

## 2. Plan

Modules in the order of their importance; those marked * exist.

1. *`ClusterRun` (with `MCClusterRun`): creation and rollback, the tools goroutine, a peer process.
2. *`ClusterStart` implementing the abstract *`StartPhases`: the start of a cluster.
3. *`NodeReplace`: the replacement of the load balancer.
4. *`LbMembership`: adders and deleters of servers and the configuration of the load balancer.
5. *`Kubeconfig`: merge, removal and write by several processes.
6. *`ImageStream`: the direct import of images, a stream copied to all the nodes.
7. *`NodeFilters` and *`LbPorts`, the algorithms on node filters and ports, used by *`ClusterConfig`:
   from the configuration file and the flags to the cluster's nodes, their options and ports, and
   the edits of the ports.
8. *`Ipam`: subnets and addresses over creations, stops, starts and additions.
9. *`NodeAdd`: what a new node copies from an old one.
10. `SharedDelete`: the deletion of clusters that share a network and a registry.
11. `ImageImport`: the tools node, image tars, concurrent imports.

How they compose: `ClusterConfig` extends `LbPorts`, which extends `NodeFilters`. `ClusterRun` abstracts
the start to one action per group; `ClusterStart` has the detail and refines `StartPhases`, which is what
`ClusterRun` assumes. `LbMembership` has the concurrency of adding a server, `NodeAdd` the contents of
the new container, `Ipam` its address; they share no state but the existence of the container.
`NodeReplace` replaces a container whose ports `ClusterConfig` computes.

## 3. What is modelled

### ClusterRun

The state is the runtime's (`cont`: what container has a name; `net`, `vol`, `regAttached`) and the
command's: `pc` is the point reached in ClusterRun, ClusterPrep, ClusterCreate and ClusterDelete,
`next` the loop index of nodeSetup, `labelled` the nodes of the Cluster struct that hold the global
labels, `tools` the point reached by the EnsureToolsNode goroutine. Each call to the runtime is an
action with its failure as an alternative; `history` variables record that a call failed (`fault`,
`rollbackFault`) and that the rollback had the runtime for itself (`alone`). The rollback is ClusterGet
(which merges the runtime's containers into the struct and reads from labels whether the network is
external), NodeDelete per node, DeleteNetwork with the registry's disconnection, DeleteVolume. A peer
process may create containers of the same names at any time after the check for an existing cluster.
`opts.timed` says whether a timeout was given; without one the waits for nodes (`MayWaitForEver`) need not
end. Not in the model: the contents of configuration, ports, addresses, labels other than the network's;
SIGKILL of the command (it leaves everything in place).

### ClusterStart and StartPhases

One `call` state per node follows NodeStart: the fixes and hooks (`PreStart`), the request to the runtime
(`StartNode`) and its answer (`StartReturns`), waiting for the log. The container side (`ctr`) starts, or
cannot, whether or not the client still waits for the answer (`RuntimeStarts`), so that a request in flight
when a sibling's error cancels the context still starts its container; it boots, crashes and becomes ready as
k3s and nginx do: a joining node needs the node it joins, nginx has to resolve the servers' names. `Turn`
says whose NodeStart runs: servers one after the other, agents and helpers concurrently. A call that is
`failing` has its error; `Reported` is the errgroup seeing it and cancelling the others. `Expire` is the
deadline. `PostStart` is what follows the groups: nothing in the host's network (`hostNet`), otherwise the
host records of the nodes (`aliased`). Not in the model: the files that hooks write, for a hook that fails is
only logged.
`StartPhases` is the promise: groups come up one after another; the refinement counts a group's nodes
when its phase ends.

### NodeReplace

Containers have names; every call finds its container by name, as the Docker runtime does. One action
per call of NodeReplace, each with its failure, the undo paths included; `Kill` ends a command
anywhere. Two editors overlap freely. `ran` is `old.State.Running` of the struct, which StopNode does
not update. Both starts are followed by a wait for the log without a timeout, `wait` for the new container and
`waitOld` for an old one that was not running before. Not in the model: the contents of the load balancer's configuration and ports.

### LbMembership

`created` and `up` are the runtime's server containers, `conf` the file in the load balancer, `active`
what nginx uses, `known` the servers in the Cluster struct of each command. A task is a call of
NodeAddToCluster (the goroutines of one `k3d node create` share a command and its struct) or of
NodeDelete (a process of its own). ClusterGet is two actions: `Get` lists the containers and takes the
slice of nodes that it will append to (`header`), `Merge` appends; as no lock protects the struct,
`Merge` starts from the present or from the earlier slice. `Generate`, `Write` and `Wait` are the rest of
UpdateLoadbalancerConfig. `Confd` is the load balancer's side, external to the client: it checks the file
by resolving the names in it and reloads nginx or rejects the file. Not in the model: agents (they do
not touch the load balancer), ports, the truncation of the log's start time to a second, and several
servers deleted by one command (it deletes them one after the other, as several commands would).

### Kubeconfig

A kubeconfig file is a record of three functions (clusters, users, contexts) and the current context; the
entry of a cluster is the generation of the cluster it was made for, as a cluster may be deleted and
created again. A task is a process: `k3d cluster create`, `k3d cluster delete` or `k3d kubeconfig merge`
of one cluster with some flags. `file` and `exists` are the disk, `mem` and `temp` what the process has
read and its temporary file; every system call that other processes can notice is an action: load,
os.Create, rename, truncate, write, remove. The write of --overwrite is two actions, `Fill` and `FillRest`,
with a part of the content (`Parts`) on the disk between them, where it stays if the process fails or is
killed there. `open` says of a file opened that way whether it is still the one at its path, for a rename or a
removal may have replaced it, and whether another process has emptied it or written to it since, which leaves a
mixture. `Own` gives each cluster its own file. The file that a process works on (`Out`) is chosen for each process,
by its flags or its KUBECONFIG, and may be the cluster's own one: the hint after a creation and
docs/usage/kubeconfig.md:18 set KUBECONFIG to that. `Kill` ends a process anywhere. A failure of any
step is an alternative of its action. Not in the model: printing to stdout, a KUBECONFIG of several
files, symbolic links (the rename follows them), the collision of two temporary names within a
microsecond.

### ImageStream

`loadImageFromStream` for one stream: the copying goroutine (`copier`, `written`, `at`: the pipe to
which it is writing), one ExecInNodeWithStdin per node (`call`), the process in the node (`proc`, `got`)
and the goroutine between the two (`pump`). An io.Pipe has no buffer: `HandOver` needs its reader to be
waiting. The process ends by the archive's own end mark, because its input is never closed. Failures
have actions of their own (`ExecFails`, `ProcFails`, `InspectFails`, `StreamFails`) without fairness.
Not in the model: the output of the process, which is read only after an error.

### NodeFilters, LbPorts and ClusterConfig

`NodeFilters` and `LbPorts` have no state. `FilterNodes` goes through the filters in order and ends at the
first that is an error, `all` or `loadbalancer`, as the code does; a call that can fail is the set of its
outcomes, empty for an error, and has several where the code iterates over a map. `LbPorts` keeps the three
places in which a port mapping shows: `published` (bindings of the load balancer's container), `config`
(backends in its file) and `direct` (bindings of other nodes); `AppendPerElement` is the loop at
loadbalancer.go:243 that appends to the list it goes over.

`ClusterConfig` runs through the stages of `k3d cluster create`: `ReadConfig` (the schema check, migrations of
v1alpha2 to v1alpha4, flags bound by viper, which an old version may not know), `ApplyCLIOverrides` (flags
grouped in maps, in any order), `ProcessSimpleConfig`, `TransformSimpleToClusterConfig`,
`ProcessClusterConfig`, `ValidateClusterConfig` (which creates volumes on its way) and `CreateCluster`.
Each stage has the failures of its code, `Fatal` ends the command. Afterwards
`ClusterEditChangesetSimple` and `NodeEdit` change the ports in the order of the runtime's listing.
Options are kinds (`label`, `env`, ...) with a value and filters; texts are not parsed character by
character, a filter is the record that its regular expression yields. Not in the model: environment variables
read by viper, the registries' part of the configuration, the contents of the load balancer's settings.

### Ipam

The subnet is `0 .. last`. `cmd` is the progress of the command: the network (`UseExisting`, `PrefixOfNamed`
for the error of a prefix with `--network`, `CreateUnmanaged`, or `CreateFake`, `DeleteFake`, `CreateNetwork`
for `--subnet auto`), `Reserve` and `NodeSetup` (GetIP for the tools container and each server), then starts
and stops. `GetIPPanics` is what GetIP does when the subnet is used up (`panic`) and when the network
cannot be read (`nilNetwork`). `static` is what a
server's container asks for, `at` what running containers have, `used` the struct's IPsUsed. The runtime
hands out the lowest free address, as tests/test_ipam.sh relies on, and takes it back at a stop. `troubles`
records what happened besides whole creations, stops and starts, for `RefusedForAReason`.

### NodeAdd

`node` is the container of each name, a record of what a copy may take over: the command with its flags, the
arguments, K3S_URL and the token, mounts, published ports, the init label, the memory limit, whether
registries.yaml is there; only a server counts as the initializing one, as ClusterStart looks for it among
servers (cluster.go:933). `Multi` reads the cluster once (`snap`) for all replicas; `AddToCluster` reads the
source again, sanitizes it (`Visits` is the loop over a slice that its body shortens, pass by pass, `Dropped`
what it leaves), lays the command's fields over it and creates the container; `AddFails`, `AddPanics` and `Delete` interleave.
Whether the command is the default one is decided, as in the code, by the roles of the nodes as they were listed
(`snap`), not by the source read again. `Reread` is the memory limit on its way through a text: four digits of
megabytes, or from a gigabyte on of gigabytes, read as powers of 1024. `MayBreakOff` is the registries.yaml of
which less than a header was read, where the code cuts off 512 bytes. The start of the new node and the update of
the load balancer are in `LbMembership` and `ClusterStart`, its address is in `Ipam`. Not in the model:
`NodeAddToClusterRemote`, the roles loadbalancer and registry, which --role accepts as well, limits above ten
gigabytes, and `enableFixes`.

## 4. The runs

| Run | Instance | Shows |
|---|---|---|
| `cluster_run` | 2 servers, 1 agent, lb, tools, registry; 8 option sets; a peer taking the first server's or the tools node's name | `SuccessMeansComplete`, `CreatedInOrder`, `CleanRollbackRestores`, `UserNetworkLostOnlyEarly`, `Terminates` |
| `cluster_rollback` | the same without a peer | "all changes have been rolled back!" is not so when the goroutine is still running |
| `cluster_start` | init server, 2 servers, 2 agents, lb, registry; back-off limit 2 | `StartedWhenJoinable`, `NoGoroutineLeft`, `SuccessMeansReady`, `FailureStopsRequests`, `TimeoutEnds`, `EndsUnlessSilent`, refinement of `StartPhases` |
| `node_replace` | two editors | `NeverWithoutContainer`, `SoloReplaced`, `SoloUndo`, `EditEnds` |
| `node_replace_rollback` | one editor | "Rolled back" leaves the old load balancer stopped |
| `lb_members` | 2 servers; a command adds one, one deletes it, one deletes another | `StableServersRouted`, `SoloUpdateExact`, `UpdateEnds` |
| `kubeconfig` | a cluster, an entry of the user; one process creates the cluster, one deletes it, one merges it with any of 6 sets of flags, each working on the default file or the cluster's own one | `FilesWhole`, `ForeignKept`, `SoloExact` |
| `image_stream` | 3 nodes, 2 chunks | `SuccessMeansImported`, `Lockstep`, `ImportEnds` |
| `image_stream_failure` | 2 nodes, 2 chunks | a node's failure leaves the import waiting for ever |
| `cluster_config` | 17 files of all versions (10 of them with a fault), 23 sets of flags, two edits of 14 kinds | types, `HostNetworkAlone`, `FiltersHold`, `FlagLabelWins`, `MigratedFiltersParse`, `PortsInSync`, `PortsReachNodes` |
| `ipam` | 2 servers, one added later, agent, lb, tools, registry; subnets of 4, 8 and 16 addresses | `AddressesOfTheirOwn`, `ServersKeepAddress`, `CommandsEndForAReason`, `OnlyOthersOverlap` |
| `node_add` | 6 clusters of up to 2 servers and an agent; commands that add 1 or 2 nodes, any deletions | `OneInitServer`, `CopiesRun`, `JoinsTheCluster`, `LimitKept` |

The type invariants of the modules with proofs are proved for all constants (section 5) and, but for that of
`ClusterConfig`, not repeated in the runs.

Bounds. Two servers are the fewest with an initializing and a joining one, an agent gives a second
role; three servers in `cluster_start` give a sequence of joining servers and two agents a group with
a sibling to cancel. The back-off limit of 2 (10 in the code) gives a crash that is retried and one
that is not. Two editors are the fewest that overlap; a third adds no new kind of interference because
commands interact only through names. In `LbMembership` one server stays, one is deleted, one is added
and deleted; these are all the kinds there are. In `Kubeconfig` the three kinds of
processes run once each: the interference of any two, and a second one on the result. Entries of a second
cluster are like those of the user: no process of the first one's changes either. `MaxGen` of 2 lets
a cluster be deleted and created again. Two chunks are one before and one after any point of the
stream, three nodes one before and one behind the node at which the copier is. In `ClusterConfig` every
combination of the files and the flags is tried; groups of two and three nodes give lists, ranges and indices
that fit and that do not, one node gives options that need no filter; `MaxEdits` of 2 gives an edit of what
an edit has left. In `Ipam` four addresses are too few for anything, eight are just too few or enough and
sixteen plenty; agent and load balancer are symmetric, so are the subnets. `MaxRequests` of `NodeAdd` gives a copy
of a copy. No state is unbounded otherwise, so there are no state constraints.
`CHECK_DEADLOCK FALSE`: all the commands end.

Fairness. The Go scheduler runs every runnable goroutine and runtime calls return (with an error if
need be): weak fairness of each thread of control, but not of its waits for a log without a timeout. The default
timeout is none (clusterCreate.go:297), so `Terminates` allows a creation to stay in such a wait
(`MayWaitForEver`), `EndsUnlessSilent` says which silence a start without a timeout may wait for, and `EditEnds`
lets an edit wait for either container. With a timeout the deadline passes: weak fairness of `Expire`.
In `ImageStream` a process that has the whole archive ends; a failure is never forced. `Kubeconfig`,
`ClusterConfig`, `Ipam` and `NodeAdd` state safety only and need no
fairness. Nothing is assumed of containers (they may never become ready, never crash), of peers, of kills, nor of
the waits without a timeout in `NodeReplace` and `ClusterStart`, nor of `Confd`: the update's own deadlines
end it.

## 5. What is proved

`Goroutines_proofs` on `ClusterStart`, for any number of servers, agents, helpers and registries, with and without a
load balancer, an initializing server and a timeout, from `ClusterStartAssumption`:

- `TypeCorrect`: `Spec => []TypeOK`.
- `JoinableWhenStarted`, `GoroutinesEnd`, `SuccessIsReady`: `Spec` implies always `StartedWhenJoinable`,
  `NoGoroutineLeft` and `SuccessMeansReady`. The invariant `IInv` says that groups that are over are up
  (`PastUp`), groups to come are untouched (`LaterIdle`), and servers have their turn one after the other
  (`InOrder`).
- `FailureEndsRequests`: `Spec => FailureStopsRequests`. What was asked of the runtime before may still start.
- `StartsGroupByGroup`: `Spec => StartsInPhases`, the refinement of `StartPhases`: every step of a goroutine is
  a stutter of the abstract start or one of its phases.

`Ipam_proofs`, for any number of servers, containers and subnets of any size, from `IpamAssumption`:

- `TypeCorrect`: `Spec => []TypeOK`.
- `OwnAddresses`, `AddressesKept`, `OverlapByOthers`: `Spec` implies always `AddressesOfTheirOwn`,
  `ServersKeepAddress` and `OnlyOthersOverlap`. The invariants say that what was handed out is in `used`, and
  that k3d's own network to find a subnet exists only while it is inspected.
- `EndsForAReason`: `Spec => []CommandsEndForAReason`. `Phases` says which containers there are in each control
  state, `Accounted` that while they are created only the reserved address and those of the servers are in
  `used`: when GetIP finds none, counting these (`NothingFreeSmall`) bounds the subnet; a network that cannot be
read ends the command in a subnet of any size, but before any node runs. `Unmixed` says that as
  long as nobody has meddled no other container has a server's address, since agents start after the servers and
  the lowest address was set aside for the tools container; so a refusal needs one of the named troubles.
  `IpamAssumption` has `IsFiniteSet(Outsiders)` for it: there are finitely many containers.

`ClusterRun_proofs`, for every list of nodes, every set of option records and every set of names a peer
takes, from `ClusterRunAssumption` (names distinct, at least one node):

- `TypeCorrect`: `Spec => []TypeOK`.
- `UserNetworkIsLostEarly`: `Spec => UserNetworkLostOnlyEarly`. The invariant behind it (`NetInv`) says that the
  rollback's `external` flag is set when the network is the user's, unless no node is labelled and a registry or a
  peer's tools node is all that the rollback finds; then the network is lost (section 7).
- `ContainersInOrder`: `Spec => []CreatedInOrder`. The order is not inductive by itself: `OrderInv` adds
  that exactly the nodes before the loop index are set up, that helpers appear only after them and that
  nothing runs before the start.
- `SuccessIsComplete`: `Spec => []SuccessMeansComplete`. `CompleteInv` says, for every control state on the
  way to success, what of network, volume, registry, tools node and nodes is already in place, and from
  which state on the goroutine has been joined.
- `CleanRollbackIsComplete`: `Spec => []CleanRollbackRestores`. `RollbackInv` says that a rollback that began
  alone has all the command's containers still to delete, and that the labels it read say that the network
  is its own (`LabelsSayOwn`, which needs that a set of naturals has a least element).

`NodeReplace_proofs`, for any number of editors:

- `TypeCorrect`: `Spec => []TypeOK`.
- `ContainerSurvives`: `Spec => []NeverWithoutContainer`. `IInv` adds, for every command that is about to
  remove a container by name, which other container is still there.
- `SoloReplaces`, `SoloUndoes`: `Spec` implies `SoloReplaced` and `SoloUndo`. The invariant says, for every
  control state of an editor that has met no other, which containers exist, under which names and running,
  in terms of `before`, the runtime as the editor found it.

`LbMembership_proofs`, for any set of commands with any number of servers each, from
`LbMembershipAssumption` (a server that is added is new, a deletion is a command of its own):

- `TypeCorrect`: `Spec => []TypeOK`.
- `StableServersStayRouted`: `Spec => []StableServersRouted`. `IInv` follows the stable servers from the
  runtime through the command's struct, the slice in the hands of ClusterGet and the generated target. The
  run `lb_members` has one goroutine per command; that appends lost between goroutines of one command
  do not matter either is covered by the theorem.
- `SoloUpdateIsExact`: `Spec => SoloUpdateExact`. The invariant follows what a command alone knows: its struct,
  its slice and its generated target name the servers that exist, from the reading to the end of the wait.

`Kubeconfig_proofs`, for any set of clusters, processes and files, from `KubeconfigAssumption` (names of
clusters and of the user's entries differ; a process may work on any cluster's own file):

- `TypeCorrect`: `Spec => []TypeOK`.
- `FilesStayWhole`: `Spec => []FilesWhole`, of every file that no process has come to overwrite in place.
  `WholeInv` says it of what processes have in memory and in their temporary files too, and that the generation
  fetched is not zero.
- `ForeignEntriesKept`: `Spec => ForeignKept`. `KeptInv` says that as long as a file has the
  user's entries it exists, and that everything on its way to it has them, unless a process has come to overwrite
  it or a cluster whose own file it is has been deleted.
- `AloneIsExact`: `Spec => SoloExact`. The invariant relates, for a process that has met no other, the disk, what
  it has in memory and its temporary file to `was`, the file as it found it, in every control state.

`Goroutines_proofs` on `ImageStream`, for any number of nodes and any length of the stream (the module holds
the proofs about both programs of goroutines, which is why the definitions of `ImageStream` have names of
their own, `ImportSpec` and so on):

- `ImportTypesHold`: `ImportSpec => []ImportTypes`; `ImportIsComplete`: `ImportSpec => []SuccessMeansImported`;
  `NodesInLockstep`: `ImportSpec => []Lockstep`. Not even the types are inductive by themselves: that a node
  never gets more than the stream needs `Accounts`, which relates what it has to where the copier is.

`NodeAdd_proofs`, for every cluster to begin with, every set of names and of options and any number of
commands, from `NodeAddAssumption` (a server at least, replicas at least one, and the role server or agent: the
help of `--role` names these two, nodeCreate.go:68, but it accepts every key of NodeRoles, nodeCreate.go:112; the
theorems say nothing of a load balancer or a registry added that way):

- `TypeCorrect`: `Spec => []TypeOK`.
- `OneInit`: `Spec => []OneInitServer`; `CopiesAreRunnable`: `Spec => []CopiesRun`; `Joins`:
  `Spec => JoinsTheCluster`; `LimitNeverShrinks`: `Spec => LimitKept`, in units of a tenth of a MiB and up to ten
  gigabytes, below which HumanSize writes four digits of megabytes or gigabytes.
- The invariant `Inv` says of which kind every container is (`Sound`: it runs the command of its role, and its
  mounts are exactly those of its limit), that one container at most publishes a port (`OnePort`), that the flag
  is nowhere but on the first server, once (`FlagOnce`), what became of the nodes that were read (`Reading`), and
  that a name stands for one role as long as it is not used again (`NamesStand`). `CopyIs` says that
  a copy of a sound container is sound; it rests on lemmas about the loops over a slice that they shorten:
  what is in the slice once is cut out (`DroppedOnce`), the first element stays (`DroppedKeepsFirst`), the
  mounts of a limit go and the others stay (`MountsDropped`). These are proved by induction on the passes of the
  loop, in the form of sets of naturals (`SetInduction`, from the well-foundedness of the naturals), for the
  library's induction theorems take an operator that the provers cannot instantiate.

`ClusterConfig_proofs`, for any set of files, of sets of flags and of changes, any set of ports and any number of
edits, from `ConfigAssumption`. It gives files and flags the types that the schema and the parsers of the flags
see to: fields of their Go types, filters as the regular expression takes them apart. An ulimit has no
filters, for cmd/cluster/clusterCreate.go:517 does not split it at an @, and a port of a file is no removal.

- `ConfigTypes`: `Spec => []TypeOK`.
- `FiltersAreMigrated`: `Spec => []MigratedFiltersParse`; `AloneInHostNetwork`: `Spec => []HostNetworkAlone`.
- `PortsStayInSync`, `PublishedPortsReachNodes`: `Spec` implies always `PortsInSync` and `PortsReachNodes`.
- `OptionsReachNamedNodes`, `LabelsOfFlagsWin`: `Spec` implies always `FiltersHold` and `FlagLabelWins`.

They rest on three invariants, one for each structure that the stages hand on. `Configured` says what the
configuration is at each stage in terms of the file and the flags (`IsRead`, `IsMerged`): every option in it was
asked for, and every option that was asked for is in it, the file's before the flags', in whatever order the
flags' map was gone through. `Built` says that the cluster is what the configuration says, node by node, and
what the validation has made sure of. `PortsHold` says that the ports are in sync unless `drift`, and that
until the first edit every option is served by the nodes that its filters choose (`IsServed`). The properties speak of what a filter means (`Names`), the
invariants of what the loop over filters selects; `SelectedIsNamed` and `FilterNodesIs` say that these are the
same, and `GivenInTwo` that what a node is given are the file's options and then the flags', of which a
map keeps the last of each key. `TransformPortsIs` says of a state of the ports what the loop over options,
groups and mappings makes of it: as long as nothing is removed a node goes on serving what it serves (`Grows`), and
the nodes of each group serve all the option's mappings (`Carries`). `PublishedPortsReachNodes` leaves out filters
with the suffix `all`, which are ignored, and says nothing of the named nodes after an edit. `OptionsReachNamedNodes`
has two parts: nothing reaches a node that is not named, always; and all that is named is reached, an option without
a filter being for every node, unless the option is ambiguous (`Unambiguous`): given with a filter in one place and
without one in another, or with a filter for `all` or `loadbalancer` beside others.

The models of these loops are folds. A fold is defined by recursion on the sets of its indices; `FoldTrace`
turns one into the sequence of what it passes through, step by step, for which an induction over the naturals, in
the form of sets (`SetInduction`), can be made: `GoesThrough` is that sequence, and there is one lemma
of this kind for each fold of the models.

Model-checked only: liveness (`Terminates`, `TimeoutEnds`, `EndsUnlessSilent`, `EditEnds`, `UpdateEnds`, `ImportEnds`), which is out
of the prover's reach. Every other property of a passing run is a theorem.

## 6. Not modelled

Pure input and output (CLI parsing, listings, completion, plugins, docgen, the tools and proxy
images), generated and vendored code, Docker's own behaviour beyond what the client relies on.
`k3d node create` for a cluster elsewhere (`NodeAddToClusterRemote`), and the fixes, are sequences of
runtime calls without a state that others see. The search for images (`findImages`) and the contents of
registries.yaml, of CoreDNS and of /etc/hosts are texts. The modules of the plan without a * are left:
the deletion of clusters that share a registry, and the import of images through the tools node.

## 7. Where the code and its documents differ

Three differences are runs that expect a violation: `cluster_rollback`, `node_replace_rollback` and
`image_stream_failure` (see "findings" in `PROJECT.json`). Others were met while modelling; the models contain
them, no run states them.

Creation, start and edits:

- With `--no-image-volume` ("disable the creation of a volume for storing images", docs/usage/commands.md:25)
  every creation fails and is rolled back unless a tools node exists: EnsureToolsNode insists on an image
  volume (tools.go:420).
- A creation in an existing network that fails after RegistryCreate and before the first nodeSetup removes that
  network if nothing else is attached to it (cluster.go:782), against docs/design/networking.md:10 "Existing networks
  won't be managed by k3d together with the cluster lifecycle": that it is the user's is known only from the labels
  of nodes (cluster.go:330), and ClusterGet finds only the registry, which has none. A tools container of another
  process has the same effect. `UserNetworkLostOnlyEarly` says that these are the only ways to lose it.
- NodeDelete logs an error of the runtime and returns nil (node.go:681): the rollback reports success with
  the container still there. A creation that fails before any container exists cannot be rolled back, for
  ClusterGet finds no node (clusterCreate.go:165).
- The initializing server gets neither the files of the configuration's `server:*` filter
  (docs/usage/configfile.md:88, `ClusterStart` passes only the cluster's NodeHooks at cluster.go:962) nor the
  host aliases, although the comment at cluster.go:1055 says "in all nodes". `aliased` of
  `ClusterStart` shows the second.
- A failing preStart hook is only logged and the node is started without the file (node.go:457), and `--timeout`
  applies to the preparation, the creation and the start separately (cluster.go:100).
- Logs are followed from a time truncated to a second (node.go:474, loadbalancer.go:82): a message of the
  previous run within the same second ends the wait.

Adding nodes and the load balancer:

- `k3d node create --role server --replicas 2` may succeed with one of the servers missing in the load
  balancer: each goroutine writes the whole configuration that it generated earlier (loadbalancer.go:83).
- Adding a server to a cluster created with `--no-lb` kills the command after the server was started
  (loadbalancer.go:118); so does a failing ClusterGet (loadbalancer.go:57).
- A user who gives `--cluster-init` to the first of several servers gets it twice; a copy of that server
  keeps one, because the loop at node.go:145 goes on over a slice that it has shortened, although its
  comment says that this "should only be done by the initializing server node". `k3d node create --role server
  --k3s-arg --cluster-init` panics: the flag is found in one slice and cut from another, empty one (node.go:154).
- A memory limit grows with every copy, by 4.86 % below a gigabyte and by 7.37 % from there on, rounded to four
  digits (translate.go:282 writes powers of 1000, node.go:642 reads powers of 1024). A node whose registries.yaml could
  not be read or written passes that on; when less than 512 bytes of it can be read, node.go:179 panics.
- `k3d node create --role` says "[server, agent]" and accepts `loadbalancer` and `registry` (nodeCreate.go:112,
  types.go:58).
- A node created for a cluster elsewhere with the role server dereferences KubeAPI, which is nil
  (node.go:737).

Ports and options:

- `k3d cluster edit --port-add 8084:80@server:0` forwards the port to the newest server, because the filter is
  applied to the runtime's listing (cluster.go:1252), against docs/design/concepts.md:32. Without a filter
  every such edit is refused (cluster.go:1235), and with the suffixes `proxy` and `direct` too.
- Removing one of two bindings of a port takes its backends away (ports.go:73; hence `drift` in
  `PortsInSync`); adding backends to a list of several adds them more than once (loadbalancer.go:243).
  `k3d node edit` forwards every port to the servers only, whatever it was forwarded to before (node.go:1003).
- Node filters: `all` and `loadbalancer` end the evaluation, so that the order matters (filter.go:147); the
  suffix `all` is accepted and ignored (filter.go:86); a flag that has only escaped `@` is refused
  (cmd/util/filter.go:70); the same option given without and with a filter is applied with the filter.
- Flags are lost when an older configuration file has no field for them: `--host-pid-mode` with v1alpha2 and
  v1alpha3.
- A volume named for k3d is created while volumes are validated and stays when a later one is refused. The
  shortcut for a k3s directory is replaced where it occurs first, be it in the source (process.go:79).

Addresses:

- docs/usage/multiserver.md:19 says of `--subnet` that containers get static addresses; only servers do. With
  `--network` an explicit prefix is an error (cluster.go:302) and `auto` has no effect, nor has a prefix when a network
  of the default name exists already.
- A server added to a managed network asks for the address of the server that it is a copy of, and is not
  started while that one runs (`AddServer` in `Ipam`).
- In a subnet that is too small GetIP panics (ipam.go:60), and it dereferences a nil network when GetNetwork fails
  (ipam.go:38-41): both end the program without a rollback. The network made to find a subnet stays
  when it cannot be inspected or removed. Starting single nodes in another order, or the runtime's restart, lets
  agents take the addresses of servers.

Files:

- A deleted cluster's details can come back when another cluster is created at the same time
  (kubeconfig.go:331), against docs/usage/kubeconfig.md:44 "will always remove the details".
- Deleting a cluster whose own file KUBECONFIG names removes the file with all other entries in it
  (clusterDelete.go:99), also for a user who has followed `export KUBECONFIG=$(k3d kubeconfig write mycluster)`
  (docs/usage/kubeconfig.md:18, clusterCreate.go:200). `--overwrite` may leave a part of a file, or a mixture of two
  (kubeconfig.go:203).
- `k3d kubeconfig merge` switches the current context unless told not to (kubeconfigMerge.go:131), against
  docs/usage/kubeconfig.md:38 "None of the above options switch the current-context by default".
- `k3d image import -` returns an error also when the import succeeded (tools.go:48).
