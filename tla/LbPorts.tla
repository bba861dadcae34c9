------------------------------- MODULE LbPorts --------------------------------
(***************************************************************************)
(* Port mappings: which container publishes a port on the host, and which  *)
(* nodes the load balancer forwards it to.  The state of the ports is a    *)
(* record: published, the host ports bound to each port of the load        *)
(* balancer's container; config, the nodes its configuration file lists    *)
(* for each port; direct, the host ports bound to the ports of each node.  *)
(* An entry that the program deletes when it gets empty is <<>> here.      *)
(***************************************************************************)
EXTENDS NodeFilters

CONSTANT Ports   \* the container ports

\* A port option: its mappings [host, port], its filters, add it or remove it?
ApiPort == 6443
DefaultTargets == <<Filter("server", Every, "proxy"), Filter("agent", Every, "proxy")>>

NoBindings == [p \in Ports |-> <<>>]
Without(f, p, v) == [f EXCEPT ![p] = RemoveFirst(@, v)]
With(f, p, v) == [f EXCEPT ![p] = Append(@, v)]
Bind(f, m, removal) == IF removal THEN Without(f, m.port, m.host) ELSE With(f, m.port, m.host)
ChangePortMappings(f, maps, removal) == FoldLeft(LAMBDA g, m : Bind(g, m, removal), f, maps)

\* For each name the loop over the present list appends it once for every other name that
\* comes before it, and so adds it more than once to a list of several.
AppendPerElement(list, n) ==
  LET found == {i \in DOMAIN list : list[i] = n}
      before == IF found = {} THEN Len(list) ELSE (CHOOSE i \in found : \A j \in found : i <= j) - 1
  IN  list \o [i \in 1..before |-> n]

AppendAll(list, names) == FoldLeft(AppendPerElement, list, names)

\* Mutated form of AddPortConfig: a port that has targets already gets no others.
AddPortConfigOnce(config, port, names) ==
  IF Lb \in Range(names) THEN {}
  ELSE {[config EXCEPT ![port] = IF @ = <<>> THEN names ELSE @]}

AddPortConfig(config, port, names) ==
  IF Lb \in Range(names) THEN {}
  ELSE {[config EXCEPT ![port] = IF @ = <<>> THEN names ELSE AppendAll(@, names)]}

RemoveAll(list, names) == FoldLeft(RemoveFirst, list, names)
RemovePortConfig(config, port, names) ==
  IF config[port] # <<>> /\ Lb \in Range(names) THEN {}
  ELSE {[config EXCEPT ![port] = RemoveAll(@, names)]}

ChangeLBPortConfig(config, m, names, removal) ==
  IF removal THEN RemovePortConfig(config, m.port, names) ELSE AddPortConfig(config, m.port, names)

ChangeLBPortConfigs(config, maps, names, removal) ==
  FoldLeft(LAMBDA C, m : UNION {ChangeLBPortConfig(c, m, names, removal) : c \in C}, {config}, maps)

\* One group of nodes of an option: published by the load balancer ...
Proxied(st, p, names) ==
  {[st EXCEPT !.published = ChangePortMappings(@, p.maps, p.removal), !.config = c] :
     c \in ChangeLBPortConfigs(st.config, p.maps, names, p.removal)}

\* ... or by the node itself, which must be alone.
Direct(st, p, names) ==
  IF Len(names) > 1 THEN {}
  ELSE {[st EXCEPT !.direct[names[1]] = ChangePortMappings(@, p.maps, p.removal)]}

\* Any filter that begins with loadbalancer stands for all the nodes behind it.
TargetFilters(nodes, p) ==
  IF \/ p.filters = <<>> /\ Len(nodes) > 1
     \/ \E f \in Range(p.filters) : f.group = "loadbalancer"
  THEN DefaultTargets ELSE p.filters

ApplyGroup(hasLb, st, p, suffix, names) ==
  CASE names = <<>> \/ suffix = "all" -> {st}
    [] names # <<>> /\ suffix = "direct" -> Direct(st, p, names)
    [] names # <<>> /\ suffix \in {"proxy", NoSuffix} -> IF hasLb THEN Proxied(st, p, names) ELSE {}

\* The groups are in a map, whose order is not determined; only that of these two matters.
TransformPort(nodes, hasLb, st, p) ==
  UNION {LET apply(S, suffix) == UNION {ApplyGroup(hasLb, t, p, suffix, groups[suffix]) : t \in S}
         IN  apply(apply(apply({st}, "direct"), "proxy"), NoSuffix)
               \cup apply(apply(apply({st}, NoSuffix), "proxy"), "direct")
         : groups \in FilterNodesWithSuffix(nodes, TargetFilters(nodes, p), {"proxy", "direct"})}

TransformPorts(nodes, hasLb, st, options) ==
  FoldLeft(LAMBDA S, p : UNION {TransformPort(nodes, hasLb, t, p) : t \in S}, {st}, options)
===============================================================================
