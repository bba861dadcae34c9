--------------------------- MODULE MCClusterConfig ----------------------------
EXTENDS ClusterConfig

MCPorts == {6443, 80, 81}
F(group, subset) == Filter(group, subset, NoSuffix)
Old(f) == [f EXCEPT !.bracketed = TRUE]
To(what, filters) == [what |-> what, filters |-> filters]
Flag(what, filters) ==
  [what |-> what, filters |-> filters, ats |-> IF filters = <<>> THEN 0 ELSE 1, escaped |-> FALSE]
Label(v) == [key |-> "key", val |-> v]
Mount(src, dest) == [src |-> src, dest |-> dest]
Map(host, port) == <<[host |-> host, port |-> port]>>
Port(maps, filters) == [maps |-> maps, filters |-> filters, removal |-> FALSE]
PortFlag(maps, filters) ==
  [maps |-> maps, filters |-> filters, ats |-> IF filters = <<>> THEN 0 ELSE 1, escaped |-> FALSE]

Nothing == [k \in Kinds |-> <<>>]
With1(k, s) == [Nothing EXCEPT ![k] = s]
Default ==
  [version |-> "v1alpha5", name |-> "", network |-> "", servers |-> 1, agents |-> 0, noLb |-> FALSE,
   pid |-> FALSE, apiPort |-> Unset, options |-> Nothing, serverArgs |-> <<>>, agentArgs |-> <<>>,
   ports |-> <<>>, aliases |-> <<>>, faults |-> {}]
Several == [Default EXCEPT !.servers = 2, !.agents = 2]

MCFiles ==
  {Default,
   [Several EXCEPT !.options = [Nothing EXCEPT
       !["label"] = <<To(Label("f"), <<F("server", Every)>>), To(Label("g"), <<F("agent", These(<<1>>))>>)>>,
       !["volume"] = <<To(Mount("path", "shortcut"), <<>>)>>,
       !["env"] = <<To("e", <<F("agent", Between(Open, 0)), F("loadbalancer", None)>>)>>],
     !.ports = <<Port(Map(8080, 80), <<F("loadbalancer", None)>>)>>, !.apiPort = 6550],
   [Several EXCEPT !.version = "v1alpha2", !.serverArgs = <<"a">>, !.agentArgs = <<"b">>,
     !.options = [Nothing EXCEPT
       !["runtimeLabel"] = <<To(Label("f"), <<Old(F("server", These(<<0, 1>>)))>>)>>,
       !["env"] = <<To("e", <<Old(F("agent", Every))>>)>>],
     !.ports = <<Port(Map(8080, 80), <<Old(F("server", These(<<0>>)))>>)>>],
   [Several EXCEPT !.version = "v1alpha3", !.noLb = TRUE,
     !.options = With1("arg", <<To("a", <<F("server", Between(0, 1))>>), To("b", <<F("agent", Every), F("server", Between(1, Open))>>)>>),
     !.ports = <<Port(Map(8080, 80), <<Filter("agent", These(<<1>>), "direct")>>)>>],
   [Default EXCEPT !.version = "v1alpha4", !.servers = 3,
     !.ports = <<Port(Map(8080, 80), <<F("server", Between(0, 1))>>),
                 Port(Map(8081, 80), <<Filter("server", These(<<2>>), "proxy"), F("server", These(<<2>>))>>)>>],
   [Default EXCEPT !.network = "host", !.options = With1("volume", <<To(Mount("k3dVolume", "absolute"), <<>>)>>)],
   [Default EXCEPT !.version = "v1"]}
  \cup {[Default EXCEPT !.faults = {f}] : f \in {"schema"} \cup TransformFaults \cup ValidateFaults}

NoFlags == [plain |-> <<>>, name |-> "", apiPort |-> Unset, options |-> Nothing, ports |-> <<>>,
            aliases |-> <<>>, faults |-> {}]
Opt(k, s) == [NoFlags EXCEPT !.options = With1(k, s)]
MCFlagSets ==
  {NoFlags,
   [NoFlags EXCEPT !.name = "mine", !.plain = "network" :> "host"],
   [NoFlags EXCEPT !.plain = ("network" :> "host" @@ "agents" :> 1 @@ "noLb" :> TRUE)],
   [NoFlags EXCEPT !.plain = ("network" :> "host"), !.aliases = <<"good">>],
   [NoFlags EXCEPT !.plain = ("noLb" :> TRUE @@ "pid" :> TRUE), !.ports = <<PortFlag(Map(8082, 81), <<>>)>>],
   [NoFlags EXCEPT !.apiPort = 6551, !.aliases = <<"good">>,
     !.ports = <<PortFlag(Map(8082, 81), <<Filter("server", These(<<0>>), "all")>>),
                 PortFlag(Map(8083, 81), <<F("server", These(<<0>>))>>)>>],
   [NoFlags EXCEPT !.ports = <<PortFlag(Map(8082, 81), <<>>), PortFlag(Map(8082, 81), <<F("all", None)>>)>>],
   [NoFlags EXCEPT !.ports = <<PortFlag(Map(8082, 81), <<F("all", None)>>)>>],
   [NoFlags EXCEPT !.aliases = <<"bad">>], [NoFlags EXCEPT !.faults = {"apiPort"}],
   Opt("label", <<Flag(Label("x"), <<F("server", These(<<0>>))>>), Flag(Label("y"), <<F("server", Every)>>)>>),
   Opt("runtimeLabel", <<Flag(Label("x"), <<F("server", These(<<0>>))>>), Flag(Label("x"), <<F("agent", Every)>>)>>),
   Opt("env", <<Flag("v", <<>>), Flag("v", <<F("server", These(<<0>>))>>)>>),
   Opt("env", <<Flag("v", <<F("loadbalancer", None), F("all", None)>>)>>),
   Opt("env", <<Flag("v", <<>>)>>), Opt("env", <<Flag("v", <<Blank>>)>>),
   Opt("arg", <<Flag("v", <<F("server", Between(1, 0))>>)>>),
   Opt("env", <<Flag("v", <<Old(F("server", These(<<0>>)))>>)>>),
   [NoFlags EXCEPT !.plain = "servers" :> 0 @@ "agents" :> 1,
     !.ports = <<PortFlag(Map(8082, 81), <<F("agent", Every)>>)>>],
   Opt("arg", <<[Flag("v", <<>>) EXCEPT !.escaped = TRUE]>>),
   Opt("ulimit", <<Flag("u", <<>>), Flag("u", <<>>)>>),
   Opt("volume", <<Flag(Mount("mentionsShortcut", "shortcut"), <<F("server", These(<<0>>))>>)>>),
   Opt("volume", <<Flag(Mount("k3dVolume", "absolute"), <<F("server", These(<<0>>))>>),
                   Flag(Mount("path", "relative"), <<F("all", None)>>)>>)}

Change(host, filters, removal) == <<[maps |-> Map(host, 80), filters |-> filters, removal |-> removal]>>
MCChanges ==
  {Change(host, <<f>>, removal) :
     host \in {8080, 8084}, removal \in BOOLEAN,
     f \in {F("server", These(<<0>>)), F("agent", Every), F("loadbalancer", None)}}
  \cup {Change(8085, <<>>, FALSE), Change(8085, <<Filter("server", Every, "proxy")>>, FALSE)}
===============================================================================
