----------------------------- MODULE Ipam_proofs -----------------------------
(***************************************************************************)
(* For every number of servers, any other containers and every size of the  *)
(* subnet: the servers of a network that k3d manages ask for addresses of    *)
(* their own, have no others when they run, and no other node has them; a   *)
(* creation panics, and a server is refused its address, only for the       *)
(* reasons that are named.                                                  *)
(***************************************************************************)
EXTENDS Ipam, FiniteSetTheorems, TLAPS

\* The control states before anything is given out.
Early == {"none", "auto", "prefix", "inspectFake", "found", "overlap", "reserve"}

\* Before the reservation nothing is given out, and no container exists.
NothingEarly == cmd \in Early => made = {} /\ used = {}

\* A server without a container neither asks for an address nor has one.
NotMade == \A s \in Servers \cup Added : s \notin made => static[s] = None /\ at[s] = None

\* What is set aside and what the servers ask for is noted as used: this is
\* what keeps GetIP from giving it out again while nothing runs yet.
Noted ==
  /\ reserved # None => reserved \in used
  /\ managed = "yes" => \A s \in Servers \cap made : static[s] \in used

IInv ==
  /\ TypeOK /\ NothingEarly /\ NotMade /\ Noted
  /\ AddressesOfTheirOwn /\ ServersHaveTheirs

\* None is no address of the subnet.
LEMMA NoneOutside == ASSUME TypeOK PROVE None \notin InSubnet /\ last \in Nat
  BY IpamAssumption DEF TypeOK, InSubnet

\* The initial states satisfy the invariant.
LEMMA InitInv == Init => IInv
  <1> SUFFICES ASSUME Init PROVE IInv OBVIOUS
  <1>1. TypeOK BY IpamAssumption DEF Init, TypeOK, Free, InSubnet
  <1>2. NothingEarly /\ NotMade /\ Noted BY DEF Init, NothingEarly, NotMade, Noted, Containers
  <1>3. AddressesOfTheirOwn /\ ServersHaveTheirs BY DEF Init, AddressesOfTheirOwn, ServersHaveTheirs
  <1> QED BY <1>1, <1>2, <1>3 DEF IInv

\* A container that starts gets an address of the subnet and no other container
\* is concerned; it is the one it asks for, if it asks for one.
LEMMA StartGives ==
  ASSUME TypeOK, NEW c \in Containers, Start(c)
  PROVE  /\ at' \in [Containers -> InSubnet \cup {None}]
         /\ \A d \in Containers : d # c => at'[d] = at[d]
         /\ Wants(c) # None => at'[c] = Wants(c)
         /\ refused' = refused
  BY DEF Start, TypeOK

\* A server of the cluster with a container gets its static address when it starts.
LEMMA StartKeeps ==
  ASSUME IInv, NEW c \in Containers, Start(c),
         c \in Servers => c \in made
  PROVE  /\ managed = "yes" => \A s \in Servers : at'[s] \in {None, static[s]}
         /\ refused' \in {"yes", "no"} /\ at' \in [Containers -> InSubnet \cup {None}]
         /\ \A d \in Containers : d # c => at'[d] = at[d]
  <1> USE DEF IInv
  <1>1. CASE c \in Servers /\ managed = "yes"
    <2>1. static[c] \in InSubnet BY <1>1 DEF AddressesOfTheirOwn, Free
    <2>2. Wants(c) = static[c] /\ static[c] # None BY <2>1, <1>1, NoneOutside DEF Wants
    <2> QED BY <2>2, <1>1, StartGives DEF ServersHaveTheirs, Runs, TypeOK, Containers
  <1>2. CASE ~(c \in Servers /\ managed = "yes")
    BY <1>2, StartGives DEF ServersHaveTheirs, Runs, TypeOK, Containers
  <1> QED BY <1>1, <1>2

\* Neither a refusal nor a stop gives anything out.
LEMMA RefusedGives ==
  ASSUME TypeOK, NEW c, StartRefused(c) PROVE at' = at /\ refused' \in {"yes", "no"}
  BY DEF StartRefused, TypeOK

LEMMA StoppedGives ==
  ASSUME TypeOK, NEW S, Stopped(S)
  PROVE  /\ at' \in [Containers -> InSubnet \cup {None}]
         /\ \A d \in Containers : at'[d] \in {None, at[d]}
  BY DEF Stopped, TypeOK

\* The steps in which containers only start and stop: all that matters is that
\* no server of the cluster gets an address other than its own.
LEMMA OnlyAddresses ==
  ASSUME IInv, UNCHANGED <<net, given>>,
         cmd' = cmd \/ (cmd \notin Early /\ cmd' \in {"gather", "servers", "others", "up"}),
         refused' \in {"yes", "no"}, troubles' \subseteq {"leak", "partial", "meddled"},
         at' \in [Containers -> InSubnet \cup {None}],
         \A s \in Servers \cup Added : s \notin made => at'[s] \in {None, at[s]},
         managed = "yes" => \A s \in Servers : at'[s] \in {None, static[s]}
  PROVE  IInv'
  <1> USE DEF IInv, net, given
  <1>1. TypeOK' BY DEF TypeOK, InSubnet, Free
  <1>2. NothingEarly' BY DEF NothingEarly, Early
  <1>3. NotMade' BY DEF NotMade
  <1>4. Noted' BY DEF Noted
  <1>5. AddressesOfTheirOwn' BY DEF AddressesOfTheirOwn, Free, InSubnet
  <1>6. ServersHaveTheirs' BY DEF ServersHaveTheirs, Runs
  <1> QED BY <1>1, <1>2, <1>3, <1>4, <1>5, <1>6

\* The steps on the network: nothing is given out by them.
LEMMA OnlyNetwork ==
  ASSUME IInv, Prep, cmd' \in Early \cup {"create", "failed"}, cmd \in Early, cmd' = "reserve" \/ managed' = managed,
         managed' \in {"yes", "no"}, fake' \in Subnets \cup {None}, subnet' \in Subnets \cup {None},
         theirs' \subseteq Subnets
  PROVE  IInv'
  <1> USE DEF IInv, Prep, given
  <1>1. made = {} /\ used = {} BY DEF NothingEarly
  <1>2. TypeOK' BY DEF TypeOK, InSubnet, Free, Early
  <1>3. NothingEarly' BY <1>1 DEF NothingEarly
  <1>4. NotMade' BY DEF NotMade
  <1>5. Noted' BY <1>1 DEF Noted
  <1>6. AddressesOfTheirOwn' BY <1>1 DEF AddressesOfTheirOwn
  <1>7. ServersHaveTheirs' BY <1>1 DEF ServersHaveTheirs, NotMade, Runs
  <1> QED BY <1>2, <1>3, <1>4, <1>5, <1>6, <1>7

\* GetIP returns an address that can be used and that is not noted as used.
LEMMA GetIPFree ==
  ASSUME NEW a \in InSubnet, GetIP(a) PROVE a \in Free({}) /\ a \notin used
  BY DEF GetIP, Lowest, Free

LEMMA ReserveInv == ASSUME IInv, Reserve PROVE IInv'
  <1> USE DEF IInv, Reserve, net, given
  <1>1. made = {} /\ made' = {} BY DEF NothingEarly, Early, GetIPPanics
  <1>2. CASE GetIPPanics
    <2> USE <1>2 DEF GetIPPanics
    <2>1. TypeOK' BY DEF TypeOK, InSubnet, Free
    <2>2. NothingEarly' BY DEF NothingEarly, Early
    <2>3. NotMade' /\ Noted' BY <1>1 DEF NotMade, Noted
    <2>4. AddressesOfTheirOwn' /\ ServersHaveTheirs' BY <1>1 DEF AddressesOfTheirOwn, ServersHaveTheirs, Runs
    <2> QED BY <2>1, <2>2, <2>3, <2>4
  <1>3. CASE ~GetIPPanics
    <2>1. PICK a \in InSubnet : /\ GetIP(a) /\ reserved' = a /\ used' = used \cup {a}
                                /\ cmd' = "create" /\ UNCHANGED <<static, made>>
      BY <1>3
    <2>2. TypeOK' BY <2>1, GetIPFree DEF TypeOK, InSubnet, Free
    <2>3. NothingEarly' BY <2>1 DEF NothingEarly, Early
    <2>4. NotMade' BY <2>1 DEF NotMade
    <2>5. Noted' BY <2>1, <1>1 DEF Noted
    <2>6. AddressesOfTheirOwn' BY <1>1 DEF AddressesOfTheirOwn
    <2>7. ServersHaveTheirs' BY <2>1 DEF ServersHaveTheirs, Runs
    <2> QED BY <2>2, <2>3, <2>4, <2>5, <2>6, <2>7
  <1> QED BY <1>2, <1>3

LEMMA NodeSetupInv == ASSUME IInv, NEW s \in Servers, NodeSetup(s) PROVE IInv'
  <1> USE DEF IInv, NodeSetup, net, given
  <1>0. at[s] = None /\ cmd = "create" /\ s \notin made BY DEF NotMade
  <1>1. CASE GetIPPanics
    <2> USE <1>1 DEF GetIPPanics
    <2>1. TypeOK' BY DEF TypeOK, InSubnet, Free
    <2>2. NothingEarly' BY DEF NothingEarly, Early
    <2>3. NotMade' /\ Noted' BY DEF NotMade, Noted
    <2>4. AddressesOfTheirOwn' BY DEF AddressesOfTheirOwn, Free, InSubnet
    <2>5. ServersHaveTheirs' BY DEF ServersHaveTheirs, Runs
    <2> QED BY <2>1, <2>2, <2>3, <2>4, <2>5
  <1>2. CASE managed = "no" /\ ~GetIPPanics
    <2>0. made' = made \cup {s} /\ UNCHANGED <<used, reserved, static, cmd>> BY <1>2
    <2>1. TypeOK' BY <2>0 DEF TypeOK, InSubnet, Free
    <2>2. NothingEarly' /\ NotMade' /\ Noted' BY <2>0, <1>0, <1>2 DEF NothingEarly, Early, NotMade, Noted
    <2>3. AddressesOfTheirOwn' /\ ServersHaveTheirs' BY <2>0, <1>2 DEF AddressesOfTheirOwn, ServersHaveTheirs
    <2> QED BY <2>1, <2>2, <2>3
  <1>3. CASE managed = "yes" /\ ~GetIPPanics
    <2>1. PICK a \in InSubnet : /\ GetIP(a) /\ used' = used \cup {a}
                                /\ static' = [static EXCEPT ![s] = a] /\ made' = made \cup {s}
                                /\ UNCHANGED <<reserved, cmd>>
      BY <1>3
    <2>2. a \in Free({}) /\ a \notin used BY <2>1, GetIPFree
    <2>3. static'[s] = a /\ \A t \in Servers \cup Added : t # s => static'[t] = static[t]
      BY <2>1 DEF TypeOK
    <2>4. TypeOK' BY <2>1, <2>2 DEF TypeOK, InSubnet, Free
    <2>5. NothingEarly' BY <2>1, <1>0 DEF NothingEarly, Early
    <2>6. NotMade' BY <2>1, <2>3 DEF NotMade
    <2>7. Noted' BY <2>1, <2>3 DEF Noted
    <2>8. AddressesOfTheirOwn'
      <3>1. a # reserved BY <2>2, NoneOutside, <2>1 DEF Noted
      <3>2. static'[s] \in Free({reserved})' BY <3>1, <2>1, <2>2, <2>3 DEF Free, InSubnet
      <3>3. ASSUME NEW t \in Servers \cap made PROVE static'[t] \in Free({reserved})' /\ static'[t] # a
        BY <3>3, <1>3, <1>0, <2>1, <2>2, <2>3 DEF AddressesOfTheirOwn, Noted, Free, InSubnet
      <3>4. ASSUME NEW t \in Servers \cap made, NEW u \in Servers \cap made, static'[t] = static'[u] PROVE t = u
        BY <3>4, <1>3, <1>0, <2>3 DEF AddressesOfTheirOwn
      <3>5. \A t \in Servers \cap made' : static'[t] \in Free({reserved})' BY <2>1, <3>2, <3>3
      <3>6. ASSUME NEW t \in Servers \cap made', NEW u \in Servers \cap made', static'[t] = static'[u] PROVE t = u
        <4>1. CASE t = s BY <2>1, <2>3, <3>3, <3>6, <4>1
        <4>2. CASE u = s BY <2>1, <2>3, <3>3, <3>6, <4>2
        <4>3. CASE t # s /\ u # s
          <5>1. t \in Servers \cap made /\ u \in Servers \cap made BY <2>1, <4>3
          <5> QED BY <3>4, <3>6, <5>1
        <4> QED BY <4>1, <4>2, <4>3
      <3> QED BY <3>5, <3>6 DEF AddressesOfTheirOwn
    <2>9. ServersHaveTheirs' BY <1>0, <2>3 DEF ServersHaveTheirs, Runs
    <2> QED BY <2>4, <2>5, <2>6, <2>7, <2>8, <2>9
  <1> QED BY <1>1, <1>2, <1>3 DEF TypeOK

LEMMA AddServerInv == ASSUME IInv, NEW n \in Added, AddServer(n) PROVE IInv'
  <1> USE DEF IInv, AddServer, net
  <1>0. n \notin Servers /\ n \in Containers BY IpamAssumption DEF Containers
  <1>1. made' = made \cup {n} /\ cmd' = "up" /\ cmd = "up" /\ UNCHANGED <<used, reserved, managed, last, fake, subnet, theirs>>
        /\ troubles' = {"meddled"}
    OBVIOUS
  <1>2. static' \in [Servers \cup Added -> InSubnet \cup {None}]
        /\ \A s \in Servers \cup Added : s # n => static'[s] = static[s]
    BY DEF TypeOK, Containers
  <1>3. at' \in [Containers -> InSubnet \cup {None}] /\ refused' \in {"yes", "no"}
        /\ \A d \in Containers : d # n => at'[d] = at[d]
    <2>1. CASE Start(n) BY <2>1, <1>0, StartGives DEF TypeOK
    <2>2. CASE StartRefused(n) BY <2>2, RefusedGives DEF TypeOK
    <2>3. CASE refused' = "yes" /\ UNCHANGED at BY <2>3 DEF TypeOK
    <2> QED BY <2>1, <2>2, <2>3
  <1>4. TypeOK' BY <1>1, <1>2, <1>3 DEF TypeOK, InSubnet, Free
  <1>5. NothingEarly' BY <1>1 DEF NothingEarly, Early
  <1>6. NotMade' BY <1>1, <1>2, <1>3 DEF NotMade, Containers
  <1>7. Servers \cap made' = Servers \cap made BY <1>0, <1>1
  <1>8. Noted' BY <1>0, <1>1, <1>2, <1>7 DEF Noted
  <1>9. AddressesOfTheirOwn' BY <1>0, <1>1, <1>2, <1>7 DEF AddressesOfTheirOwn, Free, InSubnet
  <1>10. ServersHaveTheirs' BY <1>0, <1>1, <1>2, <1>3 DEF ServersHaveTheirs, Runs, Containers
  <1> QED BY <1>4, <1>5, <1>6, <1>8, <1>9, <1>10

\* Every step keeps the invariant.
LEMMA NextInv == IInv /\ [Next]_vars => IInv'
  <1> SUFFICES ASSUME IInv, [Next]_vars PROVE IInv' OBVIOUS
  <1> USE DEF IInv, Goto
  <1>t. troubles \subseteq {"leak", "partial", "meddled"} /\ refused \in {"yes", "no"}
        /\ at \in [Containers -> InSubnet \cup {None}] /\ Trouble("leak") \subseteq {"leak", "partial", "meddled"}
        /\ Trouble("partial") \subseteq {"leak", "partial", "meddled"}
    BY DEF TypeOK, Trouble
  <1>k. managed = "yes" => \A s \in Servers : at[s] \in {None, static[s]} BY DEF ServersHaveTheirs, Runs
  <1>c. /\ Tools \in Containers /\ Tools \notin Servers
        /\ Others \subseteq Containers /\ Outsiders \subseteq Containers /\ made \subseteq Containers
        /\ Others \cap Servers = {} /\ Outsiders \cap Servers = {}
        /\ Tools \notin Servers \cup Added /\ (Others \cup Outsiders) \cap (Servers \cup Added) = {}
    BY IpamAssumption DEF Containers, TypeOK
  <1>1. CASE UseExisting \/ PrefixOfNamed
    BY <1>1, OnlyNetwork DEF UseExisting, PrefixOfNamed, HasNetwork, Early, Prep, TypeOK
  <1>2. CASE CreateUnmanaged BY <1>2, OnlyNetwork DEF CreateUnmanaged, HasNetwork, Early, Prep, TypeOK
  <1>3. CASE CreateFake BY <1>3, OnlyNetwork DEF CreateFake, Early, Prep, TypeOK
  <1>4. CASE DeleteFake BY <1>4, OnlyNetwork DEF DeleteFake, Early, Prep, TypeOK
  <1>5. CASE CreateNetwork BY <1>5, OnlyNetwork DEF CreateNetwork, HasNetwork, Early, Prep, TypeOK
  <1>6. CASE OthersNetworks
    <2>1. Prep BY <1>6 DEF OthersNetworks, Prep
    <2> QED BY <1>6, <2>1, OnlyNetwork DEF OthersNetworks, Early, TypeOK
  <1>7. CASE Reserve BY <1>7, ReserveInv
  <1>8. CASE EndCreate BY <1>8, <1>t, <1>k, OnlyAddresses DEF EndCreate, Early
  <1>9. CASE EnsureToolsNode
    <2>1. Start(Tools) BY <1>9 DEF EnsureToolsNode
    <2>2. \A s \in Servers \cup Added : at'[s] = at[s] BY <2>1, <1>c, StartGives DEF Containers
    <2> QED BY <1>9, <2>1, <2>2, <1>t, <1>k, <1>c, StartKeeps, OnlyAddresses DEF EnsureToolsNode
  <1>10. CASE GatherEnvironmentInfo
    <2>1. CASE Start(Tools) /\ cmd' = "gather" /\ cmd = "gather" /\ UNCHANGED troubles
      <3>1. \A s \in Servers \cup Added : at'[s] = at[s] BY <2>1, <1>c, StartGives DEF Containers
      <3> QED BY <1>10, <2>1, <3>1, <1>t, <1>k, <1>c, StartKeeps, OnlyAddresses DEF GatherEnvironmentInfo
    <2>2. CASE StartRefused(Tools) /\ cmd' = "up" /\ cmd = "gather" /\ UNCHANGED troubles
      BY <1>10, <2>2, <1>t, <1>k, RefusedGives, OnlyAddresses DEF GatherEnvironmentInfo, Early
    <2>3. CASE cmd = "gather" /\ cmd' = "servers" /\ Stopped({Tools}) /\ UNCHANGED <<troubles, refused>>
      BY <1>10, <2>3, <1>t, <1>k, StoppedGives, OnlyAddresses DEF GatherEnvironmentInfo, Early, Containers
    <2>4. CASE cmd = "gather" /\ cmd' = "servers" /\ UNCHANGED at /\ UNCHANGED refused /\ troubles' = Trouble("leak")
      BY <1>10, <2>4, <1>t, <1>k, OnlyAddresses DEF GatherEnvironmentInfo, Early
    <2> QED BY <1>10, <2>1, <2>2, <2>3, <2>4 DEF GatherEnvironmentInfo
  <1>11. CASE ClusterStart
    <2> UNCHANGED <<net, given>> /\ UNCHANGED troubles BY <1>11 DEF ClusterStart
    <2>1. ASSUME NEW c \in made \cup Others, Start(c), cmd' = cmd PROVE IInv'
      <3>1. \A s \in Servers \cup Added : s \notin made => at'[s] = at[s]
        BY <2>1, <1>c, StartGives DEF Containers
      <3> QED BY <2>1, <3>1, <1>t, <1>k, <1>c, StartKeeps, OnlyAddresses
    <2>2. ASSUME NEW c, StartRefused(c), cmd \notin Early, cmd' = "up" PROVE IInv'
      BY <2>2, <1>t, <1>k, RefusedGives, OnlyAddresses
    <2>3. CASE cmd \notin Early /\ cmd' \in {"others", "up"} /\ UNCHANGED <<at, refused>>
      BY <2>3, <1>t, <1>k, OnlyAddresses
    <2> QED BY <1>11, <2>1, <2>2, <2>3 DEF ClusterStart, Early
  <1>12. ASSUME NEW s \in Servers, NodeSetup(s) PROVE IInv' BY <1>12, NodeSetupInv
  <1>13. CASE StartCommand BY <1>13, <1>t, <1>k, OnlyAddresses DEF StartCommand, Early
  <1>14. CASE ClusterStop
    <2>1. PICK S \in SUBSET (made \cup Others \cup {Tools}) : Stopped(S) BY <1>14 DEF ClusterStop
    <2>2. troubles' \subseteq {"leak", "partial", "meddled"} BY <1>14, <1>t DEF ClusterStop
    <2> QED BY <1>14, <2>1, <2>2, <1>t, <1>k, StoppedGives, OnlyAddresses DEF ClusterStop, Containers
  <1>15. CASE SingleNode
    <2> /\ UNCHANGED <<net, given>> /\ troubles' \subseteq {"leak", "partial", "meddled"} /\ cmd' = cmd
      BY <1>15, <1>t DEF SingleNode
    <2>1. ASSUME NEW c \in made \cup Others, Start(c) PROVE IInv'
      <3>1. \A s \in Servers \cup Added : s \notin made => at'[s] = at[s]
        BY <2>1, <1>c, StartGives DEF Containers
      <3> QED BY <2>1, <3>1, <1>t, <1>k, <1>c, StartKeeps, OnlyAddresses
    <2>2. ASSUME NEW c, StartRefused(c) PROVE IInv' BY <2>2, <1>t, <1>k, RefusedGives, OnlyAddresses
    <2>3. ASSUME NEW S, Stopped(S), UNCHANGED refused PROVE IInv'
      BY <2>3, <1>t, <1>k, StoppedGives, OnlyAddresses DEF Containers
    <2> QED BY <1>15, <2>1, <2>2, <2>3 DEF SingleNode
  <1>16. CASE Outside
    <2> /\ UNCHANGED <<net, given>> /\ troubles' \subseteq {"leak", "partial", "meddled"} /\ cmd' = cmd
      BY <1>16, <1>t DEF Outside
    <2>1. ASSUME NEW o \in Outsiders, Start(o) PROVE IInv'
      <3>1. \A s \in Servers \cup Added : at'[s] = at[s] BY <2>1, <1>c, StartGives DEF Containers
      <3> QED BY <2>1, <3>1, <1>t, <1>k, <1>c, StartKeeps, OnlyAddresses
    <2>2. ASSUME NEW S, Stopped(S), UNCHANGED refused PROVE IInv'
      BY <2>2, <1>t, <1>k, StoppedGives, OnlyAddresses DEF Containers
    <2> QED BY <1>16, <2>1, <2>2 DEF Outside
  <1>17. ASSUME NEW n \in Added, AddServer(n) PROVE IInv' BY <1>17, AddServerInv
  <1>18. CASE UNCHANGED vars BY <1>18, <1>t, <1>k, OnlyAddresses DEF vars, net, given
  <1> QED BY <1>1, <1>2, <1>3, <1>4, <1>5, <1>6, <1>7, <1>8, <1>9, <1>10, <1>11, <1>12, <1>13,
             <1>14, <1>15, <1>16, <1>17, <1>18 DEF Next

\* Every reachable state satisfies the invariant of this proof, types included.
THEOREM SpecInv == Spec => []IInv
  BY InitInv, NextInv, PTL DEF Spec

\* TypeOK for every cluster: all addresses that are handed out lie in the
\* subnet, and none that is noted is one of the three that cannot be used.
THEOREM TypeCorrect == Spec => []TypeOK
  <1>1. IInv => TypeOK BY DEF IInv
  <1> QED BY <1>1, SpecInv, PTL

\* GetIP with IPsUsed of the struct: servers whose containers do not run yet ask
\* for different addresses, none of them reserved, however many there are.
THEOREM OwnAddresses == Spec => []AddressesOfTheirOwn
  <1>1. IInv => AddressesOfTheirOwn BY DEF IInv
  <1> QED BY <1>1, SpecInv, PTL
-----------------------------------------------------------------------------
\* k3d has no network of its own while it asks for the cluster's network, and
\* asks with a prefix.
OwnGone ==
  /\ OnlyOthersOverlap
  /\ cmd \in {"none", "auto", "prefix", "found"} => fake = None
  /\ cmd = "inspectFake" => fake \in Subnets
  /\ cmd \in {"prefix", "found"} => subnet \in Subnets

LEMMA OwnGoneInit == Init => OwnGone
  BY DEF Init, OwnGone, OnlyOthersOverlap

LEMMA OwnGoneNext == OwnGone /\ [Next]_vars => OwnGone'
  <1> SUFFICES ASSUME OwnGone, [Next]_vars PROVE OwnGone' OBVIOUS
  <1> USE DEF OwnGone, OnlyOthersOverlap, Goto
  <1>1. CASE UseExisting \/ PrefixOfNamed BY <1>1 DEF UseExisting, PrefixOfNamed, HasNetwork
  <1>2. CASE CreateUnmanaged BY <1>2 DEF CreateUnmanaged, HasNetwork
  <1>3. CASE CreateFake BY <1>3 DEF CreateFake
  <1>4. CASE DeleteFake BY <1>4 DEF DeleteFake
  <1>5. CASE CreateNetwork BY <1>5, IpamAssumption DEF CreateNetwork, HasNetwork
  <1>6. CASE OthersNetworks BY <1>6 DEF OthersNetworks
  <1>7. CASE Reserve BY <1>7 DEF Reserve, GetIPPanics, net
  <1>8. CASE EndCreate BY <1>8 DEF EndCreate, net
  <1>9. CASE EnsureToolsNode BY <1>9 DEF EnsureToolsNode, net
  <1>10. CASE GatherEnvironmentInfo BY <1>10 DEF GatherEnvironmentInfo, net
  <1>11. CASE ClusterStart BY <1>11 DEF ClusterStart, net
  <1>12. ASSUME NEW s \in Servers, NodeSetup(s) PROVE OwnGone' BY <1>12 DEF NodeSetup, GetIPPanics, net
  <1>13. CASE StartCommand BY <1>13 DEF StartCommand, net
  <1>14. CASE ClusterStop BY <1>14 DEF ClusterStop, net
  <1>15. CASE SingleNode BY <1>15 DEF SingleNode, net
  <1>16. CASE Outside BY <1>16 DEF Outside, net
  <1>17. ASSUME NEW n \in Added, AddServer(n) PROVE OwnGone' BY <1>17 DEF AddServer, net
  <1>18. CASE UNCHANGED vars BY <1>18 DEF vars, net
  <1> QED BY <1>1, <1>2, <1>3, <1>4, <1>5, <1>6, <1>7, <1>8, <1>9, <1>10, <1>11, <1>12, <1>13,
             <1>14, <1>15, <1>16, <1>17, <1>18 DEF Next

\* getFreeSubnetPrefix removes its network before the subnet is used: the network
\* is refused only when others have taken the subnet, whatever they do meanwhile.
THEOREM OverlapByOthers == Spec => []OnlyOthersOverlap
  <1>1. OwnGone => OnlyOthersOverlap BY DEF OwnGone
  <1> QED BY <1>1, OwnGoneInit, OwnGoneNext, PTL DEF Spec
-----------------------------------------------------------------------------
\* The control states in which the nodes are there and may run.
Complete == {"gather", "servers", "others", "up"}

\* What the control state says of the containers and of the servers' addresses.
Phases ==
  /\ cmd \in Early \cup {"create"} =>
       made \subseteq Servers /\ \A c \in Servers \cup Added \cup Others : ~Runs(c)
  /\ cmd \in Early => ~Runs(Tools)
  /\ cmd \in Complete => Servers \subseteq made
  /\ cmd = "others" => \A s \in made : Runs(s)
  /\ cmd \in Early \ {"reserve"} => managed = "no"
  /\ cmd = "reserve" => managed = "yes"
  /\ managed = "no" => \A s \in Servers \cup Added : static[s] = None

\* While containers are created, only the reserved address and theirs are noted as used.
Accounted == cmd = "create" => used \subseteq {reserved} \cup {static[s] : s \in Servers \cap made}

\* As long as nobody has meddled: only nodes of the cluster run, and the tools container, left
\* behind or not; no node that may have any address has a server's; and unless a cluster was
\* stopped in part, neither has the tools container, since the lowest address was set aside.
Unmixed ==
  "meddled" \notin troubles =>
    /\ made \subseteq Servers /\ \A c \in Added \cup Outsiders : ~Runs(c)
    /\ "leak" \notin troubles /\ cmd \in {"servers", "others", "up"} => ~Runs(Tools)
    /\ managed = "yes" =>
         /\ cmd \in {"create"} \cup Complete => Lowest(reserved, {})
         /\ \A o \in Others, s \in Servers : Runs(o) => at[o] # static[s]
         /\ "partial" \notin troubles =>
              /\ Runs(Tools) => \A s \in Servers : at[Tools] # static[s]
              /\ (\E o \in Others : Runs(o)) => \A s \in Servers : Runs(s)

\* A container that starts runs, and takes an address that no other one has; without a static
\* address it is the lowest one that is free.
LEMMA StartTakes ==
  ASSUME TypeOK, NEW c \in Containers, Start(c)
  PROVE  /\ at[c] = None /\ at'[c] \in InSubnet /\ at'[c] # None /\ at'[c] \notin Held
         /\ Wants(c) = None => Lowest(at'[c], Held)
         /\ \A d \in Containers : d # c => at'[d] = at[d]
  <1>1. PICK a \in InSubnet : /\ IF Wants(c) # None THEN a = Wants(c) /\ a \notin Held ELSE Lowest(a, Held)
                              /\ at' = [at EXCEPT ![c] = a]
    BY DEF Start
  <1>2. a # None BY NoneOutside
  <1>3. at'[c] = a /\ \A d \in Containers : d # c => at'[d] = at[d] BY <1>1 DEF TypeOK
  <1>4. a \notin Held BY <1>1 DEF Lowest, Free
  <1> QED BY <1>1, <1>2, <1>3, <1>4 DEF Start, Runs

\* An address that some container has is held.
LEMMA HeldBy == ASSUME NEW a, a # None PROVE a \in Held <=> \E c \in Containers : at[c] = a
  BY DEF Held

\* The kinds of container are apart from one another.
LEMMA Kinds ==
  /\ Tools \in Containers /\ Tools \notin Servers \cup Added \cup Others \cup Outsiders
  /\ Servers \subseteq Containers /\ Added \subseteq Containers
  /\ Others \subseteq Containers /\ Outsiders \subseteq Containers
  /\ Others \cap (Servers \cup Added) = {} /\ Outsiders \cap (Servers \cup Added \cup Others) = {}
  /\ Servers \cap Added = {}
  BY IpamAssumption DEF Containers

LEMMA PhasesInit == Init => Phases /\ Accounted /\ Unmixed /\ RefusedForAReason
  BY DEF Init, Phases, Accounted, Unmixed, RefusedForAReason, Early, Complete, Runs, Containers

\* The steps on the network: no container runs, and none is there.
LEMMA PhasesNetwork ==
  ASSUME IInv, Phases, Prep, cmd \in Early \ {"reserve"}, cmd' \in Early \cup {"create", "failed"},
         IF cmd' = "reserve" THEN managed' = "yes" ELSE managed' = managed
  PROVE  (Phases /\ Accounted)'
  <1> USE DEF Prep, given
  <1>1. made = {} /\ used = {} /\ managed = "no" BY DEF IInv, NothingEarly, Phases
  <1>2. \A s \in Servers \cup Added : static[s] = None BY <1>1 DEF Phases
  <1>3. Phases' BY <1>1, <1>2 DEF Phases, Complete, Early, Runs
  <1>4. Accounted' BY <1>1 DEF Accounted
  <1> QED BY <1>3, <1>4

\* The steps in which containers start and stop.
LEMMA PhasesRuns ==
  ASSUME IInv, Phases, Accounted, UNCHANGED <<net, given>>,
         cmd' = cmd \/ (cmd \in {"create"} \cup Complete /\ cmd' \in Complete),
         cmd' \in Complete => Servers \subseteq made,
         cmd \in Early \cup {"create"} => \A c \in Servers \cup Added \cup Others : at'[c] = at[c],
         cmd \in Early => at'[Tools] = at[Tools],
         cmd' = "others" => \A s \in made : at'[s] # None
  PROVE  (Phases /\ Accounted)'
  <1> USE DEF net, given
  <1>1. Phases'
    <2>1. cmd' \in Early \cup {"create"} => cmd' = cmd BY DEF Early, Complete
    <2> QED BY <2>1 DEF Phases, Early, Complete, Runs
  <1>2. Accounted' BY DEF Accounted, Complete
  <1> QED BY <1>1, <1>2

LEMMA PhasesReserve == ASSUME IInv, Phases, Reserve PROVE (Phases /\ Accounted)'
  <1> USE DEF Reserve, net, given
  <1>1. made = {} /\ used = {} /\ cmd = "reserve" BY DEF IInv, NothingEarly, Early
  <1>2. cmd' \in {"create", "panic", "nilNetwork"} /\ made' = made /\ static' = static /\ UNCHANGED <<net, at>>
    BY DEF GetIPPanics
  <1>3. cmd' = "create" => used' = {reserved'} BY <1>1 DEF GetIPPanics
  <1>4. Phases' BY <1>1, <1>2 DEF Phases, Early, Complete, Runs
  <1>5. Accounted' BY <1>3 DEF Accounted
  <1> QED BY <1>4, <1>5

LEMMA PhasesSetup == ASSUME IInv, Phases, Accounted, NEW s \in Servers, NodeSetup(s) PROVE (Phases /\ Accounted)'
  <1> USE DEF NodeSetup, net, given
  <1>1. cmd = "create" /\ s \notin made /\ UNCHANGED <<net, at>> OBVIOUS
  <1>2. CASE GetIPPanics
    BY <1>1, <1>2 DEF GetIPPanics, Phases, Accounted, Early, Complete, Runs
  <1>3. CASE ~GetIPPanics /\ managed = "no"
    <2>1. made' = made \cup {s} /\ UNCHANGED <<used, reserved, static, cmd>> BY <1>3
    <2>2. Phases' BY <1>1, <2>1 DEF Phases, Early, Complete, Runs
    <2>3. Accounted' BY <1>1, <2>1 DEF Accounted
    <2> QED BY <2>2, <2>3
  <1>4. CASE ~GetIPPanics /\ managed = "yes"
    <2>1. PICK a \in InSubnet : /\ used' = used \cup {a} /\ static' = [static EXCEPT ![s] = a]
                                /\ made' = made \cup {s} /\ UNCHANGED <<reserved, cmd>>
      BY <1>4
    <2>2. static'[s] = a /\ \A t \in Servers : t # s => static'[t] = static[t]
      BY <2>1 DEF IInv, TypeOK
    <2>3. Phases' BY <1>1, <1>4, <2>1 DEF Phases, Early, Complete, Runs
    <2>4. Accounted'
      <3>1. ASSUME NEW b \in used' PROVE b \in {reserved} \cup {static'[t] : t \in Servers \cap made'}
        <4>1. CASE b = a BY <2>1, <2>2, <4>1
        <4>2. CASE b \in used
          <5>1. CASE b = reserved BY <5>1
          <5>2. CASE b # reserved
            <6>1. PICK t \in Servers \cap made : b = static[t] BY <1>1, <4>2, <5>2 DEF Accounted
            <6>2. t # s BY <1>1, <6>1
            <6>3. b = static'[t] /\ t \in Servers \cap made' BY <2>1, <2>2, <6>1, <6>2
            <6> QED BY <6>3
          <5> QED BY <5>1, <5>2
        <4> QED BY <2>1, <3>1, <4>1, <4>2
      <3> QED BY <2>1, <3>1 DEF Accounted
    <2> QED BY <2>3, <2>4
  <1> QED BY <1>2, <1>3, <1>4 DEF IInv, TypeOK

\* Every step keeps what the control states say.
LEMMA PhasesNext == IInv /\ Phases /\ Accounted /\ [Next]_vars => (Phases /\ Accounted)'
  <1> SUFFICES ASSUME IInv, Phases, Accounted, [Next]_vars PROVE (Phases /\ Accounted)' OBVIOUS
  <1> USE DEF Goto
  <1>t. TypeOK BY DEF IInv
  <1>s. /\ cmd \in Complete => Servers \subseteq made
        /\ made \subseteq Containers /\ \A c \in Others : c \notin made
    BY <1>t, Kinds DEF Phases, TypeOK
  <1>1. CASE UseExisting \/ PrefixOfNamed \/ CreateUnmanaged
    BY <1>1, PhasesNetwork DEF UseExisting, PrefixOfNamed, CreateUnmanaged, Early
  <1>2. CASE CreateFake \/ DeleteFake BY <1>2, PhasesNetwork DEF CreateFake, DeleteFake, Early
  <1>3. CASE CreateNetwork BY <1>3, PhasesNetwork DEF CreateNetwork, Early
  <1>4. CASE OthersNetworks
    <2>1. Prep /\ UNCHANGED managed /\ cmd' = cmd /\ cmd \in Early \ {"reserve"} BY <1>4 DEF OthersNetworks, Prep, Early
    <2> QED BY <2>1, PhasesNetwork
  <1>5. CASE Reserve BY <1>5, PhasesReserve
  <1>6. CASE EndCreate BY <1>6, PhasesRuns DEF EndCreate, Complete, Early
  <1>7. CASE EnsureToolsNode
    <2>1. \A c \in Servers \cup Added \cup Others : at'[c] = at[c]
      BY <1>7, <1>t, StartGives, Kinds DEF EnsureToolsNode
    <2> QED BY <1>7, <2>1, PhasesRuns DEF EnsureToolsNode, Complete, Early
  <1>8. CASE GatherEnvironmentInfo
    <2>1. cmd = "gather" /\ cmd' \in {"gather", "up", "servers"} /\ UNCHANGED <<net, given>>
      BY <1>8 DEF GatherEnvironmentInfo
    <2> QED BY <2>1, <1>s, PhasesRuns DEF Complete, Early
  <1>9. CASE ClusterStart
    <2>1. cmd \in {"servers", "others"} /\ cmd' \in {"servers", "others", "up"} /\ UNCHANGED <<net, given>>
      BY <1>9 DEF ClusterStart
    <2>2. ASSUME cmd' = "others", NEW s \in made PROVE at'[s] # None
      <3>1. CASE cmd = "servers"
        <4>1. (\A t \in made : Runs(t)) /\ UNCHANGED at BY <1>9, <2>2, <3>1 DEF ClusterStart
        <4> QED BY <4>1 DEF Runs
      <3>2. CASE cmd = "others"
        <4>1. at[s] # None BY <3>2 DEF Phases, Runs
        <4>2. (\E o \in Others : Start(o)) \/ UNCHANGED at
          BY <1>9, <2>2, <3>2 DEF ClusterStart
        <4>3. at'[s] = at[s] BY <4>2, <1>s, <1>t, StartGives, Kinds
        <4> QED BY <4>1, <4>3
      <3> QED BY <2>1, <3>1, <3>2
    <2> QED BY <2>1, <2>2, <1>s, PhasesRuns DEF Complete, Early
  <1>10. ASSUME NEW s \in Servers, NodeSetup(s) PROVE (Phases /\ Accounted)' BY <1>10, PhasesSetup
  <1>11. CASE StartCommand BY <1>11, <1>s, PhasesRuns DEF StartCommand, Complete, Early
  <1>12. CASE ClusterStop BY <1>12, <1>s, PhasesRuns DEF ClusterStop, Complete, Early
  <1>13. CASE SingleNode BY <1>13, <1>s, PhasesRuns DEF SingleNode, Complete, Early
  <1>14. CASE Outside
    <2>1. \A c \in Containers \ Outsiders : at'[c] = at[c]
      <3>1. PICK o \in Outsiders : Start(o) \/ Stopped({o}) BY <1>14 DEF Outside
      <3>2. CASE Start(o) BY <1>t, <3>2, StartGives, Kinds
      <3>3. CASE Stopped({o}) BY <1>t, <3>3 DEF Stopped
      <3> QED BY <3>1, <3>2, <3>3
    <2>2. cmd = "others" => \A s \in made : at[s] # None BY DEF Phases, Runs
    <2>3. \A c \in Servers \cup Added \cup Others \cup {Tools} : at'[c] = at[c] BY <2>1, Kinds
    <2>4. \A s \in made : at'[s] = at[s] BY <2>3, <1>t DEF TypeOK
    <2> QED BY <1>14, <1>s, <2>2, <2>3, <2>4, PhasesRuns DEF Outside
  <1>15. ASSUME NEW n \in Added, AddServer(n) PROVE (Phases /\ Accounted)'
    <2>1. cmd = "up" /\ cmd' = "up" /\ made' = made \cup {n} /\ UNCHANGED net BY <1>15 DEF AddServer
    <2>2. static' = static \/ (\E s \in Servers : static[s] # None) BY <1>15 DEF AddServer
    <2>3. managed = "no" => static' = static BY <2>2 DEF Phases
    <2> QED BY <2>1, <2>3, <1>s DEF Phases, Accounted, Complete, Early, net
  <1>16. CASE UNCHANGED vars BY <1>16 DEF vars, net, given, Phases, Accounted, Runs
  <1> QED BY <1>1, <1>2, <1>3, <1>4, <1>5, <1>6, <1>7, <1>8, <1>9, <1>10, <1>11, <1>12, <1>13,
             <1>14, <1>15, <1>16 DEF Next

\* The steps before any container runs.
LEMMA UnmixedNetwork ==
  ASSUME IInv, Phases, Unmixed, Prep, cmd \in Early \ {"reserve"}, cmd' \in Early \cup {"create", "failed"},
         managed' = managed \/ cmd' = "reserve"
  PROVE  Unmixed'
  <1> USE DEF Prep, given
  <1>1. made = {} /\ managed = "no" BY DEF IInv, NothingEarly, Phases
  <1>2. ~Runs(Tools) /\ \A c \in Servers \cup Added \cup Others : ~Runs(c) BY DEF Phases
  <1>3. cmd' \in {"create"} \cup Complete => managed' = "no" BY <1>1 DEF Complete, Early
  <1> QED BY <1>1, <1>2, <1>3 DEF Unmixed, Complete, Early, Runs

LEMMA UnmixedReserve == ASSUME IInv, Phases, Unmixed, Reserve PROVE Unmixed'
  <1> USE DEF Reserve, net, given
  <1>1. made = {} /\ used = {} /\ cmd = "reserve" BY DEF IInv, NothingEarly, Early
  <1>2. ~Runs(Tools) /\ \A c \in Servers \cup Added \cup Others : ~Runs(c) BY <1>1 DEF Phases, Early
  <1>3. SUFFICES ASSUME "meddled" \notin troubles PROVE Unmixed' BY DEF Unmixed
  <1>4. \A c \in Containers : at[c] = None BY <1>2, <1>3 DEF Unmixed, Runs, Containers
  <1>5. Held = {} BY <1>4 DEF Held
  <1>6. cmd' = "create" => Lowest(reserved', {}) BY <1>1, <1>5 DEF GetIPPanics, GetIP
  <1>7. cmd' \in {"create", "panic", "nilNetwork"} /\ UNCHANGED <<made, static, at, last, managed, troubles>> BY DEF GetIPPanics
  <1>8. cmd' = "create" => Lowest(reserved, {})' BY <1>6, <1>7 DEF Lowest, Free, InSubnet
  <1> QED BY <1>1, <1>2, <1>4, <1>7, <1>8 DEF Unmixed, Complete, Runs

LEMMA UnmixedSetup == ASSUME IInv, Phases, Unmixed, NEW s \in Servers, NodeSetup(s) PROVE Unmixed'
  <1> USE DEF NodeSetup, net, given
  <1>1. cmd = "create" /\ s \notin made /\ UNCHANGED <<net, at, troubles>> OBVIOUS
  <1>2. \A c \in Servers \cup Added \cup Others : at[c] = None BY <1>1 DEF Phases, Runs
  <1>3. SUFFICES ASSUME "meddled" \notin troubles PROVE Unmixed' BY <1>1 DEF Unmixed
  <1>4. made' \subseteq Servers /\ \A c \in Added \cup Outsiders : at[c] = None
    BY <1>3 DEF Unmixed, GetIPPanics, Runs
  <1>5. cmd' \in {"create", "panic", "nilNetwork"} /\ UNCHANGED reserved BY <1>1 DEF GetIPPanics
  <1>6. managed = "yes" => Lowest(reserved, {})' BY <1>1, <1>3, <1>5 DEF Unmixed, Lowest, Free, InSubnet
  <1>7. ASSUME managed = "yes", at[Tools] # None, "partial" \notin troubles, NEW t \in Servers PROVE at[Tools] # static'[t]
    <2>1. at[Tools] # static[t] BY <1>1, <1>3, <1>7 DEF Unmixed, Runs
    <2>2. CASE UNCHANGED static BY <2>1, <2>2
    <2>3. CASE \E a \in InSubnet : GetIP(a) /\ static' = [static EXCEPT ![s] = a]
      <3>1. PICK a \in InSubnet : GetIP(a) /\ static' = [static EXCEPT ![s] = a] BY <2>3
      <3>2. static'[t] = static[t] \/ static'[t] = a BY <3>1 DEF IInv, TypeOK
      <3>3. at[Tools] \in Held BY <1>7, HeldBy, Kinds
      <3>4. at[Tools] # a BY <3>1, <3>3 DEF GetIP, Lowest, Free
      <3> QED BY <2>1, <3>2, <3>4
    <2> QED BY <1>7, <2>2, <2>3 DEF GetIPPanics
  <1> QED BY <1>1, <1>2, <1>4, <1>5, <1>6, <1>7 DEF Unmixed, Complete, Runs

\* The steps in which containers start and stop and nothing is given out: what the containers
\* of no static address may have at the end of them.
LEMMA UnmixedRuns ==
  ASSUME IInv, Unmixed, UNCHANGED <<net, given>>,
         cmd' = cmd \/ (cmd \in {"create"} \cup Complete /\ cmd' \in Complete),
         "meddled" \notin troubles' => "meddled" \notin troubles /\ troubles \subseteq troubles',
         "meddled" \notin troubles' =>
           /\ \A c \in Added \cup Outsiders : at'[c] = None
           /\ "leak" \notin troubles' /\ cmd' \in {"servers", "others", "up"} => at'[Tools] = None
           /\ managed = "yes" =>
                /\ \A o \in Others, s \in Servers : at'[o] # None => at'[o] # static[s]
                /\ "partial" \notin troubles' =>
                     /\ at'[Tools] # None => \A s \in Servers : at'[Tools] # static[s]
                     /\ (\E o \in Others : at'[o] # None) => \A s \in Servers : at'[s] # None
  PROVE  Unmixed'
  <1> USE DEF net, given
  <1>1. SUFFICES ASSUME "meddled" \notin troubles' PROVE Unmixed' BY DEF Unmixed
  <1>2. made' \subseteq Servers BY <1>1 DEF Unmixed
  <1>3. managed' = "yes" /\ cmd' \in {"create"} \cup Complete => Lowest(reserved, {})'
    BY <1>1 DEF Unmixed, Lowest, Free, InSubnet
  <1> QED BY <1>1, <1>2, <1>3 DEF Unmixed, Runs

\* As long as nobody meddles, an address is held by a server with that static address, by an
\* agent or the load balancer, or by the tools container.
LEMMA HeldByWhom ==
  ASSUME IInv, Unmixed, "meddled" \notin troubles, managed = "yes", NEW a \in Held
  PROVE  \/ at[Tools] = a
         \/ \E s \in Servers : at[s] = a /\ static[s] = a /\ s \in made
         \/ \E o \in Others : at[o] = a
  <1>0. a # None BY DEF Held
  <1>1. PICK c \in Containers : at[c] = a BY DEF Held
  <1>2. c \notin Added \cup Outsiders BY <1>0, <1>1 DEF Unmixed, Runs
  <1>3. CASE c \in Servers
    <2>1. static[c] = a /\ c \in made BY <1>0, <1>1, <1>3 DEF IInv, ServersHaveTheirs, NotMade, Runs
    <2> QED BY <1>1, <1>3, <2>1
  <1> QED BY <1>1, <1>2, <1>3 DEF Containers

\* The tools container, started while nobody meddles and no cluster was stopped in part, gets
\* no server's address: the servers run and have theirs, or the reserved one is the lowest.
LEMMA ToolsStart ==
  ASSUME IInv, Phases, Unmixed, "meddled" \notin troubles, managed = "yes", "partial" \notin troubles,
         cmd \in {"create", "gather"}, Start(Tools), NEW s \in Servers
  PROVE  at'[Tools] # static[s]
  <1> DEFINE a == at'[Tools]
  <1>1. at[Tools] = None /\ a \in InSubnet /\ a # None /\ a \notin Held /\ Lowest(a, Held)
    <2>1. Wants(Tools) = None BY Kinds DEF Wants
    <2> QED BY <2>1, StartTakes, Kinds DEF IInv
  <1> HIDE DEF a
  <1>2. CASE \E o \in Others : Runs(o)
    <2>1. at[s] # None BY <1>2 DEF Unmixed, Runs
    <2>2. at[s] = static[s] BY <2>1 DEF IInv, ServersHaveTheirs, Runs
    <2>3. static[s] \in Held BY <2>1, <2>2, HeldBy, Kinds
    <2> QED BY <1>1, <2>3 DEF a
  <1>3. CASE \A o \in Others : ~Runs(o)
    <2>1. Lowest(reserved, {}) BY DEF Unmixed, Complete
    <2>2. \A t \in Servers \cap made : static[t] # reserved BY DEF IInv, AddressesOfTheirOwn, Free
    <2>3. reserved # None BY <2>1, NoneOutside DEF IInv, Lowest, Free
    <2>4. reserved \notin Held
      <3> SUFFICES ASSUME reserved \in Held PROVE FALSE OBVIOUS
      <3>1. \/ at[Tools] = reserved \/ (\E t \in Servers : static[t] = reserved /\ t \in made)
            \/ \E o \in Others : at[o] = reserved
        BY HeldByWhom
      <3> QED BY <1>1, <1>3, <2>2, <2>3, <3>1 DEF Runs
    <2>5. a <= reserved BY <1>1, <2>1, <2>4 DEF Lowest, Free
    <2>6. reserved <= a BY <1>1, <2>1 DEF Lowest, Free
    <2>7. a \in Int /\ reserved \in Int BY <1>1, <2>1, NoneOutside DEF IInv, Lowest, Free, InSubnet
    <2>8. a = reserved BY <2>5, <2>6, <2>7
    <2>9. static[s] = None \/ s \in made BY DEF IInv, NotMade
    <2> QED BY <1>1, <2>2, <2>8, <2>9 DEF a
  <1> QED BY <1>2, <1>3

\* An agent or the load balancer starts when all servers run, and gets no address of theirs.
LEMMA OtherStart ==
  ASSUME IInv, Phases, managed = "yes", cmd = "others", NEW o \in Others, Start(o), NEW s \in Servers
  PROVE  at'[o] # static[s] /\ at[s] # None /\ at'[s] = at[s]
  <1>1. at[s] # None BY DEF Phases, Complete, Runs
  <1>2. at[s] = static[s] BY <1>1 DEF IInv, ServersHaveTheirs, Runs
  <1>3. static[s] \in Held BY <1>1, <1>2, HeldBy, Kinds
  <1>4. at'[o] \notin Held /\ at'[s] = at[s] BY StartTakes, Kinds DEF IInv
  <1> QED BY <1>1, <1>3, <1>4

\* What it takes for a server to be refused its address when the cluster starts: the tools
\* container was left behind, in a cluster that was stopped in part.
LEMMA RefusedWhy ==
  ASSUME IInv, Phases, Unmixed, "meddled" \notin troubles, cmd = "servers", NEW s \in made,
         StartRefused(s), Wants(s) # None
  PROVE  {"leak", "partial"} \subseteq troubles
  <1>1. s \in Servers /\ static[s] # None /\ at[s] = None BY DEF Unmixed, Wants, StartRefused, Runs
  <1>2. managed = "yes" BY <1>1 DEF Phases, IInv, TypeOK
  <1>3. static[s] \in Held BY <1>1 DEF StartRefused, Wants
  <1>4. ~\E t \in Servers : at[t] = static[s] /\ static[t] = static[s] /\ t \in made
    <2> SUFFICES ASSUME NEW t \in Servers, at[t] = static[s], static[t] = static[s], t \in made PROVE FALSE OBVIOUS
    <2>1. t = s BY <1>1, <1>2 DEF IInv, AddressesOfTheirOwn
    <2> QED BY <1>1, <2>1
  <1>5. ~\E o \in Others : at[o] = static[s] BY <1>1, <1>2 DEF Unmixed, Runs
  <1>6. at[Tools] = static[s] BY <1>2, <1>3, <1>4, <1>5, HeldByWhom
  <1>7. Runs(Tools) BY <1>1, <1>6 DEF Runs
  <1> QED BY <1>1, <1>2, <1>6, <1>7 DEF Unmixed

\* A refusal of a container without a static address is no server's.
LEMMA RefusedOther == ASSUME NEW c, StartRefused(c), Wants(c) = None PROVE UNCHANGED <<at, refused>>
  BY DEF StartRefused

\* Every step keeps both parts.
LEMMA UnmixedNext ==
  IInv /\ Phases /\ Unmixed /\ RefusedForAReason /\ [Next]_vars => (Unmixed /\ RefusedForAReason)'
  <1> SUFFICES ASSUME IInv, Phases, Unmixed, RefusedForAReason, [Next]_vars
               PROVE  (Unmixed /\ RefusedForAReason)'
    OBVIOUS
  <1> USE DEF Goto
  <1>t. TypeOK BY DEF IInv
  <1>n. /\ UNCHANGED <<refused, troubles>> => RefusedForAReason'
        /\ troubles' = {"meddled"} => (Unmixed /\ RefusedForAReason)'
    BY DEF RefusedForAReason, Unmixed
  <1>r. refused' = refused /\ troubles \subseteq troubles' => RefusedForAReason'
    BY DEF RefusedForAReason
  <1> DEFINE Clean == "meddled" \notin troubles
  <1>u. Clean => /\ \A c \in Added \cup Outsiders : at[c] = None
                 /\ "leak" \notin troubles /\ cmd \in {"servers", "others", "up"} => at[Tools] = None
                 /\ managed = "yes" =>
                      /\ \A o \in Others, s \in Servers : at[o] # None => at[o] # static[s]
                      /\ "partial" \notin troubles =>
                           /\ at[Tools] # None => \A s \in Servers : at[Tools] # static[s]
                           /\ (\E o \in Others : at[o] # None) => \A s \in Servers : at[s] # None
    BY DEF Unmixed, Runs
  <1>m. made \subseteq Containers BY <1>t, Kinds DEF TypeOK
  <1>1. CASE UseExisting \/ PrefixOfNamed \/ CreateUnmanaged
    BY <1>1, <1>n, UnmixedNetwork DEF UseExisting, PrefixOfNamed, CreateUnmanaged, Early, Prep
  <1>2. CASE CreateFake \/ DeleteFake BY <1>2, <1>n, UnmixedNetwork DEF CreateFake, DeleteFake, Early, Prep
  <1>3. CASE CreateNetwork BY <1>3, <1>n, UnmixedNetwork DEF CreateNetwork, Early, Prep
  <1>4. CASE OthersNetworks
    <2>1. Prep /\ UNCHANGED managed /\ cmd' = cmd /\ cmd \in Early \ {"reserve"} BY <1>4 DEF OthersNetworks, Prep, Early
    <2> QED BY <2>1, <1>n, UnmixedNetwork DEF Prep
  <1>5. CASE Reserve BY <1>5, <1>n, UnmixedReserve DEF Reserve
  <1>6. CASE EndCreate BY <1>6, <1>n, <1>u, UnmixedRuns DEF EndCreate, Complete
  <1>7. CASE EnsureToolsNode
    <2>1. Start(Tools) /\ cmd = "create" /\ UNCHANGED <<net, given, cmd, troubles>> /\ refused' = refused
      BY <1>7 DEF EnsureToolsNode, Start
    <2>2. \A d \in Containers : d # Tools => at'[d] = at[d] BY <1>t, <2>1, StartGives, Kinds
    <2>3. Clean /\ managed = "yes" /\ "partial" \notin troubles => \A s \in Servers : at'[Tools] # static[s]
      BY <2>1, ToolsStart
    <2>4. Unmixed' BY <2>1, <2>2, <2>3, <1>u, Kinds, UnmixedRuns
    <2> QED BY <2>1, <2>4, <1>n
  <1>8. CASE GatherEnvironmentInfo
    <2> UNCHANGED <<net, given>> /\ cmd = "gather" BY <1>8 DEF GatherEnvironmentInfo
    <2>1. CASE cmd' = "gather" /\ Start(Tools) /\ UNCHANGED troubles
      <3>1. \A d \in Containers : d # Tools => at'[d] = at[d] BY <1>t, <2>1, StartGives, Kinds
      <3>2. Clean /\ managed = "yes" /\ "partial" \notin troubles => \A s \in Servers : at'[Tools] # static[s]
        BY <2>1, ToolsStart
      <3>3. Unmixed' BY <2>1, <3>1, <3>2, <1>u, Kinds, UnmixedRuns DEF Complete
      <3> QED BY <2>1, <3>3, <1>n DEF Start
    <2>2. CASE cmd' = "up" /\ StartRefused(Tools) /\ UNCHANGED troubles
      <3>1. at[Tools] = None /\ UNCHANGED <<at, refused>>
        BY <2>2, RefusedOther, Kinds DEF StartRefused, Runs, Wants
      <3>2. Unmixed' BY <2>2, <3>1, <1>u, UnmixedRuns DEF Complete
      <3> QED BY <2>2, <3>1, <3>2, <1>n
    <2>3. CASE cmd' = "servers" /\ Stopped({Tools}) /\ UNCHANGED <<troubles, refused>>
      <3>1. at'[Tools] = None /\ \A d \in Containers : d # Tools => at'[d] = at[d]
        BY <2>3, Kinds DEF Stopped
      <3>2. Unmixed' BY <2>3, <3>1, <1>u, Kinds, UnmixedRuns DEF Complete
      <3> QED BY <2>3, <3>2, <1>n
    <2>4. CASE cmd' = "servers" /\ UNCHANGED <<at, refused>> /\ troubles' = Trouble("leak")
      <3>1. troubles \subseteq troubles' /\ ("meddled" \notin troubles' => Clean /\ "leak" \in troubles')
            /\ ("partial" \notin troubles' => "partial" \notin troubles)
        BY <2>4 DEF Trouble
      <3>2. Unmixed' BY <2>4, <3>1, <1>u, UnmixedRuns DEF Complete
      <3> QED BY <2>4, <3>1, <3>2, <1>r
    <2> QED BY <1>8, <2>1, <2>2, <2>3, <2>4 DEF GatherEnvironmentInfo
  <1>9. CASE ClusterStart
    <2> UNCHANGED <<net, given>> /\ UNCHANGED troubles BY <1>9 DEF ClusterStart
    <2>1. ASSUME NEW s \in made, cmd = "servers", cmd' = cmd, Start(s) PROVE (Unmixed /\ RefusedForAReason)'
      <3>1. Clean => s \in Servers BY DEF Unmixed
      <3>2. (\A d \in Containers : d # s => at'[d] = at[d]) /\ at'[s] # None /\ refused' = refused
        BY <1>m, <1>t, <2>1, StartTakes DEF Start
      <3>3. Unmixed' BY <2>1, <3>1, <3>2, <1>u, Kinds, UnmixedRuns
      <3> QED BY <3>2, <3>3, <1>n
    <2>2. ASSUME NEW s \in made, cmd = "servers", cmd' = "up", StartRefused(s) PROVE (Unmixed /\ RefusedForAReason)'
      <3>1. UNCHANGED at BY <2>2 DEF StartRefused
      <3>2. Unmixed' BY <2>2, <3>1, <1>u, UnmixedRuns DEF Complete
      <3>3. CASE Wants(s) = None BY <2>2, <3>2, <3>3, <1>n, RefusedOther
      <3>4. CASE Wants(s) # None
        <4>1. Clean => {"leak", "partial"} \subseteq troubles BY <2>2, <3>4, RefusedWhy
        <4> QED BY <3>2, <4>1 DEF RefusedForAReason
      <3> QED BY <3>3, <3>4
    <2>3. ASSUME NEW o \in Others, cmd = "others", cmd' = cmd, Start(o) PROVE (Unmixed /\ RefusedForAReason)'
      <3>1. (\A d \in Containers : d # o => at'[d] = at[d]) /\ refused' = refused
        BY <1>t, <2>3, StartTakes, Kinds DEF Start
      <3>2. managed = "yes" => \A s \in Servers : at'[o] # static[s] /\ at'[s] # None BY <2>3, OtherStart
      <3>3. Unmixed' BY <2>3, <3>1, <3>2, <1>u, Kinds, UnmixedRuns
      <3> QED BY <3>1, <3>3, <1>n
    <2>4. ASSUME NEW o \in Others, cmd = "others", cmd' = "up", StartRefused(o) PROVE (Unmixed /\ RefusedForAReason)'
      <3>1. UNCHANGED <<at, refused>> BY <2>4, RefusedOther, Kinds DEF Wants
      <3>2. Unmixed' BY <2>4, <3>1, <1>u, UnmixedRuns DEF Complete
      <3> QED BY <3>1, <3>2, <1>n
    <2>5. CASE cmd \in {"servers", "others"} /\ cmd' \in {"others", "up"} /\ UNCHANGED <<at, refused>>
      <3>1. Unmixed' BY <2>5, <1>u, UnmixedRuns DEF Complete
      <3> QED BY <2>5, <3>1, <1>n
    <2> QED BY <1>9, <2>1, <2>2, <2>3, <2>4, <2>5 DEF ClusterStart
  <1>10. ASSUME NEW s \in Servers, NodeSetup(s) PROVE (Unmixed /\ RefusedForAReason)'
    BY <1>10, <1>n, UnmixedSetup DEF NodeSetup
  <1>11. CASE StartCommand BY <1>11, <1>n, <1>u, UnmixedRuns DEF StartCommand, Complete
  <1>12. CASE ClusterStop
    <2>1. PICK S \in SUBSET (made \cup Others \cup {Tools}) :
            /\ Stopped(S)
            /\ troubles' = IF \A c \in made \cup Others \cup {Tools} : Runs(c) => c \in S
                           THEN troubles ELSE Trouble("partial")
      BY <1>12 DEF ClusterStop
    <2>2. cmd = "up" /\ cmd' = "up" /\ UNCHANGED <<net, given, refused>> BY <1>12 DEF ClusterStop
    <2>3. troubles \subseteq troubles' /\ ("meddled" \notin troubles' => Clean)
      BY <2>1 DEF Trouble
    <2>4. \A d \in Containers : at'[d] = IF d \in S THEN None ELSE at[d] BY <2>1 DEF Stopped
    <2>5. "partial" \notin troubles' /\ "meddled" \notin troubles' =>
            "partial" \notin troubles /\ at'[Tools] = None /\ \A o \in Others : at'[o] = None
      BY <2>1, <2>3, <2>4, Kinds DEF Trouble, Runs
    <2>6. Unmixed' BY <2>2, <2>3, <2>4, <2>5, <1>u, Kinds, UnmixedRuns
    <2> QED BY <2>2, <2>3, <2>6, <1>r
  <1>13. CASE SingleNode BY <1>13, <1>n DEF SingleNode
  <1>14. CASE Outside
    <2>1. CASE troubles' = {"meddled"} BY <2>1, <1>n
    <2>2. CASE UNCHANGED <<refused, troubles>> /\ \E o \in Outsiders : Runs(o)
      <3>1. ~Clean BY <2>2, <1>u DEF Runs
      <3> QED BY <2>2, <3>1, <1>n DEF Unmixed
    <2> QED BY <1>14, <2>1, <2>2 DEF Outside
  <1>15. ASSUME NEW n \in Added, AddServer(n) PROVE (Unmixed /\ RefusedForAReason)'
    BY <1>15, <1>n DEF AddServer
  <1>16. CASE UNCHANGED vars
    <2>1. Unmixed' BY <1>16 DEF vars, net, given, Unmixed, Runs, Lowest, Free, InSubnet
    <2> QED BY <1>16, <2>1, <1>n DEF vars
  <1> QED BY <1>1, <1>2, <1>3, <1>4, <1>5, <1>6, <1>7, <1>8, <1>9, <1>10, <1>11, <1>12, <1>13,
             <1>14, <1>15, <1>16 DEF Next

-----------------------------------------------------------------------------
\* A set of values of a function has at most as many elements as there are arguments.
LEMMA ImageSize ==
  ASSUME NEW S, IsFiniteSet(S), NEW f
  PROVE  IsFiniteSet({f[x] : x \in S}) /\ Cardinality({f[x] : x \in S}) <= Cardinality(S)
  <1> DEFINE T == {f[x] : x \in S}
             g == [x \in S |-> f[x]]
  <1>1. g \in Surjection(S, T) BY DEF Surjection
  <1> HIDE DEF T, g
  <1>2. IsFiniteSet(T) /\ Cardinality(T) <= Cardinality(S) BY <1>1, FS_Surjection
  <1> QED BY <1>2 DEF T

\* A set of two parts has at most as many elements as its parts together.
LEMMA UnionSize ==
  ASSUME NEW S, IsFiniteSet(S), NEW T, IsFiniteSet(T)
  PROVE  IsFiniteSet(S \cup T) /\ Cardinality(S \cup T) <= Cardinality(S) + Cardinality(T)
  <1>1. IsFiniteSet(S \cup T) /\ IsFiniteSet(S \cap T)
        /\ Cardinality(S \cup T) = Cardinality(S) + Cardinality(T) - Cardinality(S \cap T)
    BY FS_Union, FS_Intersection
  <1>2. Cardinality(S) \in Nat /\ Cardinality(T) \in Nat /\ Cardinality(S \cap T) \in Nat
    BY <1>1, FS_CardinalityType
  <1> QED BY <1>1, <1>2

\* What it takes for no address to be free while containers are created: a server that has
\* none yet finds those of the other servers, the reserved one, that of the tools container
\* and those of containers of others.
LEMMA NothingFreeSmall ==
  ASSUME IInv, Phases, Accounted, cmd \in {"reserve", "create"}, Free(Held \cup used) = {},
         cmd = "create" => \E s \in Servers : s \notin made
  PROVE  last + 1 < 5 + Count + Cardinality(Outsiders)
  <1>1. PICK x \in Servers : cmd = "create" => x \notin made
    BY IpamAssumption DEF Servers
  <1> DEFINE A == {at[c] : c \in Outsiders}
             B == {static[s] : s \in Servers \ {x}}
             C == (A \cup B) \cup {at[Tools], reserved}
  <1>2. 2 .. (last - 1) \subseteq C
    <2> SUFFICES ASSUME NEW n \in 2 .. (last - 1) PROVE n \in C OBVIOUS
    <2>1. n \in InSubnet /\ n \notin {0, Gateway, last} /\ n # None
      <3>1. last \in Nat BY NoneOutside DEF IInv
      <3>2. n \in InSubnet /\ n \notin {0, Gateway, last} BY <3>1 DEF InSubnet, Gateway
      <3> QED BY <3>2, NoneOutside DEF IInv
    <2>2. n \in Held \cup used BY <2>1 DEF Free
    <2>3. CASE n \in Held
      <3>1. PICK c \in Containers : at[c] = n BY <2>3 DEF Held
      <3>2. c \in Outsiders \cup {Tools} BY <2>1, <3>1 DEF Phases, Early, Runs, Containers
      <3> QED BY <3>1, <3>2
    <2>4. CASE n \in used
      <3>1. cmd = "create" BY <2>4 DEF IInv, NothingEarly, Early
      <3>2. n = reserved \/ \E s \in Servers \cap made : n = static[s] BY <2>4, <3>1 DEF Accounted
      <3> QED BY <1>1, <3>1, <3>2
    <2> QED BY <2>2, <2>3, <2>4
  <1>3. IsFiniteSet(A) /\ Cardinality(A) <= Cardinality(Outsiders) BY ImageSize, IpamAssumption
  <1>4. IsFiniteSet(B) /\ Cardinality(B) <= Count - 1
    <2>1. IsFiniteSet(Servers) /\ Cardinality(Servers) = Count BY FS_Interval, IpamAssumption DEF Servers
    <2>2. IsFiniteSet(Servers \ {x}) /\ Cardinality(Servers \ {x}) = Count - 1 BY <2>1, FS_RemoveElement
    <2> QED BY <2>2, ImageSize
  <1>5. IsFiniteSet({at[Tools], reserved}) /\ Cardinality({at[Tools], reserved}) <= 2
    <2>1. /\ IsFiniteSet({at[Tools]}) /\ Cardinality({at[Tools]}) = 1
          /\ IsFiniteSet({reserved}) /\ Cardinality({reserved}) = 1
      BY FS_Singleton
    <2>2. {at[Tools], reserved} = {at[Tools]} \cup {reserved} OBVIOUS
    <2> QED BY <2>1, <2>2, UnionSize
  <1>6. /\ IsFiniteSet(C) /\ Cardinality(C) \in Nat /\ Cardinality(Outsiders) \in Nat
        /\ Cardinality(C) <= Cardinality(Outsiders) + Count + 1
    <2> HIDE DEF A, B
    <2>1. IsFiniteSet(A \cup B) /\ Cardinality(A \cup B) <= Cardinality(A) + Cardinality(B)
      BY <1>3, <1>4, UnionSize
    <2>2. IsFiniteSet(C) /\ Cardinality(C) <= Cardinality(A \cup B) + Cardinality({at[Tools], reserved})
      BY <1>5, <2>1, UnionSize
    <2>3. /\ Cardinality(A) \in Nat /\ Cardinality(B) \in Nat /\ Cardinality(A \cup B) \in Nat
          /\ Cardinality(C) \in Nat /\ Cardinality({at[Tools], reserved}) \in Nat
          /\ Cardinality(Outsiders) \in Nat /\ Count \in Nat
      BY <1>3, <1>4, <1>5, <2>1, <2>2, FS_CardinalityType, IpamAssumption
    <2> HIDE DEF C
    <2> QED BY <1>3, <1>4, <1>5, <2>1, <2>2, <2>3
  <1>7. last \in Nat /\ last >= 2 BY NoneOutside, IpamAssumption DEF IInv, TypeOK
  <1> HIDE DEF C
  <1>8. Cardinality(2 .. (last - 1)) = last - 2
    <2>1. 2 \in Int /\ last - 1 \in Int BY <1>7
    <2>2. Cardinality(2 .. (last - 1)) = IF 2 > last - 1 THEN 0 ELSE (last - 1) - 2 + 1 BY <2>1, FS_Interval
    <2> QED BY <1>7, <2>2
  <1>9. last - 2 <= Cardinality(C)
    <2>1. Cardinality(2 .. (last - 1)) <= Cardinality(C) BY <1>2, <1>6, FS_Subset, Zenon
    <2> QED BY <1>8, <2>1
  <1> QED BY <1>6, <1>7, <1>9, IpamAssumption

\* The steps that may end in a panic.
LEMMA PanicStep ==
  ASSUME [Next]_vars, cmd' \in {"panic", "nilNetwork"}
  PROVE  \/ UNCHANGED vars
         \/ Reserve /\ GetIPPanics
         \/ \E s \in Servers : NodeSetup(s) /\ managed = "yes" /\ GetIPPanics
  <1>1. \/ UNCHANGED vars \/ Reserve \/ (\E s \in Servers : NodeSetup(s))
        \/ (cmd' = cmd /\ cmd \notin {"panic", "nilNetwork"})
    BY DEF Next, UseExisting, PrefixOfNamed, CreateUnmanaged, CreateFake, DeleteFake, CreateNetwork,
       OthersNetworks, EndCreate, EnsureToolsNode, GatherEnvironmentInfo, ClusterStart, StartCommand,
       ClusterStop, SingleNode, Outside, AddServer, Goto
  <1>2. CASE Reserve BY <1>2 DEF Reserve
  <1>3. ASSUME NEW s \in Servers, NodeSetup(s) PROVE managed = "yes" /\ GetIPPanics BY <1>3 DEF NodeSetup
  <1> QED BY <1>1, <1>2, <1>3

LEMMA PanicNext ==
  IInv /\ Phases /\ Accounted /\ PanicForAReason /\ [Next]_vars => PanicForAReason'
  <1> SUFFICES ASSUME IInv, Phases, Accounted, PanicForAReason, [Next]_vars, cmd' \in {"panic", "nilNetwork"}
               PROVE  /\ cmd' = "panic" => last' + 1 < 5 + Count + Cardinality(Outsiders)
                      /\ managed' = "yes" /\ \A c \in made' \cup Others : ~Runs(c)'
    BY DEF PanicForAReason
  <1>1. CASE UNCHANGED vars BY <1>1 DEF vars, net, given, PanicForAReason, Runs
  <1>2. ASSUME cmd \in {"reserve", "create"}, managed = "yes", GetIPPanics, UNCHANGED <<net, at>>,
               cmd = "create" => \E s \in Servers : s \notin made
        PROVE  /\ cmd' = "panic" => last' + 1 < 5 + Count + Cardinality(Outsiders)
               /\ managed' = "yes" /\ \A c \in made' \cup Others : ~Runs(c)'
    <2>1. cmd' = "panic" => Free(Held \cup used) = {} BY <1>2 DEF GetIPPanics
    <2>2. cmd' = "panic" => last + 1 < 5 + Count + Cardinality(Outsiders) BY <1>2, <2>1, NothingFreeSmall
    <2>3. made' = made /\ UNCHANGED <<last, managed, at>> BY <1>2 DEF GetIPPanics, given, net
    <2>4. \A c \in made \cup Others : ~Runs(c) BY <1>2 DEF Phases, Early
    <2> QED BY <1>2, <2>2, <2>3, <2>4 DEF Runs
  <1>3. CASE Reserve /\ GetIPPanics BY <1>2, <1>3 DEF Reserve, Phases
  <1>4. CASE \E s \in Servers : NodeSetup(s) /\ managed = "yes" /\ GetIPPanics BY <1>2, <1>4 DEF NodeSetup
  <1> QED BY <1>1, <1>3, <1>4, PanicStep

\* While nobody meddles, who has a server's static address is the server, or the tools
\* container after a stop in part.
LEMMA NobodyElse ==
  ASSUME IInv, Phases, Unmixed, managed = "yes", "meddled" \notin troubles,
         NEW s \in Servers, NEW c \in Containers, Runs(c), at[c] = static[s]
  PROVE  c = s \/ (c = Tools /\ "partial" \in troubles)
  <1>1. c \notin Added \cup Outsiders BY DEF Unmixed
  <1>2. c \notin Others BY DEF Unmixed
  <1>3. CASE c = Tools BY <1>3 DEF Unmixed
  <1>4. CASE c \in Servers
    <2>1. c \in made /\ at[c] = static[c] BY <1>4 DEF IInv, NotMade, ServersHaveTheirs, Runs
    <2>2. s \in made BY DEF IInv, NotMade, Runs
    <2> QED BY <1>4, <2>1, <2>2 DEF IInv, AddressesOfTheirOwn
  <1> QED BY <1>1, <1>2, <1>3, <1>4 DEF Containers

\* Every reachable state satisfies all parts.
LEMMA AllParts ==
  Spec => [](IInv /\ Phases /\ Accounted /\ Unmixed /\ RefusedForAReason /\ PanicForAReason)
  <1> DEFINE Inv == IInv /\ Phases /\ Accounted /\ Unmixed /\ RefusedForAReason /\ PanicForAReason
  <1>1. Init => Inv BY InitInv, PhasesInit DEF Init, PanicForAReason
  <1>2. Inv /\ [Next]_vars => Inv' BY NextInv, PhasesNext, UnmixedNext, PanicNext
  <1> HIDE DEF Inv
  <1>3. Spec => []Inv BY <1>1, <1>2, PTL DEF Spec
  <1> QED BY <1>3, PTL DEF Inv

\* A server of a managed network has its static address whenever it runs, and as long as
\* nobody meddles no other node of the cluster ever has it, whether the server runs or not.
THEOREM AddressesKept == Spec => []ServersKeepAddress
  <1>1. IInv /\ Phases /\ Unmixed => ServersKeepAddress
    BY NobodyElse DEF ServersKeepAddress, IInv
  <1> QED BY <1>1, AllParts, PTL

\* The creation panics for want of an address only in a subnet that is too small for it, and
\* for a network that cannot be read only when k3d manages it, before any node runs; a server is
\* refused its address only when others have meddled or a cluster whose tools container was
\* left behind was stopped in part.
THEOREM EndsForAReason == Spec => []CommandsEndForAReason
  <1>1. RefusedForAReason /\ PanicForAReason => CommandsEndForAReason BY DEF CommandsEndForAReason
  <1> QED BY <1>1, AllParts, PTL
=============================================================================
