------------------------- MODULE MCLaunchPreparation ------------------------
(***************************************************************************)
(* An inventory with two templates, a machine, two clusters, a datastore   *)
(* and three networks.  Key "env" has the values "prod" and "test".        *)
(***************************************************************************)
EXTENDS LaunchPreparation

CONSTANTS tplA, tplB, plainVM, clusterA, clusterB, store, portgroup, opaque, switch

Prod == <<"env", "prod">>
Ssd == <<"tier", "ssd">>

MCObjects == {tplA, tplB, plainVM, clusterA, clusterB, store, portgroup, opaque, switch}
MCKnownTags == {Prod, Ssd}
MCKind == [o \in MCObjects |->
  CASE o \in {tplA, tplB, plainVM} -> "VirtualMachine"
    [] o \in {clusterA, clusterB} -> "ClusterComputeResource"
    [] o = store -> "Datastore"
    [] o = portgroup -> "DistributedVirtualPortgroup"
    [] o = opaque -> "OpaqueNetwork"
    [] o = switch -> "DistributedVirtualSwitch"]
\* The pattern "node*" matches a template and an ordinary machine.
MCPatterns == [o \in MCObjects |->
  CASE o = tplA -> {"image-a", "node*"}
    [] o = plainVM -> {"node*"}
    [] o = tplB -> {}
    [] o = clusterA -> {"a"}
    [] o = clusterB -> {"b"}
    [] o = store -> {"store"}
    [] o = portgroup -> {"net"}
    [] o = opaque -> {"net", "opaque"}
    [] o = switch -> {"switch"}]
MCTemplates == {tplA, tplB}
MCDisks == [o \in MCObjects |-> IF o = tplB THEN <<GiToKb(10)>> ELSE <<GiToKb(20), GiToKb(5)>>]
\* Template A has two network cards.
MCNics == [o \in MCObjects |->
  CASE o = tplA -> {4000, 4001} [] o = tplB -> {4000} [] OTHER -> {}]
\* One image, two clusters of which one has both tags, two networks of which
\* one has both tags.
MCInitTags == [o \in MCObjects |->
  CASE o \in {tplA, clusterA, store, portgroup} -> {Prod, Ssd}
    [] o \in {clusterB, opaque} -> {Prod}
    [] o = tplB -> {Ssd}
    [] OTHER -> {}]

ByTags(tags) == [tags |-> tags, name |-> ""]
ByName(name) == [tags |-> {}, name |-> name]

NoExtra == [parses |-> {CloudConfig, Ignition}, cfg |-> Empty]
Extra == [parses |-> {CloudConfig, Ignition},
          cfg |-> [files |-> <<<<"/etc/motd", "hello">>>>, commands |-> <<"extra">>, units |-> {}, other |-> {}]]
Overrides == [parses |-> {Ignition},
              cfg |-> [files |-> <<<<JoinConfig[1], "mine">>>>, commands |-> <<>>,
                       units |-> {<<"extra.service", "run">>}, other |-> {"users"}]]
OwnUnit == [Overrides EXCEPT !.cfg.units = {<<JoinUnit[1], "mine">>}]

Plain(n) == [n |-> n, unit |-> ""]
Gi(n) == [n |-> n, unit |-> "Gi"]
Type(cpu, memory, zone) ==
  [cpu |-> cpu, memory |-> memory, maxPods |-> Plain(110), os |-> "Linux", zone |-> zone]
Small == Type([n |-> 1500, unit |-> "m"], Gi(2), "a")
Large == Type(Plain(4), Gi(16), "b")
\* The memory that the README's "amount of memory in gigabytes" suggests.
Bytes == Type(Plain(4), Plain(16), "a")
Mebi == Type(Plain(4), [n |-> 3000, unit |-> "Mi"], "a")
NoMaxPods == [Small EXCEPT !.maxPods = [n |-> 0, unit |-> "missing"]]

Base == [image |-> ByTags({Prod}), pool |-> ByTags({Prod, Ssd}), datastore |-> ByName("store"),
         network |-> ByTags({Prod, Ssd}), diskSize |-> 30, types |-> <<Small, Large>>,
         format |-> Ignition, additional |-> NoExtra]

Claim(reqs, cpu, gi, disk) ==
  [reqs |-> reqs, requests |-> [cpu |-> cpu, memory |-> gi * Bytes64InGi, pods |-> 3000,
                                storage |-> disk * Bytes64InGi]]
AnyZone == [os |-> {"linux"}, arch |-> {"amd64", "arm64"}]
SmallClaim == Claim(AnyZone, 1200, 2, 0)

\* Variations of one part at a time.
MCClasses ==
  { [Base EXCEPT !.image = i] : i \in {ByTags({Ssd}), ByName("image-a"), ByName("node*"), ByName("")} }
  \cup { [Base EXCEPT !.pool = p] : p \in {ByTags({Prod}), ByName("b"), ByTags({<<"env", "test">>})} }
  \cup { [Base EXCEPT !.network = n] :
           n \in {ByTags({Prod}), ByTags({<<"env", "test">>}), ByName("net"), ByName("opaque"),
                 ByName("switch")} }
  \cup { [Base EXCEPT !.datastore = ByTags({Ssd})] }
  \cup { [Base EXCEPT !.diskSize = d] : d \in {-1, 0, 10, 20, 30} }
  \cup { [Base EXCEPT !.additional = a, !.format = f] :
           a \in {NoExtra, Extra}, f \in {CloudConfig, Ignition, ""} }
  \cup { [Base EXCEPT !.additional = a] : a \in {Overrides, OwnUnit} }

\* Claims for either type, for none, and the edges of size and storage.
MCClaims ==
  { SmallClaim, Claim(AnyZone, 1500, 2, 30), Claim(AnyZone, 1501, 2, 0), Claim(AnyZone, 0, 16, 31),
    Claim([zone |-> {"b"}], 1000, 16, 0), Claim([zone |-> {"c"}], 0, 0, 0),
    Claim([type |-> {ToCPITypeFormat(Plain(4), Gi(16), "linux")}], 0, 1, 0) }

\* The selectors by name keep the launches that vary types and claims small.
Named == [Base EXCEPT !.image = ByName("image-a"), !.pool = ByName("a"), !.network = ByName("opaque")]

MCLaunches ==
  { [class |-> c, claim |-> SmallClaim] : c \in MCClasses }
  \cup { [class |-> [Named EXCEPT !.types = t, !.diskSize = d], claim |-> n] :
           t \in {<<Small, Large>>, <<Bytes, Mebi, Large>>, <<Large, NoMaxPods>>, <<>>}, d \in {-1, 0, 30},
           n \in MCClaims }

\* Malformed additional user data.
MalformedLaunches ==
  { [class |-> [Base EXCEPT !.additional = [parses |-> {}, cfg |-> Empty]], claim |-> SmallClaim] }
BaseLaunches == { [class |-> Base, claim |-> SmallClaim] }
=============================================================================
