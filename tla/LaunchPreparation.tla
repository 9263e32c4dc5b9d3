------------------------- MODULE LaunchPreparation --------------------------
(***************************************************************************)
(* What the two Create functions do until the machine is cloned: the       *)
(* instance type, the user data, the finder's lookups one after another    *)
(* (image, pool, datastore, the image once more for its devices, network), *)
(* the device changes, the folder.  They work on their own copy of class   *)
(* and claim, so that edits of these during a launch have no effect.       *)
(* A lookup by tags asks vCenter once per tag, and users attach and detach *)
(* tags meanwhile.  FindClient, TagManager and the clone task are external.*)
(***************************************************************************)
EXTENDS Integers, FiniteSets, UserData, InstanceTypes

CONSTANTS
  Objects,     \* objects of the vCenter inventory
  Kind,        \* their managed object types
  Patterns,    \* the names and patterns in use that match each object
  Templates,   \* machines marked as templates
  Disks,       \* capacities of each machine's disks in KB
  Nics,        \* device keys of each machine's network cards
  KnownTags,   \* <<key, value>> pairs that exist in vCenter
  InitTags,    \* the tags attached to each object at first
  Launches,    \* [class, claim]: a spec of the class and a claim to launch
  Distros,     \* values of options.KubeDistro
  NoObject,
  MaxRetags,   \* bound: tags attached or detached by users
  MaxFaults    \* bound: failed calls

ASSUME PreparationBounds == MaxRetags \in Nat /\ MaxFaults \in Nat

ASSUME InventoryConstants ==
  /\ IsFiniteSet(Objects) /\ NoObject \notin Objects
  /\ IsFiniteSet(KnownTags) /\ InitTags \in [Objects -> SUBSET KnownTags]
  /\ Disks \in [Objects -> Seq(Nat)]

\* Numbers are numbers; the texts of quantities need not parse.
ASSUME LaunchConstants ==
  \A l \in Launches :
    /\ l = [class |-> l.class, claim |-> l.claim]
    /\ l.class.diskSize \in Int
    /\ l.class.additional.cfg.files \in Seq(STRING \X STRING)
    /\ l.class.additional.cfg.commands \in Seq(STRING)
    /\ \A i \in DOMAIN l.class.types :
         l.class.types[i].cpu.n \in Int /\ l.class.types[i].memory.n \in Int
    /\ l.claim.requests \in [cpu : Int, memory : Int, pods : Int, storage : Int]

\* What the clone task can make, of which NoObject is none.
Machines ==
  [image : Objects, pool : Objects, datastore : Objects, network : Objects,
   oldNics : SUBSET UNION { Nics[o] : o \in Objects }, disk : Nat,
   guestinfo : { GetInitData(d, l.class.format, l.class.additional) : d \in Distros, l \in Launches },
   numCPUs : Nat, memoryMB : Nat]

ASSUME NoObjectIsNoMachine == NoObject \notin Machines

VARIABLES
  tagged,      \* the tags attached to each object
  ever,        \* the tags attached at some time since the launch began
  retags,
  faults,
  distro,      \* options.KubeDistro and
  endpoint,    \*   options.ClusterEndpoint
  class,       \* the spec that is launched
  claim,       \* the NodeClaim: [reqs, requests]
  instanceType,
  step,
  listing,     \* whether a lookup by tags is under way, and then
  left,        \*   its tags that are not listed yet and
  count,       \*   objTagCount
  kinds,       \* kinds of network that are not looked up yet
  networkRefs, \* networks found
  chosen,      \* results of the lookups
  devices,     \* the device changes
  userData,
  machine      \* what the clone task makes

inventory == <<tagged, ever, retags>>
inputs == <<distro, endpoint, class, claim>>
lookup == <<listing, left, count, kinds, networkRefs>>
vars == <<inventory, inputs, faults, step, instanceType, lookup, chosen, devices, userData, machine>>

Lookups == {"image", "pool", "datastore", "deviceImage", "network"}
Following == [image |-> "pool", pool |-> "datastore", datastore |-> "deviceImage",
              deviceImage |-> "network", network |-> "devices"]
NetworkKinds == <<"Network", "DistributedVirtualSwitch", "DistributedVirtualPortgroup",
                  "OpaqueNetwork">>

Init ==
  /\ tagged = InitTags /\ ever = InitTags /\ retags = 0 /\ faults = 0
  /\ distro \in Distros /\ endpoint \in {"", "https"}
  /\ \E l \in Launches : class = l.class /\ claim = l.claim
  /\ step = "options" /\ instanceType = NoObject
  /\ listing = FALSE /\ left = {} /\ count = [o \in Objects |-> 0]
  /\ kinds = NetworkKinds /\ networkRefs = {}
  /\ chosen = [l \in Lookups |-> NoObject]
  /\ devices = [remove |-> {}, disk |-> 0]
  /\ userData = NoObject /\ machine = NoObject

Fault == faults < MaxFaults /\ faults' = faults + 1
NoFault == UNCHANGED faults

\* No flag sets options.KubeVersion.
KubeVersion == ""

\* Options.Validate, when the process starts: rke2 requires a version.
Validate ==
  LET invalid == endpoint = "" \/ (distro = "rke2" /\ KubeVersion = "") IN
  /\ step = "options"
  /\ step' = IF invalid THEN "rejected" ELSE "types"
  /\ UNCHANGED <<inventory, inputs, faults, instanceType, lookup, chosen, devices, userData, machine>>

\* CloudProvider.Create, and the instance provider, which takes the first of
\* the suitable types.  A panic fails the call; without a type core is told to
\* give the claim up.
ChooseInstanceType ==
  LET types == InstanceTypesFromNodeClass(class.types, class.diskSize)
      fitting == ResolveInstanceTypes(claim, types)
  IN
  /\ step = "types"
  /\ \/ Panics(class.types) /\ step' = "failed" /\ UNCHANGED instanceType
     \/ /\ ~ Panics(class.types) /\ fitting = {}
        /\ step' = "refused" /\ UNCHANGED instanceType
     \/ /\ ~ Panics(class.types) /\ step' = "userData"
        /\ \E i \in fitting :
             (\A j \in fitting : i <= j) /\ instanceType' = types[i]
  /\ UNCHANGED <<inventory, inputs, faults, lookup, chosen, devices, userData, machine>>

\* GetInitData, at the start of DefaultProvider.Create.
PrepareUserData ==
  /\ step = "userData"
  /\ \/ InitDataFails(distro, class.format) /\ step' = "failed" /\ UNCHANGED userData
     \/ /\ ~ InitDataFails(distro, class.format)
        /\ step' = "image"
        /\ userData' = GetInitData(distro, class.format, class.additional)
  /\ UNCHANGED <<inventory, inputs, faults, instanceType, lookup, chosen, devices, machine>>

(* Lookups ----------------------------------------------------------------*)

SelectorOf(l) == IF l = "deviceImage" THEN class.image ELSE class[l]
Selector == SelectorOf(step)

\* The managed object type that a lookup by tags asks for.
WantedKind ==
  CASE step \in {"image", "deviceImage"} -> "VirtualMachine"
    [] step = "pool" -> "ClusterComputeResource"
    [] step = "datastore" -> "Datastore"
    [] step = "network" -> Head(kinds)

KindsOf(l) ==
  CASE l \in {"image", "deviceImage"} -> {"VirtualMachine"}
    [] l = "pool" -> {"ClusterComputeResource"}
    [] l = "datastore" -> {"Datastore"}
    [] l = "network" -> ToSet(NetworkKinds)

\* Mutant of EndLookup: the counts of one lookup go into the next.
MutantCountKept == listing' = FALSE /\ left' = {} /\ UNCHANGED count

EndLookup == listing' = FALSE /\ left' = {} /\ count' = [o \in Objects |-> 0]

Select(o) ==
  /\ EndLookup /\ UNCHANGED <<kinds, networkRefs>>
  /\ chosen' = [chosen EXCEPT ![step] = o]
  /\ step' = Following[step]

Refuse ==
  EndLookup /\ step' = "failed" /\ UNCHANGED <<kinds, networkRefs, chosen>>

\* Mutant of NoMatch: NetworkByTag returns the first error.
MutantNetworkGivesUp == Refuse

\* getObjectByTag returns an error; NetworkByTag goes on to the next kind.
NoMatch ==
  IF step = "network"
  THEN EndLookup /\ kinds' = Tail(kinds) /\ UNCHANGED <<step, networkRefs, chosen>>
  ELSE Refuse

\* Resolve* and getTagID: tags come before the name, and each must exist.
StartLookup ==
  /\ step \in Lookups /\ ~ listing /\ Selector.tags # {}
  /\ step = "network" => kinds # <<>>
  /\ \/ /\ Selector.tags \subseteq KnownTags /\ NoFault
        /\ listing' = TRUE /\ left' = Selector.tags
        /\ UNCHANGED <<step, count, kinds, networkRefs, chosen>>
     \/ ~ (Selector.tags \subseteq KnownTags) /\ NoFault /\ NoMatch
     \/ Fault /\ NoMatch
  /\ UNCHANGED <<inventory, inputs, instanceType, devices, userData, machine>>

\* getObjectByType: the objects of one tag, in any order of the tags.
ListAttachedObjects ==
  /\ listing
  /\ \E t \in left :
       \/ /\ left' = left \ {t} /\ NoFault
          /\ count' = [o \in Objects |->
                         count[o] + IF t \in tagged[o] /\ Kind[o] = WantedKind THEN 1 ELSE 0]
          /\ UNCHANGED <<step, listing, kinds, networkRefs, chosen>>
       \/ Fault /\ NoMatch
  /\ UNCHANGED <<inventory, inputs, instanceType, devices, userData, machine>>

\* Mutant of Matching: an object with some of the tags will do.
MutantMatchingAny == { o \in Objects : count[o] > 0 }

Matching == { o \in Objects : count[o] = Cardinality(Selector.tags) }

\* ImageByTag, PoolByTag, DatastoreByTag, NetworkByTag with an object found.
Accept(o) ==
  \/ /\ step \in {"image", "deviceImage"}
     /\ \/ NoFault /\ o \in Templates /\ Select(o)
        \/ NoFault /\ o \notin Templates /\ Refuse
        \/ Fault /\ Refuse
  \/ /\ step = "pool"
     /\ (NoFault /\ Select(o)) \/ (Fault /\ Refuse)
  \/ step = "datastore" /\ NoFault /\ Select(o)
  \/ /\ step = "network" /\ NoFault /\ EndLookup
     /\ networkRefs' = networkRefs \cup {o} /\ kinds' = Tail(kinds)
     /\ UNCHANGED <<step, chosen>>

\* getObjectByType returns the first match in map order.
FinishLookup ==
  /\ listing /\ left = {}
  /\ \/ \E o \in Matching : Accept(o)
     \/ Matching = {} /\ NoFault /\ NoMatch
  /\ UNCHANGED <<inventory, inputs, instanceType, devices, userData, machine>>

\* Mutant of FinishNetwork: the first network wins.
MutantFirstNetwork ==
  /\ step = "network" /\ kinds = <<>> /\ NoFault
  /\ IF networkRefs = {} THEN Refuse ELSE \E o \in networkRefs : Select(o)
  /\ UNCHANGED <<inventory, inputs, instanceType, devices, userData, machine>>

\* NetworkByTag after its loop: "multiple networks found" is an error.
FinishNetwork ==
  /\ step = "network" /\ kinds = <<>> /\ NoFault
  /\ \/ \E o \in Objects : networkRefs = {o} /\ Select(o)
     \/ Cardinality(networkRefs) # 1 /\ Refuse
  /\ UNCHANGED <<inventory, inputs, instanceType, devices, userData, machine>>

\* *ByName fail unless one object matches; ImageByPattern takes the first of
\* the list, template or not.
LookupByName ==
  LET hits == { o \in Objects : Kind[o] \in KindsOf(step) /\ Selector.name \in Patterns[o] }
  IN
  /\ step \in Lookups /\ Selector.tags = {}
  /\ \/ /\ NoFault
        /\ step \notin {"image", "deviceImage"} => Cardinality(hits) = 1
        /\ \E o \in hits : Select(o)
     \/ /\ NoFault /\ Refuse
        /\ hits = {} \/ (step \notin {"image", "deviceImage"} /\ Cardinality(hits) > 1)
     \/ Fault /\ Refuse
  /\ UNCHANGED <<inventory, inputs, instanceType, devices, userData, machine>>

(* Devices and clone ------------------------------------------------------*)

GiToKb(size) == size * 1024 * 1024

TooSmall == -1

\* Mutant of GetDiskConfigSpec: a size below the template's is ignored.
MutantDiskClamped(capacity, requested) == IF requested > capacity THEN requested ELSE capacity

\* getDiskConfigSpec: the capacity of the clone's primary disk.
GetDiskConfigSpec(capacity, requested) ==
  IF requested <= 0 THEN capacity
  ELSE IF requested >= capacity THEN requested
  ELSE TooSmall

\* EthernetCardBackingInfo: a switch has none.
HasBacking(o) == Kind[o] # "DistributedVirtualSwitch"

\* GetDeviceSpec after its lookups: the primary disk and the network cards.
GetDeviceSpec ==
  LET image == chosen["deviceImage"]
      disk == GetDiskConfigSpec(Head(Disks[image]), GiToKb(class.diskSize))
      fails == Disks[image] = <<>> \/ disk = TooSmall \/ ~ HasBacking(chosen["network"])
  IN
  /\ step = "devices"
  /\ \/ fails /\ NoFault /\ step' = "failed" /\ UNCHANGED devices
     \/ /\ ~ fails /\ NoFault
        /\ devices' = [remove |-> Nics[image], disk |-> disk]
        /\ step' = "clone"
     \/ Fault /\ step' = "failed" /\ UNCHANGED devices
  /\ UNCHANGED <<inventory, inputs, instanceType, lookup, chosen, userData, machine>>

\* ResolveFolder and the clone task, which refuses to remove a device that
\* the image does not have and to shrink its disk.
CloneImage ==
  LET image == chosen["image"]
      fits == /\ devices.remove \subseteq Nics[image]
              /\ Disks[image] # <<>> /\ devices.disk >= Head(Disks[image])
  IN
  /\ step = "clone"
  /\ \/ /\ fits /\ NoFault /\ step' = "cloned"
        /\ machine' = [image |-> image, pool |-> chosen["pool"],
                       datastore |-> chosen["datastore"], network |-> chosen["network"],
                       oldNics |-> Nics[image] \ devices.remove,
                       disk |-> devices.disk, guestinfo |-> userData,
                       numCPUs |-> NumCPUs(instanceType), memoryMB |-> MemoryMB(instanceType)]
     \/ ~ fits /\ NoFault /\ step' = "failed" /\ UNCHANGED machine
     \/ Fault /\ step' = "failed" /\ UNCHANGED machine
  /\ UNCHANGED <<inventory, inputs, instanceType, lookup, chosen, devices, userData>>

\* A user attaches a tag to an object or detaches it.
Retag ==
  /\ retags < MaxRetags /\ retags' = retags + 1
  /\ step \in Lookups
  /\ \E o \in Objects, t \in KnownTags :
       tagged' = [tagged EXCEPT ![o] = IF t \in @ THEN @ \ {t} ELSE @ \cup {t}]
  /\ ever' = [o \in Objects |-> ever[o] \cup tagged'[o]]
  /\ UNCHANGED <<faults, inputs, step, instanceType, lookup, chosen, devices, userData, machine>>

Next ==
  \/ Validate \/ ChooseInstanceType \/ PrepareUserData \/ StartLookup \/ ListAttachedObjects
  \/ FinishLookup \/ FinishNetwork \/ LookupByName \/ GetDeviceSpec \/ CloneImage \/ Retag

Spec == Init /\ [][Next]_vars

(* Properties -------------------------------------------------------------*)

\* The objects that a selector names, with the tags they have now.
Candidates(l) ==
  { o \in Objects :
      /\ Kind[o] \in KindsOf(l)
      /\ IF SelectorOf(l).tags # {} THEN SelectorOf(l).tags \subseteq tagged[o]
         ELSE SelectorOf(l).name \in Patterns[o] }

Undisturbed == faults = 0 /\ retags = 0

DiskAsRequested(o, disk) ==
  disk = IF class.diskSize > 0 THEN GiToKb(class.diskSize) ELSE Head(Disks[o])

\* Every variable stays within its type; no object is counted more often than
\* tags were listed.
TypeOK ==
  /\ tagged \in [Objects -> SUBSET KnownTags] /\ ever \in [Objects -> SUBSET KnownTags]
  /\ retags \in 0 .. MaxRetags /\ faults \in 0 .. MaxFaults
  /\ distro \in Distros /\ endpoint \in {"", "https"}
  /\ [class |-> class, claim |-> claim] \in Launches
  /\ step \in Lookups \cup {"options", "rejected", "types", "refused", "userData", "devices",
                          "clone", "cloned", "failed"}
  /\ step \in Lookups \cup {"userData", "devices", "clone", "cloned"} =>
       \E i \in DOMAIN class.types :
         instanceType = InstanceTypesFromNodeClass(class.types, class.diskSize)[i]
  /\ listing \in BOOLEAN /\ left \subseteq KnownTags
  /\ count \in [Objects -> 0 .. IF listing THEN Cardinality(Selector.tags \ left) ELSE 0]
  /\ Len(kinds) <= Len(NetworkKinds) /\ networkRefs \subseteq Objects
  /\ chosen \in [Lookups -> Objects \cup {NoObject}]
  /\ devices.remove \subseteq UNION { Nics[o] : o \in Objects }
  /\ IF step = "cloned" THEN machine \in Machines ELSE machine = NoObject

\* A machine is placed on objects of the right kind, an image selected by tags
\* being a template.  A lookup asks for one tag after another, while users change
\* tags: each tag of its selector was on the object at some time during the
\* launch, and with one change at most all of them were at the same time, before
\* it or after it (getObjectByType).  Two changes can make an object pass that
\* never had all its tags at once.
PlacementMatchesSpec ==
  machine # NoObject =>
    /\ \A l \in {"image", "pool", "datastore", "network"} :
         LET o == machine[l]
             tags == SelectorOf(l).tags
         IN /\ Kind[o] \in KindsOf(l)
            /\ tags = {} => SelectorOf(l).name \in Patterns[o]
            /\ tags \subseteq ever[o]
            /\ retags <= 1 => tags \subseteq InitTags[o] \/ tags \subseteq tagged[o]
    /\ class.image.tags # {} => machine.image \in Templates

\* A launch can succeed when the class is well-formed and offers a type for
\* the claim, each selector names one object and these are fit for use.
Launchable ==
  /\ ~ Panics(class.types)
  /\ ResolveInstanceTypes(claim, InstanceTypesFromNodeClass(class.types, class.diskSize)) # {}
  /\ ~ InitDataFails(distro, class.format)
  /\ \A l \in Lookups : Cardinality(Candidates(l)) = 1
  /\ \A o \in Candidates("network") : HasBacking(o)
  /\ \A o \in Candidates("image") :
       /\ o \in Templates /\ Disks[o] # <<>>
       /\ class.diskSize > 0 => GiToKb(class.diskSize) >= Head(Disks[o])

\* A launchable class is not refused while vCenter answers and nobody changes
\* tags: the kinds of network without a match do not end the lookup, and the
\* two lookups of the image fit together (Create).
LaunchableIsLaunched == Undisturbed /\ Launchable => step \notin {"failed", "refused"}

\* Networks of two kinds that match one selector are refused, not chosen
\* between (NetworkByTag), unless a failed call hides one of them.
AmbiguousNetworkRefused ==
  (machine # NoObject /\ Undisturbed /\ class.network.tags # {}) =>
    \A o, p \in Candidates("network") : Kind[o] = Kind[p]

\* When one image matches throughout, the device changes, computed from a
\* second lookup, fit the machine that is cloned from the first: no network
\* card of the template remains and the disk has the size that was asked for.
DevicesFitImage ==
  (machine # NoObject /\ retags = 0 /\ Cardinality(Candidates("image")) = 1) =>
    machine.oldNics = {} /\ DiskAsRequested(machine.image, machine.disk)

\* What the first-boot agent of the image reads.
BootData(m) == m.guestinfo[UserDataKey(class.format)].base64

\* The last file of its path is what the machine boots with.
Boots(cfg, file) ==
  \E i \in 1 .. Len(cfg.files) :
    cfg.files[i] = file /\ \A j \in i + 1 .. Len(cfg.files) : cfg.files[j][1] # file[1]

\* The machine joins the cluster and has the files and units of the additional
\* data, which may replace those of the distribution.  What ignition writes is
\* run by a unit.
Merged(cfg) ==
  LET add == class.additional.cfg IN
  /\ JoinConfig[1] \notin Paths(add) => Boots(cfg, JoinConfig)
  /\ \A f \in ToSet(add.files) : f \in ToSet(cfg.files)
  /\ class.format = Ignition => add.units \subseteq cfg.units
  /\ JoinScript \notin Paths(add) /\ JoinUnit[1] \notin UnitNames(add) =>
       \/ IsPrefix(Generate(distro).commands, cfg.commands)
       \/ Boots(cfg, <<JoinScript, Generate(distro).commands>>) /\ JoinUnit \in cfg.units

\* Additional user data that parses is merged with the distribution's: the
\* join configuration and its commands are kept, in order (Render).
UserDataComplete ==
  machine # NoObject /\ class.format \in class.additional.parses => Merged(BootData(machine))

\* A machine is large enough for the pods that the claim was made for: the
\* types are filtered by the quantities of the spec, but CPUs, memory and disk
\* of the machine come from other units and roundings (GenerateVMSpec,
\* GetDeviceSpec).
MachineHoldsRequests ==
  machine # NoObject =>
    /\ claim.requests.cpu <= machine.numCPUs * 1000
    /\ claim.requests.memory <= machine.memoryMB * Bytes64InMiB
    /\ claim.requests.storage <= machine.disk * Bytes64InKiB

(* What documentation and comments say, and the code does not do ------------------*)

\* "extra init data to be merged with distribution specific": also when the
\* extra data is malformed no machine starts without the join data.
UserDataMerged == machine # NoObject => Merged(BootData(machine))

\* "Remove any existing NICs".
NoTemplateNics == machine # NoObject => machine.oldNics = {}
=============================================================================
