---------------------- MODULE LaunchPreparationProofs -----------------------
(***************************************************************************)
(* Proofs about LaunchPreparation, for every inventory, every class and    *)
(* claim, and any number of edits of tags and of failed calls.             *)
(***************************************************************************)
EXTENDS LaunchPreparation, FiniteSetTheorems, TLAPS

(* The invariant ----------------------------------------------------------*)

Offered == InstanceTypesFromNodeClass(class.types, class.diskSize)

Early == {"options", "types", "userData", "image", "pool", "datastore", "deviceImage"}
Late == {"devices", "clone", "cloned"}

AllSteps ==
  Lookups \cup Late \cup {"options", "rejected", "types", "refused", "userData", "failed"}

\* The lookups that have their result in step s.
Resolved(s) ==
  CASE s = "pool" -> {"image"}
    [] s = "datastore" -> {"image", "pool"}
    [] s = "deviceImage" -> {"image", "pool", "datastore"}
    [] s = "network" -> {"image", "pool", "datastore", "deviceImage"}
    [] s \in Late -> Lookups
    [] OTHER -> {}

\* The variables that lookups and users change.
LookupTypes ==
  /\ tagged \in [Objects -> SUBSET KnownTags] /\ ever \in [Objects -> SUBSET KnownTags]
  /\ \A o \in Objects : tagged[o] \subseteq ever[o]
  /\ retags \in 0 .. MaxRetags /\ faults \in 0 .. MaxFaults
  /\ retags = 0 => tagged = ever /\ ever = InitTags
  /\ retags <= 1 => \A o \in Objects : ever[o] \in {InitTags[o], tagged[o]}
  /\ step \in AllSteps
  /\ listing \in BOOLEAN
  /\ kinds \in Seq(ToSet(NetworkKinds)) /\ Len(kinds) <= Len(NetworkKinds)
  /\ networkRefs \subseteq Objects
  /\ chosen \in [Lookups -> Objects \cup {NoObject}]

\* A lookup by tags that is under way, and how often it has counted an object:
\* at most once for each listed tag that the object has ever had.
ListingInv ==
  /\ listing =>
       /\ step \in Lookups /\ Selector.tags # {} /\ Selector.tags \subseteq KnownTags
       /\ step = "network" => kinds # <<>>
       /\ left \subseteq Selector.tags
       /\ count \in [Objects -> Nat]
       /\ \A o \in Objects :
            /\ count[o] <= Cardinality((Selector.tags \ left) \cap ever[o])
            /\ count[o] > 0 => Kind[o] = WantedKind
  /\ ~ listing => left = {} /\ count = [o \in Objects |-> 0]

\* The object may be the result of lookup l.
Placed(l, o) ==
  /\ o \in Objects /\ Kind[o] \in KindsOf(l)
  /\ IF SelectorOf(l).tags # {} THEN SelectorOf(l).tags \subseteq ever[o]
     ELSE SelectorOf(l).name \in Patterns[o]
  /\ l \in {"image", "deviceImage"} /\ SelectorOf(l).tags # {} => o \in Templates

PlacedInv ==
  /\ \A l \in Resolved(step) : Placed(l, chosen[l])
  /\ step = "network" => \A o \in networkRefs : Placed("network", o)
  /\ step \in Early \/ (step = "network" /\ class.network.tags = {}) =>
       kinds = NetworkKinds /\ networkRefs = {}

LookupInv == LookupTypes /\ ListingInv /\ PlacedInv

\* What is launched comes from the class and the claim.
InputInv ==
  /\ distro \in Distros /\ endpoint \in {"", "https"}
  /\ [class |-> class, claim |-> claim] \in Launches
  /\ step \in Lookups \cup Late \cup {"userData"} =>
       /\ ~ Panics(class.types)
       /\ \E i \in ResolveInstanceTypes(claim, Offered) : instanceType = Offered[i]
  /\ step \in Lookups \cup Late =>
       userData = GetInitData(distro, class.format, class.additional)

DevicesInv ==
  /\ devices.remove \subseteq UNION { Nics[o] : o \in Objects }
  /\ step \in {"clone", "cloned"} =>
       LET image == chosen["deviceImage"] IN
       /\ devices.remove = Nics[image]
       /\ Disks[image] # <<>> /\ devices.disk # TooSmall
       /\ devices.disk = GetDiskConfigSpec(Head(Disks[image]), GiToKb(class.diskSize))

MachineInv ==
  /\ machine # NoObject => step = "cloned"
  /\ step = "cloned" =>
       machine = [image |-> chosen["image"], pool |-> chosen["pool"],
                  datastore |-> chosen["datastore"], network |-> chosen["network"],
                  oldNics |-> Nics[chosen["image"]] \ devices.remove,
                  disk |-> devices.disk, guestinfo |-> userData,
                  numCPUs |-> NumCPUs(instanceType), memoryMB |-> MemoryMB(instanceType)]

PrepInv == LookupInv /\ InputInv /\ DevicesInv /\ MachineInv

\* As long as nobody changes tags, a lookup counts every tag of a candidate.
QuietInv ==
  retags = 0 /\ listing =>
    \A o \in Candidates(step) :
      Kind[o] = WantedKind => count[o] = Cardinality(Selector.tags \ left)

\* Without a failed call either, each kind of network that has candidates and
\* was looked up has one of them among the networks found.
NetworkInv ==
  Undisturbed /\ class.network.tags # {} =>
    /\ step = "network" =>
         \A o \in Candidates("network") :
           Kind[o] \in ToSet(kinds) \/ \E r \in networkRefs : Kind[r] = Kind[o]
    /\ step \in Late => \A o \in Candidates("network") : Kind[o] = Kind[chosen["network"]]

UndisturbedInv == PrepInv /\ QuietInv /\ NetworkInv /\ LaunchableIsLaunched

(* Counting ---------------------------------------------------------------*)

LEMMA LargerCount ==
  ASSUME NEW S, NEW T, IsFiniteSet(T), S \subseteq T
  PROVE  Cardinality(S) <= Cardinality(T) /\ Cardinality(S) \in Nat /\ Cardinality(T) \in Nat
BY FS_Subset, FS_CardinalityType

LEMMA OneMore ==
  ASSUME NEW S, IsFiniteSet(S), NEW t, t \notin S
  PROVE  Cardinality(S \cup {t}) = Cardinality(S) + 1
BY FS_AddElement

\* An object that was counted for every tag has had every tag.
LEMMA AllCounted ==
  ASSUME NEW T, IsFiniteSet(T), NEW E, Cardinality(T) <= Cardinality(T \cap E)
  PROVE  T \subseteq E
<1>1. IsFiniteSet(T \cap E) /\ T \cap E \subseteq T
  BY FS_Subset
<1>2. SUFFICES ASSUME T \cap E # T PROVE FALSE
  BY <1>1
<1>3. Cardinality(T \cap E) \in Nat /\ Cardinality(T) \in Nat
  BY <1>1, FS_CardinalityType
<1>4. Cardinality(T \cap E) <= Cardinality(T)
  BY <1>1, FS_Subset
<1>5. Cardinality(T \cap E) = Cardinality(T)
  BY <1>3, <1>4
<1>6. QED
  BY <1>1, <1>2, <1>5, FS_Subset

(* Lookups ----------------------------------------------------------------*)

LEMMA KindNames ==
  ToSet(NetworkKinds) = {"Network", "DistributedVirtualSwitch", "DistributedVirtualPortgroup",
                         "OpaqueNetwork"}
BY DEF ToSet, NetworkKinds

\* What every step of a lookup leaves alone.
Frame ==
  /\ UNCHANGED <<inventory, inputs, instanceType, devices, userData, machine>>
  /\ Fault \/ UNCHANGED faults

LEMMA FaultsTyped ==
  ASSUME faults \in 0 .. MaxFaults, Fault \/ UNCHANGED faults
  PROVE  /\ faults' \in 0 .. MaxFaults
         /\ faults' = 0 => faults = 0 /\ ~ Fault
<1>1. faults' \in 0 .. MaxFaults
  BY PreparationBounds DEF Fault
<1>2. faults + 1 # 0
  OBVIOUS
<1>3. QED
  BY <1>1, <1>2 DEF Fault

LEMMA ListingEnds ==
  ASSUME EndLookup
  PROVE  ListingInv'
BY DEF EndLookup, ListingInv

\* A lookup ends with an object that may be its result.
LEMMA SelectKeeps ==
  ASSUME LookupInv, step \in Lookups, NEW o, Placed(step, o), Select(o), Frame
  PROVE  LookupInv'
<1>1. /\ UNCHANGED <<tagged, ever, retags, class, kinds, networkRefs>>
      /\ chosen' = [chosen EXCEPT ![step] = o] /\ step' = Following[step]
      /\ listing' = FALSE
  BY DEF Select, Frame, EndLookup, inventory, inputs
<1>2. o \in Objects
  BY DEF Placed
<1>3. chosen \in [Lookups -> Objects \cup {NoObject}]
  BY DEF LookupInv, LookupTypes
<1>4. chosen'[step] = o /\ \A l \in Lookups : l # step => chosen'[l] = chosen[l]
  BY <1>1, <1>3
<1>5. LookupTypes'
  <2>1. chosen' \in [Lookups -> Objects \cup {NoObject}]
    BY <1>1, <1>2, <1>3
  <2>2. step' \in AllSteps
    BY <1>1 DEF AllSteps, Late, Following, Lookups
  <2>3. faults' \in 0 .. MaxFaults
    BY FaultsTyped DEF LookupInv, LookupTypes, Frame
  <2>4. QED
    BY <1>1, <2>1, <2>2, <2>3 DEF LookupInv, LookupTypes
<1>6. ListingInv'
  BY ListingEnds DEF Select
<1>7. Resolved(step') = Resolved(step) \cup {step}
  BY <1>1 DEF Resolved, Lookups, Late, Following
<1>8. Resolved(step) \subseteq Lookups
  BY DEF Resolved, Lookups, Late
<1>9. ASSUME NEW l \in Resolved(step') PROVE Placed(l, chosen[l])'
  <2>1. CASE l = step
    BY <1>1, <1>4, <2>1 DEF Placed, SelectorOf
  <2>2. CASE l # step
    <3>1. l \in Resolved(step) /\ l \in Lookups
      BY <1>7, <1>8, <1>9, <2>2
    <3>2. Placed(l, chosen[l]) /\ chosen'[l] = chosen[l]
      BY <1>4, <2>2, <3>1 DEF LookupInv, PlacedInv
    <3>3. QED
      BY <1>1, <3>2 DEF Placed, SelectorOf
  <2>3. QED
    BY <2>1, <2>2
<1>10. step' \in Early \cup {"network"} => step \in Early
  BY <1>1 DEF Following, Lookups, Early
<1>11. kinds' = kinds /\ networkRefs' = networkRefs
  BY <1>1
<1>12. step' \in Early \cup {"network"} => kinds' = NetworkKinds /\ networkRefs' = {}
  BY <1>10, <1>11 DEF LookupInv, PlacedInv
<1>13. PlacedInv'
  BY <1>9, <1>12 DEF PlacedInv
<1>14. QED
  BY <1>5, <1>6, <1>13 DEF LookupInv

\* A lookup ends with an error.
LEMMA RefuseKeeps ==
  ASSUME LookupInv, Refuse, Frame
  PROVE  LookupInv'
<1>1. UNCHANGED <<tagged, ever, retags, kinds, networkRefs, chosen>> /\ step' = "failed" /\ listing' = FALSE
  BY DEF Refuse, Frame, EndLookup, inventory
<1>2. LookupTypes'
  BY <1>1, FaultsTyped DEF LookupInv, LookupTypes, Frame, AllSteps
<1>3. ListingInv'
  BY ListingEnds DEF Refuse
<1>4. PlacedInv'
  BY <1>1 DEF PlacedInv, Resolved, Late, Early, Lookups
<1>5. QED
  BY <1>2, <1>3, <1>4 DEF LookupInv

\* The lookup of a network goes on to the next kind.
LEMMA NextKindKeeps ==
  ASSUME LookupInv, step = "network", class.network.tags # {}, kinds # <<>>, Frame,
         EndLookup, kinds' = Tail(kinds), UNCHANGED <<step, chosen>>,
         \A o \in networkRefs' : o \in networkRefs \/ Placed("network", o)
  PROVE  LookupInv'
<1>1. UNCHANGED <<tagged, ever, retags, class>> /\ listing' = FALSE
  BY DEF Frame, inventory, inputs, EndLookup
<1>2. kinds \in Seq(ToSet(NetworkKinds)) /\ Len(kinds) <= 4 /\ Len(NetworkKinds) = 4
  BY DEF LookupInv, LookupTypes, NetworkKinds
<1>3. kinds' \in Seq(ToSet(NetworkKinds)) /\ Len(kinds') <= 4
  BY <1>2
<1>4. networkRefs' \subseteq Objects
  BY DEF Placed, LookupInv, LookupTypes
<1>5. LookupTypes'
  <2>1. faults' \in 0 .. MaxFaults
    BY FaultsTyped DEF LookupInv, LookupTypes, Frame
  <2>2. QED
    BY <1>1, <1>2, <1>3, <1>4, <2>1 DEF LookupInv, LookupTypes
<1>6. ListingInv'
  BY ListingEnds
<1>7. PlacedInv'
  <2>1. \A l \in Resolved(step') : Placed(l, chosen[l])'
    BY <1>1 DEF LookupInv, PlacedInv, Placed, SelectorOf
  <2>2. \A o \in networkRefs' : Placed("network", o)
    BY DEF LookupInv, PlacedInv
  <2>3. \A o \in networkRefs' : Placed("network", o)'
    BY <1>1, <2>2 DEF Placed, SelectorOf
  <2>4. step' \notin Early /\ class'.network.tags # {}
    BY <1>1 DEF Early
  <2>5. QED
    BY <2>1, <2>3, <2>4 DEF PlacedInv
<1>8. QED
  BY <1>5, <1>6, <1>7 DEF LookupInv

LEMMA NoMatchKeeps ==
  ASSUME LookupInv, step \in Lookups, Selector.tags # {}, step = "network" => kinds # <<>>, Frame,
         NoMatch
  PROVE  LookupInv'
<1>1. CASE step = "network"
  <2>1. class.network.tags # {}
    BY <1>1 DEF Selector, SelectorOf
  <2>2. EndLookup /\ kinds' = Tail(kinds) /\ UNCHANGED <<step, networkRefs, chosen>>
    BY <1>1 DEF NoMatch
  <2>3. QED
    BY <1>1, <2>1, <2>2, NextKindKeeps
<1>2. CASE step # "network"
  BY <1>2, RefuseKeeps DEF NoMatch
<1>3. QED
  BY <1>1, <1>2

\* Nothing of what LookupInv speaks about changes but the step.
LEMMA LookupStands ==
  ASSUME LookupInv, step \notin Lookups, ~ listing, step' \in AllSteps,
         UNCHANGED <<tagged, ever, retags, class, lookup, chosen>>, Fault \/ UNCHANGED faults,
         Resolved(step') \subseteq Resolved(step),
         step' \in Early => step \in Early, step' # "network"
  PROVE  LookupInv'
<1>1. UNCHANGED <<listing, left, count, kinds, networkRefs>>
  BY DEF lookup
<1>2. LookupTypes'
  <2>1. faults' \in 0 .. MaxFaults
    BY FaultsTyped DEF LookupInv, LookupTypes
  <2>2. QED
    BY <1>1, <2>1 DEF LookupInv, LookupTypes
<1>3. ListingInv'
  BY <1>1 DEF LookupInv, ListingInv
<1>4. \A l \in Resolved(step') : Placed(l, chosen[l])'
  <2>1. \A l \in Resolved(step') : Placed(l, chosen[l])
    BY DEF LookupInv, PlacedInv
  <2>2. QED
    BY <2>1 DEF Placed, SelectorOf
<1>5. PlacedInv'
  BY <1>1, <1>4 DEF LookupInv, PlacedInv
<1>6. QED
  BY <1>2, <1>3, <1>5 DEF LookupInv

LEMMA StartKeeps ==
  ASSUME LookupInv, StartLookup
  PROVE  LookupInv'
<1>1. Frame /\ step \in Lookups /\ ~ listing /\ Selector.tags # {} /\ (step = "network" => kinds # <<>>)
  BY DEF StartLookup, Frame, NoFault
<1>2. CASE NoMatch
  BY <1>1, <1>2, NoMatchKeeps
<1>3. CASE /\ Selector.tags \subseteq KnownTags /\ NoFault
           /\ listing' = TRUE /\ left' = Selector.tags
           /\ UNCHANGED <<step, count, kinds, networkRefs, chosen>>
  <2>1. UNCHANGED <<tagged, ever, retags, class, faults>>
    BY <1>1, <1>3 DEF Frame, NoFault, inventory, inputs
  <2>2. LookupTypes'
    BY <1>3, <2>1 DEF LookupInv, LookupTypes
  <2>3. Selector' = Selector /\ WantedKind' = WantedKind
    BY <1>3, <2>1 DEF Selector, SelectorOf, WantedKind
  <2>4. count' = [o \in Objects |-> 0]
    BY <1>1, <1>3 DEF LookupInv, ListingInv
  <2>5. ListingInv'
    <3>1. Cardinality({}) = 0
      BY FS_EmptySet
    <3>2. \A o \in Objects : (Selector.tags \ left') \cap ever'[o] = {}
      BY <1>3
    <3>3. \A o \in Objects : count'[o] = 0 /\ 0 <= 0 /\ ~ (0 > 0)
      BY <2>4
    <3>4. count' \in [Objects -> Nat]
      BY <2>4
    <3>5. QED
      BY <1>1, <1>3, <2>3, <3>1, <3>2, <3>3, <3>4 DEF ListingInv
  <2>6. PlacedInv'
    BY <1>3, <2>1 DEF LookupInv, PlacedInv, Placed, SelectorOf
  <2>7. QED
    BY <2>2, <2>5, <2>6 DEF LookupInv
<1>4. QED
  BY <1>2, <1>3 DEF StartLookup

\* A tag is listed: its objects of the wanted kind have it now, and so are
\* counted for one tag more that they have had.
LEMMA ListKeeps ==
  ASSUME LookupInv, ListAttachedObjects
  PROVE  LookupInv'
<1>1. Frame /\ listing
  BY DEF ListAttachedObjects, Frame, NoFault
<1>2. step \in Lookups /\ Selector.tags # {} /\ (step = "network" => kinds # <<>>)
  BY <1>1 DEF LookupInv, ListingInv
<1>3. PICK t \in left :
       \/ /\ left' = left \ {t} /\ NoFault
          /\ count' = [o \in Objects |->
                         count[o] + IF t \in tagged[o] /\ Kind[o] = WantedKind THEN 1 ELSE 0]
          /\ UNCHANGED <<step, listing, kinds, networkRefs, chosen>>
       \/ Fault /\ NoMatch
  BY DEF ListAttachedObjects
<1>4. CASE NoMatch
  BY <1>1, <1>2, <1>4, NoMatchKeeps
<1>5. CASE /\ left' = left \ {t} /\ NoFault
           /\ count' = [o \in Objects |->
                         count[o] + IF t \in tagged[o] /\ Kind[o] = WantedKind THEN 1 ELSE 0]
           /\ UNCHANGED <<step, listing, kinds, networkRefs, chosen>>
  <2>1. UNCHANGED <<tagged, ever, retags, class, faults>>
    BY <1>1, <1>5 DEF Frame, NoFault, inventory, inputs
  <2>2. LookupTypes'
    BY <1>5, <2>1 DEF LookupInv, LookupTypes
  <2>3. Selector' = Selector /\ WantedKind' = WantedKind
    BY <1>5, <2>1 DEF Selector, SelectorOf, WantedKind
  <2>4. /\ Selector.tags \subseteq KnownTags /\ left \subseteq Selector.tags
        /\ count \in [Objects -> Nat]
    BY <1>1 DEF LookupInv, ListingInv
  <2>5. \A o \in Objects : tagged[o] \subseteq ever[o]
    BY DEF LookupInv, LookupTypes
  <2>6. IsFiniteSet(Selector.tags)
    BY <2>4, InventoryConstants, FS_Subset
  <2>7. count' \in [Objects -> Nat]
    BY <1>5, <2>4
  <2>8. ASSUME NEW o \in Objects
        PROVE  /\ count'[o] <= Cardinality((Selector.tags \ left') \cap ever[o])
               /\ count'[o] > 0 => Kind[o] = WantedKind
    <3> DEFINE Old == (Selector.tags \ left) \cap ever[o]
               New == (Selector.tags \ left') \cap ever[o]
    <3>1. Old \subseteq Selector.tags /\ New \subseteq Selector.tags /\ Old \subseteq New
      BY <1>5
    <3>2. IsFiniteSet(Old) /\ IsFiniteSet(New)
      BY <2>6, <3>1, FS_Subset
    <3>3. Cardinality(Old) <= Cardinality(New) /\ Cardinality(Old) \in Nat /\ Cardinality(New) \in Nat
      BY <3>1, <3>2, LargerCount
    <3>4. count[o] <= Cardinality(Old) /\ count[o] \in Nat /\ (count[o] > 0 => Kind[o] = WantedKind)
      BY <1>1, <2>4 DEF LookupInv, ListingInv
    <3>5. CASE t \in tagged[o] /\ Kind[o] = WantedKind
      <4>1. count'[o] = count[o] + 1
        BY <1>5, <3>5
      <4>2. New = Old \cup {t} /\ t \notin Old
        BY <1>3, <1>5, <2>4, <2>5, <3>5
      <4>3. Cardinality(New) = Cardinality(Old) + 1
        BY <3>2, <4>2, OneMore
      <4>4. QED
        BY <3>3, <3>4, <3>5, <4>1, <4>3
    <3>6. CASE ~ (t \in tagged[o] /\ Kind[o] = WantedKind)
      <4>1. count'[o] = count[o]
        <5>1. count'[o] = count[o] + 0
          BY <1>5, <3>6
        <5>2. QED
          BY <3>4, <5>1
      <4>2. QED
        BY <3>3, <3>4, <4>1
    <3>7. QED
      BY <3>5, <3>6
  <2>9. ListingInv'
    BY <1>1, <1>2, <1>5, <2>1, <2>3, <2>4, <2>7, <2>8 DEF ListingInv
  <2>10. PlacedInv'
    BY <1>5, <2>1 DEF LookupInv, PlacedInv, Placed, SelectorOf
  <2>11. QED
    BY <2>2, <2>9, <2>10 DEF LookupInv
<1>6. QED
  BY <1>3, <1>4, <1>5

\* An object that was counted for every tag may be the result.
LEMMA MatchingPlaced ==
  ASSUME LookupInv, listing, left = {}, NEW o, o \in Matching
  PROVE  /\ o \in Objects /\ Kind[o] = WantedKind /\ Kind[o] \in KindsOf(step)
         /\ Selector.tags \subseteq ever[o]
<1>1. o \in Objects /\ count[o] = Cardinality(Selector.tags)
  BY DEF Matching
<1>2. /\ step \in Lookups /\ Selector.tags # {} /\ Selector.tags \subseteq KnownTags
      /\ step = "network" => kinds # <<>>
      /\ count[o] <= Cardinality((Selector.tags \ left) \cap ever[o])
      /\ count[o] > 0 => Kind[o] = WantedKind
  BY <1>1 DEF LookupInv, ListingInv
<1>3. IsFiniteSet(Selector.tags)
  BY <1>2, InventoryConstants, FS_Subset
<1>4. Selector.tags \ left = Selector.tags
  OBVIOUS
<1>5. Selector.tags \subseteq ever[o]
  BY <1>1, <1>2, <1>3, <1>4, AllCounted
<1>6. Cardinality(Selector.tags) \in Nat /\ Cardinality(Selector.tags) # 0
  BY <1>2, <1>3, FS_CardinalityType, FS_EmptySet
<1>7. Kind[o] = WantedKind
  BY <1>1, <1>2, <1>6
<1>8. WantedKind \in KindsOf(step)
  <2>1. kinds \in Seq(ToSet(NetworkKinds))
    BY DEF LookupInv, LookupTypes
  <2>2. step = "network" => Head(kinds) \in ToSet(NetworkKinds)
    BY <1>2, <2>1
  <2>3. QED
    BY <1>2, <2>2 DEF WantedKind, KindsOf, Lookups
<1>9. QED
  BY <1>1, <1>5, <1>7, <1>8

LEMMA FinishKeeps ==
  ASSUME LookupInv, FinishLookup
  PROVE  LookupInv'
<1>1. Frame /\ listing /\ left = {}
  BY DEF FinishLookup, Frame, Accept, NoFault
<1>2. step \in Lookups /\ Selector.tags # {} /\ (step = "network" => kinds # <<>>)
  BY <1>1 DEF LookupInv, ListingInv
<1>3. CASE NoMatch
  BY <1>1, <1>2, <1>3, NoMatchKeeps
<1>4. CASE \E o \in Matching : Accept(o)
  <2>1. PICK o \in Matching : Accept(o)
    BY <1>4
  <2>2. o \in Objects /\ Kind[o] \in KindsOf(step) /\ Selector.tags \subseteq ever[o]
    BY <1>1, MatchingPlaced
  <2>3. step \in {"image", "deviceImage"} => o \in Templates \/ Refuse
    BY <2>1 DEF Accept
  <2>4. Refuse \/ Placed(step, o)
    BY <1>2, <2>2, <2>3 DEF Placed, Selector
  <2>5. CASE Refuse
    BY <1>1, <2>5, RefuseKeeps
  <2>6. CASE Placed(step, o) /\ Select(o)
    BY <1>1, <1>2, <2>6, SelectKeeps
  <2>7. CASE /\ Placed(step, o) /\ step = "network" /\ EndLookup
             /\ networkRefs' = networkRefs \cup {o} /\ kinds' = Tail(kinds)
             /\ UNCHANGED <<step, chosen>>
    <3>1. class.network.tags # {}
      BY <1>2, <2>7 DEF Selector, SelectorOf
    <3>2. \A p \in networkRefs' : p \in networkRefs \/ Placed("network", p)
      BY <2>7
    <3>3. QED
      BY <1>1, <1>2, <2>7, <3>1, <3>2, NextKindKeeps
  <2>8. QED
    BY <2>1, <2>4, <2>5, <2>6, <2>7 DEF Accept
<1>5. QED
  BY <1>3, <1>4 DEF FinishLookup

LEMMA FinishNetworkKeeps ==
  ASSUME LookupInv, FinishNetwork
  PROVE  LookupInv'
<1>1. Frame /\ step = "network" /\ step \in Lookups
  BY DEF FinishNetwork, Frame, Lookups, NoFault
<1>2. CASE Refuse
  BY <1>1, <1>2, RefuseKeeps
<1>3. CASE \E o \in Objects : networkRefs = {o} /\ Select(o)
  <2>1. PICK o \in Objects : networkRefs = {o} /\ Select(o)
    BY <1>3
  <2>2. Placed(step, o)
    BY <1>1, <2>1 DEF LookupInv, PlacedInv
  <2>3. QED
    BY <1>1, <2>1, <2>2, SelectKeeps
<1>4. QED
  BY <1>2, <1>3 DEF FinishNetwork

LEMMA ByNameKeeps ==
  ASSUME LookupInv, LookupByName
  PROVE  LookupInv'
<1> DEFINE hits == { o \in Objects : Kind[o] \in KindsOf(step) /\ Selector.name \in Patterns[o] }
<1>1. Frame /\ step \in Lookups /\ Selector.tags = {}
  BY DEF LookupByName, Frame, NoFault
<1>2. CASE Refuse
  BY <1>1, <1>2, RefuseKeeps
<1>3. CASE \E o \in hits : Select(o)
  <2>1. PICK o \in hits : Select(o)
    BY <1>3
  <2>2. Placed(step, o)
    BY <1>1 DEF Placed, Selector
  <2>3. QED
    BY <1>1, <2>1, <2>2, SelectKeeps
<1>4. QED
  BY <1>2, <1>3 DEF LookupByName

\* Users change tags: what an object has had is not forgotten.
LEMMA RetagKeeps ==
  ASSUME LookupInv, Retag
  PROVE  LookupInv'
<1>1. /\ retags < MaxRetags /\ retags' = retags + 1 /\ step \in Lookups
      /\ UNCHANGED <<faults, class, step, listing, left, count, kinds, networkRefs, chosen>>
      /\ ever' = [o \in Objects |-> ever[o] \cup tagged'[o]]
  BY DEF Retag, inputs, lookup
<1>2. PICK p \in Objects, t \in KnownTags :
        tagged' = [tagged EXCEPT ![p] = IF t \in @ THEN @ \ {t} ELSE @ \cup {t}]
  BY DEF Retag
<1>3. tagged \in [Objects -> SUBSET KnownTags] /\ ever \in [Objects -> SUBSET KnownTags]
  BY DEF LookupInv, LookupTypes
<1>4. tagged' \in [Objects -> SUBSET KnownTags]
  BY <1>2, <1>3
<1>5. ever' \in [Objects -> SUBSET KnownTags]
  BY <1>1, <1>3, <1>4
<1>6. \A o \in Objects : ever[o] \subseteq ever'[o] /\ tagged'[o] \subseteq ever'[o]
  BY <1>1
<1>7. retags' \in 0 .. MaxRetags
  BY <1>1, PreparationBounds DEF LookupInv, LookupTypes
<1>8. retags' # 0
  BY <1>1 DEF LookupInv, LookupTypes
<1>15. ASSUME retags' <= 1, NEW o \in Objects PROVE ever'[o] \in {InitTags[o], tagged'[o]}
  <2>1. retags \in Nat
    BY PreparationBounds DEF LookupInv, LookupTypes
  <2>2. tagged = ever /\ ever = InitTags
    BY <1>1, <1>15, <2>1 DEF LookupInv, LookupTypes
  <2>3. ever'[o] = InitTags[o] \cup tagged'[o]
    BY <1>1, <2>2
  <2>4. tagged'[o] \subseteq InitTags[o] \/ InitTags[o] \subseteq tagged'[o]
    BY <1>2, <1>3, <2>2
  <2>5. QED
    BY <2>3, <2>4
<1>9. LookupTypes'
  BY <1>1, <1>4, <1>5, <1>6, <1>7, <1>8, <1>15 DEF LookupInv, LookupTypes
<1>10. Selector' = Selector /\ WantedKind' = WantedKind
  BY <1>1 DEF Selector, SelectorOf, WantedKind
<1>11. ASSUME listing PROVE ListingInv'
  <2>1. /\ Selector.tags # {} /\ Selector.tags \subseteq KnownTags
        /\ step = "network" => kinds # <<>>
        /\ left \subseteq Selector.tags /\ count \in [Objects -> Nat]
    BY <1>11 DEF LookupInv, ListingInv
  <2>2. ASSUME NEW o \in Objects
        PROVE  /\ count[o] <= Cardinality((Selector.tags \ left) \cap ever'[o])
               /\ count[o] > 0 => Kind[o] = WantedKind
    <3> DEFINE Old == (Selector.tags \ left) \cap ever[o]
               New == (Selector.tags \ left) \cap ever'[o]
    <3>1. Old \subseteq New /\ New \subseteq KnownTags
      BY <1>6, <2>1
    <3>2. IsFiniteSet(New)
      BY <3>1, InventoryConstants, FS_Subset
    <3>3. Cardinality(Old) <= Cardinality(New) /\ Cardinality(Old) \in Nat /\ Cardinality(New) \in Nat
      BY <3>1, <3>2, LargerCount
    <3>4. count[o] <= Cardinality(Old) /\ count[o] \in Nat /\ (count[o] > 0 => Kind[o] = WantedKind)
      BY <1>11, <2>1 DEF LookupInv, ListingInv
    <3>5. QED
      BY <3>3, <3>4
  <2>3. QED
    BY <1>1, <1>10, <1>11, <2>1, <2>2 DEF ListingInv
<1>12. ASSUME ~ listing PROVE ListingInv'
  BY <1>1, <1>12 DEF LookupInv, ListingInv
<1>13. PlacedInv'
  <2>1. \A l \in Resolved(step) : Placed(l, chosen[l])'
    BY <1>1, <1>6 DEF LookupInv, PlacedInv, Placed, SelectorOf
  <2>2. step = "network" => \A o \in networkRefs : Placed("network", o)'
    BY <1>1, <1>6 DEF LookupInv, PlacedInv, Placed, SelectorOf
  <2>3. QED
    BY <1>1, <2>1, <2>2 DEF LookupInv, PlacedInv
<1>14. QED
  BY <1>9, <1>11, <1>12, <1>13 DEF LookupInv

\* The steps of the lookups, and what users do meanwhile.
LookupNext ==
  \/ StartLookup \/ ListAttachedObjects \/ FinishLookup \/ FinishNetwork \/ LookupByName
  \/ Retag

LEMMA LookupSteps ==
  ASSUME LookupInv, LookupNext
  PROVE  /\ step \in Lookups /\ step' \in Lookups \cup {"devices", "failed"}
         /\ UNCHANGED <<inputs, instanceType, devices, userData, machine>>
<1>1. step \in Lookups
  BY DEF LookupInv, ListingInv, LookupNext, StartLookup, ListAttachedObjects, FinishLookup,
         FinishNetwork, LookupByName, Retag, Lookups
<1>2. NoMatch => step' \in {step, "failed"}
  BY DEF NoMatch, Refuse
<1>3. \A o : Select(o) => step' = Following[step]
  BY DEF Select
<1>4. Following[step] \in Lookups \cup {"devices"}
  BY <1>1 DEF Following, Lookups
<1>5. \A o : Accept(o) => step' \in {step, "failed", Following[step]}
  BY <1>3 DEF Accept, Refuse
<1>6. step' \in {step, "failed", Following[step]}
  <2>1. CASE StartLookup \/ ListAttachedObjects \/ FinishLookup
    BY <1>2, <1>5, <2>1 DEF StartLookup, ListAttachedObjects, FinishLookup
  <2>2. CASE FinishNetwork \/ LookupByName \/ Retag
    BY <1>3, <2>2 DEF FinishNetwork, LookupByName, Retag, Refuse
  <2>3. QED
    BY <2>1, <2>2 DEF LookupNext
<1>7. UNCHANGED <<inputs, instanceType, devices, userData, machine>>
  BY DEF LookupNext, StartLookup, ListAttachedObjects, FinishLookup, FinishNetwork,
         LookupByName, Retag
<1>8. QED
  BY <1>1, <1>4, <1>6, <1>7

LEMMA LookupNextKeeps ==
  ASSUME LookupInv, LookupNext
  PROVE  LookupInv'
BY StartKeeps, ListKeeps, FinishKeeps, FinishNetworkKeeps, ByNameKeeps, RetagKeeps
   DEF LookupNext

\* The steps before the lookups and after them.
OtherNext == Validate \/ ChooseInstanceType \/ PrepareUserData \/ GetDeviceSpec \/ CloneImage

LEMMA OtherNextKeeps ==
  ASSUME LookupInv, OtherNext
  PROVE  LookupInv'
<1>1. /\ Fault \/ UNCHANGED faults
      /\ \/ step = "options" /\ step' \in {"rejected", "types"}
         \/ step = "types" /\ step' \in {"failed", "refused", "userData"}
         \/ step = "userData" /\ step' \in {"failed", "image"}
         \/ step = "devices" /\ step' \in {"failed", "clone"}
         \/ step = "clone" /\ step' \in {"failed", "cloned"}
  BY DEF OtherNext, Validate, ChooseInstanceType, PrepareUserData, GetDeviceSpec, CloneImage,
         NoFault
<1>2. step \notin Lookups /\ step' \in AllSteps /\ step' # "network"
  BY <1>1 DEF Lookups, AllSteps, Late
<1>3. ~ listing
  BY <1>2 DEF LookupInv, ListingInv
<1>4. Resolved(step') \subseteq Resolved(step)
  BY <1>1 DEF Resolved, Late
<1>5. step' \in Early => step \in Early
  BY <1>1 DEF Early
<1>6. UNCHANGED <<tagged, ever, retags, class, lookup, chosen>>
  BY DEF OtherNext, Validate, ChooseInstanceType, PrepareUserData, GetDeviceSpec, CloneImage,
         inventory, inputs
<1>7. Fault \/ UNCHANGED faults
  BY <1>1
<1>8. QED
  BY <1>2, <1>3, <1>4, <1>5, <1>6, <1>7, LookupStands

LEMMA LookupInit == Init => LookupInv
<1> SUFFICES ASSUME Init PROVE LookupInv
  OBVIOUS
<1>1. kinds \in Seq(ToSet(NetworkKinds)) /\ Len(kinds) <= Len(NetworkKinds)
  <2>1. NetworkKinds \in Seq(ToSet(NetworkKinds)) /\ Len(NetworkKinds) <= Len(NetworkKinds)
    BY KindNames DEF NetworkKinds
  <2>2. kinds = NetworkKinds
    BY DEF Init
  <2>3. QED
    BY <2>1, <2>2
<1>2. LookupTypes
  <2>1. tagged = InitTags /\ ever = InitTags /\ retags = 0 /\ faults = 0
    BY DEF Init
  <2>2. step = "options" /\ listing = FALSE /\ networkRefs = {}
    BY DEF Init
  <2>3. chosen = [l \in Lookups |-> NoObject]
    BY DEF Init
  <2>4. tagged \in [Objects -> SUBSET KnownTags] /\ ever \in [Objects -> SUBSET KnownTags]
    BY <2>1, InventoryConstants
  <2>5. retags \in 0 .. MaxRetags /\ faults \in 0 .. MaxFaults
    BY <2>1, PreparationBounds
  <2>6. chosen \in [Lookups -> Objects \cup {NoObject}]
    BY <2>3
  <2>7. \A o \in Objects : ever[o] \in {InitTags[o], tagged[o]}
    BY <2>1
  <2>8. QED
    BY <1>1, <2>1, <2>2, <2>4, <2>5, <2>6, <2>7 DEF LookupTypes, AllSteps
<1>3. ListingInv
  BY DEF Init, ListingInv
<1>4. PlacedInv
  BY DEF Init, PlacedInv, Resolved, Late
<1>5. QED
  BY <1>2, <1>3, <1>4 DEF LookupInv

(* The whole launch -------------------------------------------------------*)

LEMMA PrepInit == Init => PrepInv
<1> SUFFICES ASSUME Init PROVE PrepInv
  OBVIOUS
<1>1. LookupInv
  BY LookupInit
<1>2. InputInv
  BY LaunchConstants DEF Init, InputInv, Lookups, Late
<1>3. DevicesInv /\ MachineInv
  BY DEF Init, DevicesInv, MachineInv
<1>4. QED
  BY <1>1, <1>2, <1>3 DEF PrepInv

LEMMA PrepLookupNext ==
  ASSUME PrepInv, LookupNext
  PROVE  PrepInv'
<1>1. LookupInv /\ InputInv /\ DevicesInv /\ MachineInv
  BY DEF PrepInv
<1>2. /\ step \in Lookups /\ step' \in Lookups \cup {"devices", "failed"}
      /\ UNCHANGED <<distro, endpoint, class, claim, instanceType, devices, userData, machine>>
  BY <1>1, LookupSteps DEF inputs
<1>3. LookupInv'
  BY <1>1, LookupNextKeeps
<1>4. InputInv'
  BY <1>1, <1>2 DEF InputInv, Offered
<1>5. step' \notin {"clone", "cloned"} /\ step # "cloned"
  BY <1>2 DEF Lookups
<1>6. DevicesInv' /\ MachineInv'
  BY <1>1, <1>2, <1>5 DEF DevicesInv, MachineInv
<1>7. QED
  BY <1>3, <1>4, <1>6 DEF PrepInv

LEMMA PrepOtherNext ==
  ASSUME PrepInv, OtherNext
  PROVE  PrepInv'
<1>1. LookupInv /\ InputInv /\ DevicesInv /\ MachineInv
  BY DEF PrepInv
<1>2. LookupInv'
  BY <1>1, OtherNextKeeps
<1>3. CASE Validate
  <2>1. /\ step = "options" /\ step' \in {"rejected", "types"}
        /\ UNCHANGED <<distro, endpoint, class, claim, instanceType, devices, userData, machine>>
    BY <1>3 DEF Validate, inputs
  <2>2. InputInv' /\ DevicesInv' /\ MachineInv'
    BY <1>1, <2>1 DEF InputInv, DevicesInv, MachineInv, Lookups, Late
  <2>3. QED
    BY <1>2, <2>2 DEF PrepInv
<1>4. CASE ChooseInstanceType
  <2>1. /\ step = "types" /\ step' \in {"failed", "refused", "userData"}
        /\ UNCHANGED <<distro, endpoint, class, claim, devices, userData, machine>>
    BY <1>4 DEF ChooseInstanceType, inputs
  <2>2. step' = "userData" =>
          /\ ~ Panics(class.types)
          /\ \E i \in ResolveInstanceTypes(claim, Offered) : instanceType' = Offered[i]
    BY <1>4 DEF ChooseInstanceType, Offered
  <2>3. InputInv'
    BY <1>1, <2>1, <2>2 DEF InputInv, Offered, Lookups, Late
  <2>4. DevicesInv' /\ MachineInv'
    BY <1>1, <2>1 DEF DevicesInv, MachineInv
  <2>5. QED
    BY <1>2, <2>3, <2>4 DEF PrepInv
<1>5. CASE PrepareUserData
  <2>1. /\ step = "userData" /\ step' \in {"failed", "image"}
        /\ UNCHANGED <<distro, endpoint, class, claim, instanceType, devices, machine>>
        /\ step' = "image" => userData' = GetInitData(distro, class.format, class.additional)
    BY <1>5 DEF PrepareUserData, inputs
  <2>2. InputInv'
    BY <1>1, <2>1 DEF InputInv, Offered, Lookups, Late
  <2>3. DevicesInv' /\ MachineInv'
    BY <1>1, <2>1 DEF DevicesInv, MachineInv
  <2>4. QED
    BY <1>2, <2>2, <2>3 DEF PrepInv
<1>6. CASE GetDeviceSpec
  <2> DEFINE image == chosen["deviceImage"]
             disk == GetDiskConfigSpec(Head(Disks[image]), GiToKb(class.diskSize))
  <2>1. /\ step = "devices" /\ step' \in {"failed", "clone"}
        /\ UNCHANGED <<distro, endpoint, class, claim, instanceType, chosen, userData, machine>>
    BY <1>6 DEF GetDeviceSpec, inputs
  <2>2. \/ step' = "failed" /\ devices' = devices
        \/ /\ Disks[image] # <<>> /\ disk # TooSmall
           /\ devices' = [remove |-> Nics[image], disk |-> disk]
    BY <1>6 DEF GetDeviceSpec
  <2>3. image \in Objects
    <3>1. "deviceImage" \in Resolved(step)
      BY <2>1 DEF Resolved, Late, Lookups
    <3>2. QED
      BY <1>1, <3>1 DEF LookupInv, PlacedInv, Placed
  <2>4. InputInv'
    BY <1>1, <2>1 DEF InputInv, Offered, Lookups, Late
  <2>5. DevicesInv'
    <3>1. CASE step' = "failed" /\ devices' = devices
      BY <1>1, <3>1 DEF DevicesInv
    <3>2. CASE /\ Disks[image] # <<>> /\ disk # TooSmall
               /\ devices' = [remove |-> Nics[image], disk |-> disk]
      <4>1. Nics[image] \subseteq UNION { Nics[o] : o \in Objects }
        BY <2>3
      <4>2. devices'.remove = Nics[image] /\ devices'.disk = disk
        BY <3>2
      <4>3. class' = class /\ chosen' = chosen
        BY <2>1
      <4>4. QED
        BY <3>2, <4>1, <4>2, <4>3 DEF DevicesInv
    <3>3. QED
      BY <2>2, <3>1, <3>2
  <2>6. MachineInv'
    BY <1>1, <2>1 DEF MachineInv
  <2>7. QED
    BY <1>2, <2>4, <2>5, <2>6 DEF PrepInv
<1>7. CASE CloneImage
  <2>1. /\ step = "clone" /\ step' \in {"failed", "cloned"}
        /\ UNCHANGED <<distro, endpoint, class, claim, instanceType, chosen, devices, userData>>
    BY <1>7 DEF CloneImage, inputs
  <2>2. InputInv'
    BY <1>1, <2>1 DEF InputInv, Offered, Lookups, Late
  <2>3. DevicesInv'
    BY <1>1, <2>1 DEF DevicesInv
  <2>4. machine = NoObject
    BY <1>1, <2>1 DEF MachineInv
  <2>5. MachineInv'
    BY <1>7, <2>1, <2>4 DEF CloneImage, MachineInv
  <2>6. QED
    BY <1>2, <2>2, <2>3, <2>5 DEF PrepInv
<1>8. QED
  BY <1>3, <1>4, <1>5, <1>6, <1>7 DEF OtherNext

LEMMA PrepStutter ==
  ASSUME PrepInv, UNCHANGED vars
  PROVE  PrepInv'
<1>1. UNCHANGED <<tagged, ever, retags, distro, endpoint, class, claim, faults, step, instanceType>>
  BY DEF vars, inventory, inputs
<1>2. UNCHANGED <<listing, left, count, kinds, networkRefs, chosen, devices, userData, machine>>
  BY DEF vars, lookup
<1>3. LookupTypes' /\ ListingInv'
  BY <1>1, <1>2 DEF PrepInv, LookupInv, LookupTypes, ListingInv, Selector, SelectorOf, WantedKind
<1>4. PlacedInv'
  BY <1>1, <1>2 DEF PrepInv, LookupInv, PlacedInv, Placed, SelectorOf
<1>5. InputInv' /\ DevicesInv' /\ MachineInv'
  BY <1>1, <1>2 DEF PrepInv, InputInv, Offered, DevicesInv, MachineInv
<1>6. QED
  BY <1>3, <1>4, <1>5 DEF PrepInv, LookupInv

\* The invariant of a launch.
THEOREM PreparationInvariant == Spec => []PrepInv
<1>1. Init => PrepInv
  BY PrepInit
<1>2. PrepInv /\ [Next]_vars => PrepInv'
  BY PrepLookupNext, PrepOtherNext, PrepStutter DEF Next, LookupNext, OtherNext
<1>3. QED
  BY <1>1, <1>2, PTL DEF Spec

\* Where the machine is, as the lookups found it.
LEMMA MachinePlaced ==
  ASSUME PrepInv, machine # NoObject
  PROVE  /\ step = "cloned"
         /\ machine = [image |-> chosen["image"], pool |-> chosen["pool"],
                  datastore |-> chosen["datastore"], network |-> chosen["network"],
                  oldNics |-> Nics[chosen["image"]] \ devices.remove,
                  disk |-> devices.disk, guestinfo |-> userData,
                  numCPUs |-> NumCPUs(instanceType), memoryMB |-> MemoryMB(instanceType)]
         /\ \A l \in Lookups : Placed(l, chosen[l])
<1>1. step = "cloned"
  BY DEF PrepInv, MachineInv
<1>2. Resolved(step) = Lookups
  BY <1>1 DEF Resolved, Late
<1>3. QED
  BY <1>1, <1>2 DEF PrepInv, MachineInv, LookupInv, PlacedInv

\* The objects of a machine have the right kind and name, and each tag of their
\* selectors was on them during the launch.  When users changed tags once at
\* most, all the tags were there at the same time: before the change or since
\* (getObjectByType).
THEOREM PlacementIsAsSpecified == Spec => []PlacementMatchesSpec
<1>1. ASSUME PrepInv PROVE PlacementMatchesSpec
  <2>1. SUFFICES ASSUME machine # NoObject
        PROVE  /\ \A l \in {"image", "pool", "datastore", "network"} :
                    /\ Kind[machine[l]] \in KindsOf(l)
                    /\ SelectorOf(l).tags = {} => SelectorOf(l).name \in Patterns[machine[l]]
                    /\ SelectorOf(l).tags \subseteq ever[machine[l]]
                    /\ retags <= 1 => \/ SelectorOf(l).tags \subseteq InitTags[machine[l]]
                                      \/ SelectorOf(l).tags \subseteq tagged[machine[l]]
               /\ class.image.tags # {} => machine.image \in Templates
    BY DEF PlacementMatchesSpec
  <2>2. \A l \in {"image", "pool", "datastore", "network"} :
          machine[l] = chosen[l] /\ Placed(l, chosen[l])
    BY <1>1, <2>1, MachinePlaced DEF Lookups
  <2>3. class.image.tags # {} => machine.image \in Templates
    BY <2>2 DEF Placed, SelectorOf
  <2>4. retags <= 1 => \A o \in Objects : ever[o] \in {InitTags[o], tagged[o]}
    BY <1>1 DEF PrepInv, LookupInv, LookupTypes
  <2>5. ASSUME NEW l \in {"image", "pool", "datastore", "network"}
        PROVE  /\ Kind[machine[l]] \in KindsOf(l)
               /\ SelectorOf(l).tags = {} => SelectorOf(l).name \in Patterns[machine[l]]
               /\ SelectorOf(l).tags \subseteq ever[machine[l]]
               /\ retags <= 1 => \/ SelectorOf(l).tags \subseteq InitTags[machine[l]]
                                 \/ SelectorOf(l).tags \subseteq tagged[machine[l]]
    <3>1. machine[l] = chosen[l] /\ Placed(l, chosen[l]) /\ chosen[l] \in Objects
      BY <2>2 DEF Placed
    <3>2. SelectorOf(l).tags \subseteq ever[chosen[l]]
      BY <3>1 DEF Placed
    <3>3. QED
      BY <2>4, <3>1, <3>2 DEF Placed
  <2>6. QED
    BY <2>3, <2>5
<1>2. QED
  BY <1>1, PreparationInvariant, PTL

LEMMA CandidatesPlaced ==
  ASSUME PrepInv, retags = 0, NEW l, NEW o
  PROVE  Placed(l, o) => o \in Candidates(l)
BY DEF PrepInv, LookupInv, LookupTypes, Placed, Candidates

\* The devices that are computed from one lookup of the image fit the machine
\* that is cloned from the other, while one image matches.
THEOREM DevicesAreOfTheImage == Spec => []DevicesFitImage
<1>1. PrepInv => DevicesFitImage
  <2> SUFFICES ASSUME PrepInv, machine # NoObject, retags = 0, Cardinality(Candidates("image")) = 1
      PROVE machine.oldNics = {} /\ DiskAsRequested(machine.image, machine.disk)
    BY DEF DevicesFitImage
  <2>1. Candidates("deviceImage") = Candidates("image")
    BY DEF Candidates, KindsOf, SelectorOf
  <2>2. Placed("image", chosen["image"]) /\ Placed("deviceImage", chosen["deviceImage"])
    BY MachinePlaced DEF Lookups
  <2>3. chosen["image"] \in Candidates("image") /\ chosen["deviceImage"] \in Candidates("image")
    BY <2>1, <2>2, CandidatesPlaced
  <2>4. IsFiniteSet(Candidates("image"))
    BY InventoryConstants, FS_Subset DEF Candidates
  <2>5. chosen["deviceImage"] = chosen["image"]
    BY <2>3, <2>4, FS_Singleton
  <2>6. step = "cloned" /\ devices.remove = Nics[chosen["image"]]
    BY <2>5, MachinePlaced DEF PrepInv, DevicesInv
  <2>7. /\ devices.disk = GetDiskConfigSpec(Head(Disks[chosen["image"]]), GiToKb(class.diskSize))
        /\ devices.disk # TooSmall
    BY <2>5, <2>6 DEF PrepInv, DevicesInv
  <2>8. machine.image = chosen["image"] /\ machine.disk = devices.disk /\ machine.oldNics = {}
    BY <2>6, MachinePlaced
  <2>9. class.diskSize \in Int
    BY LaunchConstants DEF PrepInv, InputInv
  <2>10. GiToKb(class.diskSize) <= 0 <=> ~ (class.diskSize > 0)
    BY <2>9 DEF GiToKb
  <2>11. DiskAsRequested(machine.image, machine.disk)
    BY <2>7, <2>8, <2>10 DEF GetDiskConfigSpec, DiskAsRequested
  <2>12. QED
    BY <2>8, <2>11
<1>2. QED
  BY <1>1, PreparationInvariant, PTL

(* Sizes ------------------------------------------------------------------*)

\* What CeilDiv rounds up is not less than before, in each unit in use.
LEMMA RoundedUp ==
  ASSUME NEW a \in Nat
  PROVE  /\ CeilDiv(a, 1000) \in Nat /\ a <= CeilDiv(a, 1000) * 1000
         /\ CeilDiv(a, Bytes64InMB) \in Nat /\ a <= CeilDiv(a, Bytes64InMB) * Bytes64InMiB
<1>1. CeilDiv(a, 1000) \in Nat /\ a <= CeilDiv(a, 1000) * 1000
  BY DEF CeilDiv
<1>2. CeilDiv(a, 15625) \in Nat /\ a <= CeilDiv(a, 15625) * 15625
  BY DEF CeilDiv
<1>3. a <= CeilDiv(a, 15625) * 16384
  BY <1>2
<1>4. QED
  BY <1>1, <1>2, <1>3 DEF Bytes64InMB, Bytes64InMiB

\* Quantities are whole thousandths and whole units of 64 bytes.
LEMMA QuantityTypes ==
  ASSUME NEW q, q.n \in Int
  PROVE  Milli(q) \in Int /\ Bytes64(q) \in Int
<1>1. \A u \in DOMAIN SizeUnits : SizeUnits[u] \in Int
  BY DEF SizeUnits, Bytes64InKiB, Bytes64InMiB, Bytes64InGi, Bytes64InMB
<1>2. ASSUME NEW k \in Int PROVE q.n * k \in Int /\ q.n * k * 64000 \in Int
  OBVIOUS
<1>3. CeilDiv(q.n, 64) \in Int /\ CeilDiv(q.n, 64000) \in Int
  BY SMT DEF CeilDiv
<1>4. Milli(q) \in Int
  BY <1>1, <1>2 DEF Milli
<1>5. Bytes64(q) \in Int
  BY <1>1, <1>2, <1>3 DEF Bytes64
<1>6. QED
  BY <1>4, <1>5

\* The chosen type holds what the claim requests.
LEMMA TypeHoldsRequests ==
  ASSUME PrepInv, step \in Lookups \cup Late
  PROVE  /\ instanceType.capacity.cpu \in Nat /\ instanceType.capacity.memory \in Nat
         /\ class.diskSize \in Nat
         /\ claim.requests.cpu \in Int /\ claim.requests.cpu <= instanceType.capacity.cpu
         /\ claim.requests.memory \in Int /\ claim.requests.memory <= instanceType.capacity.memory
         /\ claim.requests.storage \in Int
         /\ claim.requests.storage <= class.diskSize * Bytes64InGi
<1>1. InputInv
  BY DEF PrepInv
<1>2. PICK i \in ResolveInstanceTypes(claim, Offered) : instanceType = Offered[i]
  BY <1>1 DEF InputInv
<1>3. i \in DOMAIN class.types /\ Fits(claim.requests, Offered[i].capacity)
  BY <1>2 DEF ResolveInstanceTypes, Offered, InstanceTypesFromNodeClass
<1> DEFINE t == class.types[i]
<1>4. Offered[i].capacity =
        [cpu |-> Milli(t.cpu), memory |-> Bytes64(t.memory),
         pods |-> Milli(t.maxPods), storage |-> GiToByte(class.diskSize)]
  BY <1>3 DEF Offered, InstanceTypesFromNodeClass
<1>5. /\ class.diskSize \in Int /\ t.cpu.n \in Int /\ t.memory.n \in Int
      /\ claim.requests \in [cpu : Int, memory : Int, pods : Int, storage : Int]
  <2>1. [class |-> class, claim |-> claim] \in Launches
    BY <1>1 DEF InputInv
  <2>2. [class |-> class, claim |-> claim].class = class /\ [class |-> class, claim |-> claim].claim = claim
    OBVIOUS
  <2>3. QED
    BY <1>3, <2>1, <2>2, LaunchConstants
<1>6. Milli(t.cpu) \in Int /\ Bytes64(t.memory) \in Int
  BY <1>5, QuantityTypes
<1>7. /\ 0 <= Milli(t.cpu) /\ 0 <= Bytes64(t.memory) /\ 0 <= GiToByte(class.diskSize)
      /\ claim.requests.cpu <= Milli(t.cpu) /\ claim.requests.memory <= Bytes64(t.memory)
      /\ claim.requests.storage <= GiToByte(class.diskSize)
  <2> DEFINE capacity == Offered[i].capacity
  <2>1. DOMAIN capacity = {"cpu", "memory", "pods", "storage"} /\ DOMAIN claim.requests = DOMAIN capacity
    BY <1>4, <1>5
  <2>2. /\ \A r \in DOMAIN capacity : capacity[r] >= 0
        /\ \A r \in DOMAIN claim.requests : claim.requests[r] <= capacity[r]
    BY <1>3, <2>1 DEF Fits
  <2>3. /\ capacity["cpu"] = Milli(t.cpu) /\ capacity["memory"] = Bytes64(t.memory)
        /\ capacity["storage"] = GiToByte(class.diskSize)
    BY <1>4
  <2>4. QED
    BY <2>1, <2>2, <2>3, <1>5, <1>6
<1>8. class.diskSize \in Nat
  BY <1>5, <1>7 DEF GiToByte, Bytes64InGi
<1>9. instanceType.capacity.cpu = Milli(t.cpu) /\ instanceType.capacity.memory = Bytes64(t.memory)
  BY <1>2, <1>4
<1>10. QED
  BY <1>5, <1>6, <1>7, <1>8, <1>9 DEF GiToByte

\* The clone's disk holds the storage that the class promises.
LEMMA DiskHoldsStorage ==
  ASSUME PrepInv, step \in {"clone", "cloned"}
  PROVE  devices.disk \in Nat /\ class.diskSize * Bytes64InGi <= devices.disk * Bytes64InKiB
<1>1. class.diskSize \in Nat
  BY TypeHoldsRequests DEF Late
<1> DEFINE image == chosen["deviceImage"]
           capacity == Head(Disks[image])
<1>2. image \in Objects
  <2>1. "deviceImage" \in Resolved(step)
    BY DEF Resolved, Late, Lookups
  <2>2. QED
    BY <2>1 DEF PrepInv, LookupInv, PlacedInv, Placed
<1>3. /\ Disks[image] # <<>> /\ devices.disk # TooSmall
      /\ devices.disk = GetDiskConfigSpec(capacity, GiToKb(class.diskSize))
  BY DEF PrepInv, DevicesInv
<1>4. capacity \in Nat
  <2>1. Disks[image] \in Seq(Nat)
    BY <1>2, InventoryConstants
  <2>2. QED
    BY <1>3, <2>1
<1> HIDE DEF capacity
<1>5. CASE class.diskSize = 0
  <2>1. devices.disk = capacity
    BY <1>3, <1>5 DEF GetDiskConfigSpec, GiToKb
  <2>2. QED
    BY <1>4, <1>5, <2>1 DEF Bytes64InGi, Bytes64InKiB
<1>6. CASE class.diskSize > 0
  <2>1. devices.disk = GiToKb(class.diskSize)
    BY <1>1, <1>3, <1>4, <1>6 DEF GetDiskConfigSpec, GiToKb
  <2>2. QED
    BY <1>1, <2>1 DEF GiToKb, Bytes64InGi, Bytes64InKiB
<1>7. QED
  BY <1>1, <1>5, <1>6

\* A machine is never smaller than the claim it was made for, whatever units
\* the class uses (GenerateVMSpec, GetDeviceSpec).
THEOREM MachinesHoldRequests == Spec => []MachineHoldsRequests
<1>1. PrepInv => MachineHoldsRequests
  <2> SUFFICES ASSUME PrepInv, machine # NoObject
      PROVE /\ claim.requests.cpu <= machine.numCPUs * 1000
            /\ claim.requests.memory <= machine.memoryMB * Bytes64InMiB
            /\ claim.requests.storage <= machine.disk * Bytes64InKiB
    BY DEF MachineHoldsRequests
  <2>1. /\ step = "cloned" /\ machine.disk = devices.disk
        /\ machine.numCPUs = NumCPUs(instanceType) /\ machine.memoryMB = MemoryMB(instanceType)
    BY MachinePlaced
  <2> DEFINE cpu == instanceType.capacity.cpu
             memory == instanceType.capacity.memory
  <2>2. /\ cpu \in Nat /\ memory \in Nat /\ class.diskSize \in Nat
        /\ claim.requests.cpu \in Int /\ claim.requests.cpu <= cpu
        /\ claim.requests.memory \in Int /\ claim.requests.memory <= memory
        /\ claim.requests.storage \in Int
        /\ claim.requests.storage <= class.diskSize * Bytes64InGi
    BY <2>1, TypeHoldsRequests DEF Late
  <2>3. cpu <= machine.numCPUs * 1000 /\ machine.numCPUs \in Nat
    BY <2>1, <2>2, RoundedUp DEF NumCPUs
  <2>4. memory <= machine.memoryMB * Bytes64InMiB /\ machine.memoryMB \in Nat
    BY <2>1, <2>2, RoundedUp DEF MemoryMB
  <2>5. machine.disk \in Nat /\ class.diskSize * Bytes64InGi <= machine.disk * Bytes64InKiB
    BY <2>1, DiskHoldsStorage
  <2> HIDE DEF cpu, memory
  <2>6. claim.requests.cpu <= machine.numCPUs * 1000
    BY <2>2, <2>3
  <2>7. claim.requests.memory <= machine.memoryMB * Bytes64InMiB
    BY <2>2, <2>4 DEF Bytes64InMiB
  <2>8. claim.requests.storage <= machine.disk * Bytes64InKiB
    BY <2>2, <2>5 DEF Bytes64InGi, Bytes64InKiB
  <2>9. QED
    BY <2>6, <2>7, <2>8
<1>2. QED
  BY <1>1, PreparationInvariant, PTL

(* Types ------------------------------------------------------------------*)

LEMMA CountTyped ==
  ASSUME PrepInv
  PROVE  count \in [Objects -> 0 .. IF listing THEN Cardinality(Selector.tags \ left) ELSE 0]
<1>1. CASE listing
  <2>1. Selector.tags \subseteq KnownTags /\ count \in [Objects -> Nat]
    BY <1>1 DEF PrepInv, LookupInv, ListingInv
  <2>2. IsFiniteSet(Selector.tags \ left)
    BY <2>1, InventoryConstants, FS_Subset
  <2>3. ASSUME NEW o \in Objects PROVE count[o] \in 0 .. Cardinality(Selector.tags \ left)
    <3> DEFINE Had == (Selector.tags \ left) \cap ever[o]
    <3>1. Had \subseteq Selector.tags \ left
      OBVIOUS
    <3>2. IsFiniteSet(Had)
      BY <2>2, <3>1, FS_Subset
    <3>3. /\ Cardinality(Had) <= Cardinality(Selector.tags \ left)
          /\ Cardinality(Had) \in Nat /\ Cardinality(Selector.tags \ left) \in Nat
      BY <2>2, <3>1, <3>2, LargerCount
    <3>4. count[o] \in Nat /\ count[o] <= Cardinality(Had)
      BY <1>1, <2>1 DEF PrepInv, LookupInv, ListingInv
    <3>5. QED
      BY <3>3, <3>4
  <2>4. QED
    BY <1>1, <2>1, <2>3
<1>2. CASE ~ listing
  <2>1. count = [o \in Objects |-> 0]
    BY <1>2 DEF PrepInv, LookupInv, ListingInv
  <2>2. QED
    BY <1>2, <2>1
<1>3. QED
  BY <1>1, <1>2

LEMMA MachineTyped ==
  ASSUME PrepInv
  PROVE  IF step = "cloned" THEN machine \in Machines ELSE machine = NoObject
<1>1. CASE step # "cloned"
  BY <1>1 DEF PrepInv, MachineInv
<1>2. CASE step = "cloned"
  <2>1. machine = [image |-> chosen["image"], pool |-> chosen["pool"],
                  datastore |-> chosen["datastore"], network |-> chosen["network"],
                  oldNics |-> Nics[chosen["image"]] \ devices.remove,
                  disk |-> devices.disk, guestinfo |-> userData,
                  numCPUs |-> NumCPUs(instanceType), memoryMB |-> MemoryMB(instanceType)]
    BY <1>2 DEF PrepInv, MachineInv
  <2>2. /\ chosen["image"] \in Objects /\ chosen["pool"] \in Objects
        /\ chosen["datastore"] \in Objects /\ chosen["network"] \in Objects
    <3>1. Resolved(step) = Lookups
      BY <1>2 DEF Resolved, Late
    <3>2. \A l \in Lookups : chosen[l] \in Objects
      BY <3>1 DEF PrepInv, LookupInv, PlacedInv, Placed
    <3>3. QED
      BY <3>2 DEF Lookups
  <2>3. Nics[chosen["image"]] \ devices.remove \in SUBSET UNION { Nics[o] : o \in Objects }
    BY <2>2
  <2>4. devices.disk \in Nat
    BY <1>2, DiskHoldsStorage
  <2>5. userData \in
          { GetInitData(d, l.class.format, l.class.additional) : d \in Distros, l \in Launches }
    <3> DEFINE l == [class |-> class, claim |-> claim]
    <3>1. distro \in Distros /\ l \in Launches
      BY DEF PrepInv, InputInv
    <3>2. userData = GetInitData(distro, l.class.format, l.class.additional)
      BY <1>2 DEF PrepInv, InputInv, Late
    <3> HIDE DEF l
    <3>3. QED
      BY <3>1, <3>2
  <2>6. NumCPUs(instanceType) \in Nat /\ MemoryMB(instanceType) \in Nat
    <3>1. instanceType.capacity.cpu \in Nat /\ instanceType.capacity.memory \in Nat
      BY <1>2, TypeHoldsRequests DEF Late
    <3>2. QED
      BY <3>1, RoundedUp DEF NumCPUs, MemoryMB
  <2>7. machine \in Machines
    BY <2>1, <2>2, <2>3, <2>4, <2>5, <2>6 DEF Machines
  <2>8. QED
    BY <1>2, <2>7
<1>3. QED
  BY <1>1, <1>2

\* Every variable stays within its type: among others, a lookup counts an
\* object at most once for each tag it listed, and a launch has a type of the
\* class from the moment it has passed the choice.
THEOREM TypeCorrect == Spec => []TypeOK
<1>1. ASSUME PrepInv PROVE TypeOK
  <2>1. /\ tagged \in [Objects -> SUBSET KnownTags] /\ ever \in [Objects -> SUBSET KnownTags]
        /\ retags \in 0 .. MaxRetags /\ faults \in 0 .. MaxFaults
        /\ listing \in BOOLEAN /\ Len(kinds) <= Len(NetworkKinds) /\ networkRefs \subseteq Objects
        /\ chosen \in [Lookups -> Objects \cup {NoObject}]
    BY <1>1 DEF PrepInv, LookupInv, LookupTypes
  <2>2. step \in Lookups \cup {"options", "rejected", "types", "refused", "userData", "devices",
                               "clone", "cloned", "failed"}
    BY <1>1 DEF PrepInv, LookupInv, LookupTypes, AllSteps, Late
  <2>3. left \subseteq KnownTags
    BY <1>1 DEF PrepInv, LookupInv, ListingInv
  <2>4. /\ distro \in Distros /\ endpoint \in {"", "https"}
        /\ [class |-> class, claim |-> claim] \in Launches
        /\ devices.remove \subseteq UNION { Nics[o] : o \in Objects }
    BY <1>1 DEF PrepInv, InputInv, DevicesInv
  <2>5. step \in Lookups \cup {"userData", "devices", "clone", "cloned"} =>
          \E i \in DOMAIN class.types :
            instanceType = InstanceTypesFromNodeClass(class.types, class.diskSize)[i]
    <3>1. DOMAIN Offered = DOMAIN class.types
      BY DEF Offered, InstanceTypesFromNodeClass
    <3>2. ResolveInstanceTypes(claim, Offered) \subseteq DOMAIN class.types
      BY <3>1 DEF ResolveInstanceTypes
    <3>3. QED
      BY <1>1, <3>2 DEF PrepInv, InputInv, Late, Offered
  <2>6. count \in [Objects -> 0 .. IF listing THEN Cardinality(Selector.tags \ left) ELSE 0]
    BY <1>1, CountTyped
  <2>7. IF step = "cloned" THEN machine \in Machines ELSE machine = NoObject
    BY <1>1, MachineTyped
  <2>8. QED
    BY <2>1, <2>2, <2>3, <2>4, <2>5, <2>6, <2>7 DEF TypeOK
<1>2. QED
  BY <1>1, PreparationInvariant, PTL

(* Undisturbed launches ---------------------------------------------------*)

\* While nobody changes tags, selectors keep their candidates.
LEMMA QuietStep ==
  ASSUME PrepInv, [Next]_vars, retags' = 0
  PROVE  /\ retags = 0 /\ tagged = ever /\ ~ Retag
         /\ UNCHANGED <<tagged, ever, class, claim, distro>>
         /\ \A l : Candidates(l)' = Candidates(l)
<1>1. retags \in 0 .. MaxRetags /\ (retags = 0 => tagged = ever)
  BY DEF PrepInv, LookupInv, LookupTypes
<1>2. Retag => retags' = retags + 1
  BY DEF Retag
<1>3. retags + 1 # 0
  BY <1>1
<1>4. ~ Retag
  BY <1>2, <1>3
<1>5. UNCHANGED <<inventory, inputs>>
  BY <1>4 DEF Next, vars, Validate, ChooseInstanceType, PrepareUserData, StartLookup,
     ListAttachedObjects, FinishLookup, FinishNetwork, LookupByName, GetDeviceSpec, CloneImage
<1>6. UNCHANGED <<tagged, ever, retags, class, claim, distro>>
  BY <1>5 DEF inventory, inputs
<1>7. \A l : Candidates(l)' = Candidates(l)
  BY <1>6 DEF Candidates, SelectorOf
<1>8. QED
  BY <1>1, <1>4, <1>6, <1>7

LEMMA CalmStep ==
  ASSUME PrepInv, [Next]_vars, Undisturbed'
  PROVE  Undisturbed /\ ~ Fault
<1>1. Fault \/ UNCHANGED faults
  BY DEF Next, vars, Validate, ChooseInstanceType, PrepareUserData, StartLookup,
     ListAttachedObjects, FinishLookup, Accept, FinishNetwork, LookupByName, GetDeviceSpec,
     CloneImage, Retag, NoFault
<1>2. faults \in 0 .. MaxFaults
  BY DEF PrepInv, LookupInv, LookupTypes
<1>3. faults' = 0 /\ retags' = 0
  BY DEF Undisturbed
<1>4. QED
  BY <1>1, <1>2, <1>3, FaultsTyped, QuietStep DEF Undisturbed

\* What a lookup by tags counts while nobody changes tags.
LEMMA QuietKept ==
  ASSUME PrepInv, QuietInv, [Next]_vars
  PROVE  QuietInv'
<1>1. SUFFICES ASSUME retags' = 0, listing'
      PROVE \A o \in Candidates(step)' :
              Kind[o] = WantedKind' => count'[o] = Cardinality(Selector.tags \ left)'
  BY DEF QuietInv
<1>2. /\ retags = 0 /\ ~ Retag /\ UNCHANGED <<tagged, ever, class>>
  BY <1>1, QuietStep
<1>3. NoMatch => ~ listing'
  BY DEF NoMatch, Refuse, EndLookup
<1>4. \A o : Select(o) \/ Accept(o) \/ Refuse => ~ listing'
  BY DEF Accept, Select, Refuse, EndLookup
<1>5. CASE StartLookup
  <2>1. /\ ~ listing /\ left' = Selector.tags /\ UNCHANGED <<step, count, kinds>>
    BY <1>1, <1>3, <1>5 DEF StartLookup
  <2>2. Selector' = Selector
    BY <1>2, <2>1 DEF Selector, SelectorOf
  <2>3. count' = [o \in Objects |-> 0]
    BY <2>1 DEF PrepInv, LookupInv, ListingInv
  <2>4. (Selector.tags \ left)' = {}
    BY <2>1, <2>2
  <2>5. Cardinality(Selector.tags \ left)' = 0
    BY <2>4, FS_EmptySet
  <2>6. Candidates(step)' \subseteq Objects
    BY DEF Candidates
  <2>7. QED
    BY <2>3, <2>5, <2>6
<1>6. CASE ListAttachedObjects
  <2>1. PICK t \in left :
          /\ left' = left \ {t}
          /\ count' = [o \in Objects |->
                         count[o] + IF t \in tagged[o] /\ Kind[o] = WantedKind THEN 1 ELSE 0]
          /\ UNCHANGED <<step, listing, kinds>>
    BY <1>1, <1>3, <1>6 DEF ListAttachedObjects
  <2>2. Selector' = Selector /\ WantedKind' = WantedKind
    BY <1>2, <2>1 DEF Selector, SelectorOf, WantedKind
  <2>3. listing
    BY <1>6 DEF ListAttachedObjects
  <2>4. Selector.tags # {} /\ Selector.tags \subseteq KnownTags /\ left \subseteq Selector.tags
    BY <2>3 DEF PrepInv, LookupInv, ListingInv
  <2>5. /\ (Selector.tags \ left)' = (Selector.tags \ left) \cup {t}
        /\ t \notin Selector.tags \ left
    BY <2>1, <2>2, <2>4
  <2>6. IsFiniteSet(Selector.tags \ left)
    BY <2>4, InventoryConstants, FS_Subset
  <2>7. Cardinality(Selector.tags \ left)' = Cardinality(Selector.tags \ left) + 1
    <3>1. Cardinality((Selector.tags \ left) \cup {t}) = Cardinality(Selector.tags \ left) + 1
      BY <2>5, <2>6, OneMore
    <3>2. QED
      BY <2>5, <3>1
  <2>8. ASSUME NEW o \in Candidates(step)', Kind[o] = WantedKind'
        PROVE  count'[o] = Cardinality(Selector.tags \ left)'
    <3>1. o \in Candidates(step) /\ o \in Objects /\ Selector.tags \subseteq tagged[o]
      BY <1>2, <2>1, <2>4, <2>8 DEF Candidates, Selector, SelectorOf
    <3>2. count[o] = Cardinality(Selector.tags \ left)
      BY <1>2, <2>2, <2>3, <2>8, <3>1 DEF QuietInv
    <3>3. t \in tagged[o] /\ Kind[o] = WantedKind
      BY <2>1, <2>2, <2>4, <2>8, <3>1
    <3>4. count'[o] = count[o] + 1
      BY <2>1, <3>1, <3>3
    <3>5. QED
      BY <2>7, <3>2, <3>4
  <2>9. QED
    BY <2>8
<1>7. CASE FinishLookup \/ FinishNetwork \/ LookupByName
  BY <1>1, <1>3, <1>4, <1>7 DEF FinishLookup, FinishNetwork, LookupByName
<1>8. CASE OtherNext
  <2>1. step \notin Lookups /\ listing' = listing
    BY <1>8 DEF OtherNext, Validate, ChooseInstanceType, PrepareUserData, GetDeviceSpec,
                CloneImage, Lookups, lookup
  <2>2. QED
    BY <1>1, <2>1 DEF PrepInv, LookupInv, ListingInv
<1>9. CASE UNCHANGED vars
  <2>1. UNCHANGED <<tagged, class, step, listing, left, count, kinds>>
    BY <1>9 DEF vars, inventory, inputs, lookup
  <2>2. /\ Candidates(step)' = Candidates(step)
        /\ WantedKind' = WantedKind /\ Selector' = Selector
    BY <2>1 DEF Candidates, SelectorOf, Selector, WantedKind
  <2>3. QED
    BY <1>1, <1>2, <2>1, <2>2 DEF QuietInv
<1>10. QED
  BY <1>2, <1>5, <1>6, <1>7, <1>8, <1>9 DEF Next, OtherNext

\* A lookup that listed every tag matches each candidate of its kind.
LEMMA CandidateMatches ==
  ASSUME PrepInv, QuietInv, retags = 0, listing, left = {},
         NEW o \in Candidates(step), Kind[o] = WantedKind
  PROVE  o \in Matching
<1>1. o \in Objects
  BY DEF Candidates
<1>2. count[o] = Cardinality(Selector.tags \ left)
  BY DEF QuietInv
<1>3. Selector.tags \ left = Selector.tags
  OBVIOUS
<1>4. QED
  BY <1>1, <1>2, <1>3 DEF Matching

\* And what it matches is a candidate.
LEMMA MatchIsCandidate ==
  ASSUME PrepInv, retags = 0, listing, left = {}, NEW o, o \in Matching
  PROVE  o \in Candidates(step) /\ Kind[o] = WantedKind
<1>1. /\ o \in Objects /\ Kind[o] = WantedKind /\ Kind[o] \in KindsOf(step)
      /\ Selector.tags \subseteq ever[o]
  BY MatchingPlaced DEF PrepInv
<1>2. Selector.tags # {} /\ tagged = ever
  BY DEF PrepInv, LookupInv, LookupTypes, ListingInv
<1>3. QED
  BY <1>1, <1>2 DEF Candidates, Selector

\* Candidates have only tags that exist.
LEMMA CandidateTags ==
  ASSUME PrepInv, NEW l, NEW o \in Candidates(l)
  PROVE  SelectorOf(l).tags \subseteq KnownTags
<1>1. tagged \in [Objects -> SUBSET KnownTags]
  BY DEF PrepInv, LookupInv, LookupTypes
<1>2. o \in Objects /\ (SelectorOf(l).tags # {} => SelectorOf(l).tags \subseteq tagged[o])
  BY DEF Candidates
<1>3. QED
  BY <1>1, <1>2

\* The search of a network begins with every kind.
LEMMA NetworkEntered ==
  ASSUME PrepInv, step \in Lookups \ {"network"}, NEW o, Select(o)
  PROVE  step' \notin Late /\ (step' = "network" => kinds' = NetworkKinds)
<1>1. step \in Early
  BY DEF Lookups, Early
<1>2. kinds = NetworkKinds
  BY <1>1 DEF PrepInv, LookupInv, PlacedInv
<1>3. step' \notin Late
  BY DEF Select, Following, Lookups, Late
<1>4. QED
  BY <1>2, <1>3 DEF Select

\* Going on to the next kind of network loses no candidate that was not found.
LEMMA NextKind ==
  ASSUME NEW s \in Seq(ToSet(NetworkKinds)), s # <<>>, NEW k \in ToSet(s), k # Head(s)
  PROVE  k \in ToSet(Tail(s))
<1>1. PICK i \in 1 .. Len(s) : k = s[i]
  BY DEF ToSet
<1>2. i # 1 /\ Head(s) = s[1]
  BY <1>1
<1>3. i - 1 \in 1 .. Len(Tail(s)) /\ Tail(s)[i - 1] = s[i]
  BY <1>1, <1>2
<1>4. i - 1 \in DOMAIN Tail(s) /\ Tail(s)[i - 1] = k
  BY <1>1, <1>3
<1> DEFINE rest == Tail(s)
<1>5. \E j \in DOMAIN rest : rest[j] = k
  BY <1>4
<1> HIDE DEF rest
<1>6. k \in ToSet(rest)
  BY <1>5 DEF ToSet
<1>7. QED
  BY <1>6 DEF rest

\* Each kind of network that has a candidate is found, while nothing fails.
LEMMA NetworkKept ==
  ASSUME PrepInv, QuietInv, NetworkInv, [Next]_vars
  PROVE  NetworkInv'
<1>1. SUFFICES ASSUME Undisturbed', class'.network.tags # {}
      PROVE /\ step' = "network" =>
                 \A o \in Candidates("network")' :
                   Kind[o] \in ToSet(kinds') \/ \E r \in networkRefs' : Kind[r] = Kind[o]
            /\ step' \in Late =>
                 \A o \in Candidates("network")' : Kind[o] = Kind[chosen'["network"]]
  BY DEF NetworkInv
<1>2. Undisturbed /\ ~ Fault /\ retags' = 0 /\ retags = 0
  BY <1>1, CalmStep DEF Undisturbed
<1>3. ~ Retag /\ Candidates("network")' = Candidates("network") /\ class' = class /\ tagged = ever
  BY <1>2, QuietStep
<1>4. step = "network" =>
        \A o \in Candidates("network") :
          Kind[o] \in ToSet(kinds) \/ \E r \in networkRefs : Kind[r] = Kind[o]
  BY <1>1, <1>2, <1>3 DEF NetworkInv
<1>5. step \in Late => \A o \in Candidates("network") : Kind[o] = Kind[chosen["network"]]
  BY <1>1, <1>2, <1>3 DEF NetworkInv
<1>6. Lookups \cap Late = {} /\ "failed" \notin Late /\ "network" \in Lookups
  BY DEF Late, Lookups
<1>7. \A o \in Candidates("network") : Kind[o] \in ToSet(NetworkKinds)
  BY DEF Candidates, KindsOf
<1>8. CASE step' \notin Late \cup {"network"}
  BY <1>8
<1>9. Refuse => step' \notin Late \cup {"network"}
  BY <1>6 DEF Refuse
<1>10. CASE step \in Lookups /\ UNCHANGED <<step, kinds, networkRefs>>
  BY <1>3, <1>4, <1>6, <1>10
<1>11. CASE step \in Lookups \ {"network"} /\ \E o : Select(o)
  <2>1. step' \notin Late /\ (step' = "network" => kinds' = NetworkKinds)
    BY <1>11, NetworkEntered
  <2>2. QED
    BY <1>3, <1>7, <2>1
<1>12. CASE StartLookup
  <2>1. step \in Lookups /\ (step = "network" => kinds # <<>>)
    BY <1>12 DEF StartLookup
  <2>2. CASE UNCHANGED <<step, kinds, networkRefs>>
    BY <1>10, <2>1, <2>2
  <2>3. CASE NoMatch /\ ~ (Selector.tags \subseteq KnownTags)
    <3>1. CASE step = "network"
      <4>1. Candidates("network") = {}
        BY <2>3, <3>1, CandidateTags DEF Selector
      <4>2. step' = step
        BY <2>3, <3>1 DEF NoMatch
      <4>3. QED
        BY <1>3, <1>6, <3>1, <4>1, <4>2
    <3>2. CASE step # "network"
      BY <1>8, <1>9, <2>3, <3>2 DEF NoMatch
    <3>3. QED
      BY <3>1, <3>2
  <2>4. QED
    BY <1>2, <1>12, <2>2, <2>3 DEF StartLookup
<1>13. CASE ListAttachedObjects
  <2>1. step \in Lookups
    BY <1>13 DEF ListAttachedObjects, PrepInv, LookupInv, ListingInv
  <2>2. UNCHANGED <<step, kinds, networkRefs>>
    BY <1>2, <1>13 DEF ListAttachedObjects
  <2>3. QED
    BY <1>10, <2>1, <2>2
<1>14. CASE FinishLookup
  <2>1. listing /\ left = {}
    BY <1>14 DEF FinishLookup
  <2>2. step \in Lookups /\ (step = "network" => kinds # <<>>)
    BY <2>1 DEF PrepInv, LookupInv, ListingInv
  <2>3. CASE step = "network"
    <3>1. step' = step /\ kinds' = Tail(kinds)
      BY <1>14, <2>3 DEF FinishLookup, Accept, NoMatch
    <3>2. WantedKind = Head(kinds)
      BY <2>3 DEF WantedKind
    <3>3. kinds \in Seq(ToSet(NetworkKinds)) /\ kinds # <<>>
      BY <2>2, <2>3 DEF PrepInv, LookupInv, LookupTypes
    <3>4. ASSUME NEW o \in Candidates("network")
          PROVE  Kind[o] \in ToSet(kinds') \/ \E r \in networkRefs' : Kind[r] = Kind[o]
      <4>1. networkRefs \subseteq networkRefs'
        BY <1>14, <2>3 DEF FinishLookup, Accept, NoMatch
      <4>2. CASE Kind[o] \notin ToSet(kinds)
        BY <1>4, <2>3, <3>4, <4>1, <4>2
      <4>3. CASE Kind[o] \in ToSet(kinds) /\ Kind[o] # Head(kinds)
        BY <3>1, <3>3, <4>3, NextKind
      <4>4. CASE Kind[o] = Head(kinds)
        <5>1. o \in Matching
          BY <1>2, <2>1, <2>3, <3>2, <3>4, <4>4, CandidateMatches
        <5>2. PICK p \in Matching : Accept(p)
          BY <1>14, <5>1 DEF FinishLookup
        <5>3. p \in networkRefs'
          BY <2>3, <5>2 DEF Accept
        <5>4. Kind[p] = Kind[o]
          BY <1>2, <2>1, <3>2, <4>4, <5>2, MatchIsCandidate
        <5>5. QED
          BY <5>3, <5>4
      <4>5. QED
        BY <4>2, <4>3, <4>4
    <3>5. QED
      BY <1>3, <1>6, <2>3, <3>1, <3>4
  <2>4. CASE step # "network"
    <3>1. Refuse \/ \E o : Select(o)
      BY <1>14, <2>4 DEF FinishLookup, Accept, NoMatch
    <3>2. QED
      BY <1>8, <1>9, <1>11, <2>2, <2>4, <3>1
  <2>5. QED
    BY <2>3, <2>4
<1>15. CASE FinishNetwork
  <2>1. step = "network" /\ kinds = <<>>
    BY <1>15 DEF FinishNetwork
  <2>2. CASE Refuse
    BY <1>8, <1>9, <2>2
  <2>3. CASE \E o \in Objects : networkRefs = {o} /\ Select(o)
    <3>1. PICK o \in Objects : networkRefs = {o} /\ Select(o)
      BY <2>3
    <3>2. \A p \in Candidates("network") : Kind[p] = Kind[o]
      <4>1. ToSet(kinds) = {}
        BY <2>1 DEF ToSet
      <4>2. QED
        BY <1>4, <2>1, <3>1, <4>1
    <3>3. step' = "devices" /\ chosen' = [chosen EXCEPT !["network"] = o]
      BY <2>1, <3>1 DEF Select, Following
    <3>4. chosen'["network"] = o
      <4>1. chosen \in [Lookups -> Objects \cup {NoObject}]
        BY DEF PrepInv, LookupInv, LookupTypes
      <4>2. QED
        BY <1>6, <3>3, <4>1
    <3>5. QED
      BY <1>3, <3>2, <3>3, <3>4
  <2>4. QED
    BY <1>15, <2>2, <2>3 DEF FinishNetwork
<1>16. CASE LookupByName
  <2>1. step \in Lookups /\ Selector.tags = {} /\ (Refuse \/ \E o : Select(o))
    BY <1>16 DEF LookupByName
  <2>2. step # "network"
    BY <1>1, <1>3, <2>1 DEF Selector, SelectorOf
  <2>3. QED
    BY <1>8, <1>9, <1>11, <2>1, <2>2
<1>17. CASE OtherNext
  <2>1. /\ step' # "network" /\ chosen' = chosen
        /\ step' \in Late => step \in Late
    BY <1>17 DEF OtherNext, Validate, ChooseInstanceType, PrepareUserData, GetDeviceSpec,
                 CloneImage, Late
  <2>2. QED
    BY <1>3, <1>5, <2>1
<1>18. CASE UNCHANGED vars
  <2>1. UNCHANGED <<step, kinds, networkRefs, chosen>>
    BY <1>18 DEF vars, lookup
  <2>2. QED
    BY <1>3, <1>4, <1>5, <2>1
<1>19. QED
  BY <1>3, <1>12, <1>13, <1>14, <1>15, <1>16, <1>17, <1>18 DEF Next, OtherNext

\* The one candidate of a selector is the result of its lookup.
LEMMA OnlyCandidate ==
  ASSUME PrepInv, retags = 0, NEW l, Cardinality(Candidates(l)) = 1, NEW o, NEW p,
         Placed(l, o), p \in Candidates(l)
  PROVE  o = p
<1>1. o \in Candidates(l)
  BY CandidatesPlaced
<1>2. IsFiniteSet(Candidates(l))
  BY InventoryConstants, FS_Subset DEF Candidates
<1>3. QED
  BY <1>1, <1>2, FS_Singleton

\* The second lookup of the image finds the image of the first.
LEMMA OneImage ==
  ASSUME PrepInv, retags = 0, Launchable, step \in Late
  PROVE  LET image == chosen["image"] IN
         /\ chosen["deviceImage"] = image
         /\ image \in Objects /\ Disks[image] # <<>> /\ Head(Disks[image]) \in Nat
         /\ class.diskSize \in Int
         /\ class.diskSize > 0 => GiToKb(class.diskSize) >= Head(Disks[image])
         /\ HasBacking(chosen["network"])
<1>1. Resolved(step) = Lookups
  BY DEF Resolved
<1>2. \A l \in Lookups : Placed(l, chosen[l])
  BY <1>1 DEF PrepInv, LookupInv, PlacedInv
<1>3. Candidates("deviceImage") = Candidates("image")
  BY DEF Candidates, KindsOf, SelectorOf
<1>4. /\ chosen["image"] \in Candidates("image") /\ chosen["deviceImage"] \in Candidates("image")
      /\ chosen["network"] \in Candidates("network")
  BY <1>2, <1>3, CandidatesPlaced DEF Lookups
<1>5. Cardinality(Candidates("image")) = 1
  BY DEF Launchable, Lookups
<1>6. chosen["deviceImage"] = chosen["image"]
  BY <1>2, <1>4, <1>5, OnlyCandidate DEF Lookups
<1>7. /\ chosen["image"] \in Objects /\ Disks[chosen["image"]] # <<>>
      /\ class.diskSize > 0 => GiToKb(class.diskSize) >= Head(Disks[chosen["image"]])
      /\ HasBacking(chosen["network"])
  BY <1>4 DEF Launchable, Candidates
<1>8. Head(Disks[chosen["image"]]) \in Nat
  <2>1. Disks[chosen["image"]] \in Seq(Nat)
    BY <1>7, InventoryConstants
  <2>2. QED
    BY <1>7, <2>1
<1>9. class.diskSize \in Int
  BY LaunchConstants DEF PrepInv, InputInv
<1>10. QED
  BY <1>6, <1>7, <1>8, <1>9

\* A lookup of one candidate ends with it.
LEMMA LookupSucceeds ==
  ASSUME PrepInv, QuietInv, NetworkInv, Undisturbed, ~ Fault, Launchable, LookupNext, ~ Retag
  PROVE  ~ Refuse
<1>1. step \in Lookups /\ retags = 0 /\ tagged = ever
  BY LookupSteps DEF PrepInv, Undisturbed, LookupInv, LookupTypes
<1>2. PICK c : Candidates(step) = {c}
  <2>1. Cardinality(Candidates(step)) = 1
    BY <1>1 DEF Launchable
  <2>2. IsFiniteSet(Candidates(step))
    BY InventoryConstants, FS_Subset DEF Candidates
  <2>3. QED
    BY <2>1, <2>2, FS_Singleton
<1>3. c \in Objects /\ Kind[c] \in KindsOf(step)
  BY <1>2 DEF Candidates
<1>4. \A o : Select(o) => step' # "failed"
  BY <1>1 DEF Select, Following, Lookups
<1>5. Refuse => step' = "failed"
  BY DEF Refuse
<1>6. step # "failed"
  BY <1>1 DEF Lookups
<1>7. CASE StartLookup
  <2>1. Selector.tags \subseteq KnownTags
    BY <1>2, CandidateTags DEF Selector
  <2>2. step' = step
    BY <1>7, <2>1 DEF StartLookup
  <2>3. QED
    BY <1>5, <1>6, <2>2
<1>8. CASE ListAttachedObjects
  <2>1. step' = step
    BY <1>8 DEF ListAttachedObjects
  <2>2. QED
    BY <1>5, <1>6, <2>1
<1>9. CASE FinishLookup
  <2>1. listing /\ left = {}
    BY <1>9 DEF FinishLookup
  <2>2. CASE step = "network"
    <3>1. step' = step
      BY <1>9, <2>2 DEF FinishLookup, Accept, NoMatch
    <3>2. QED
      BY <1>5, <1>6, <3>1
  <2>3. CASE step # "network"
    <3>1. Kind[c] = WantedKind
      BY <1>1, <1>3, <2>3 DEF KindsOf, WantedKind, Lookups
    <3>2. c \in Matching
      BY <1>1, <1>2, <2>1, <3>1, CandidateMatches
    <3>3. PICK o \in Matching : Accept(o)
      BY <1>9, <3>2 DEF FinishLookup
    <3>4. o \in Candidates(step)
      BY <1>1, <2>1, <3>3, MatchIsCandidate
    <3>5. step \in {"image", "deviceImage"} => o \in Templates
      <4>1. Candidates("deviceImage") = Candidates("image")
        BY DEF Candidates, KindsOf, SelectorOf
      <4>2. QED
        BY <3>4, <4>1 DEF Launchable
    <3>6. Select(o)
      BY <2>3, <3>3, <3>5 DEF Accept
    <3>7. QED
      BY <1>4, <1>5, <3>6
  <2>4. QED
    BY <2>2, <2>3
<1>10. CASE FinishNetwork
  <2>1. step = "network" /\ kinds = <<>>
    BY <1>10 DEF FinishNetwork
  <2>2. class.network.tags # {}
    BY <2>1 DEF PrepInv, LookupInv, PlacedInv, NetworkKinds
  <2>3. ToSet(kinds) = {}
    BY <2>1 DEF ToSet
  <2>4. networkRefs # {}
    BY <1>2, <2>1, <2>2, <2>3 DEF NetworkInv
  <2>5. \A r \in networkRefs : r \in Candidates("network")
    BY <1>1, <2>1, CandidatesPlaced DEF PrepInv, LookupInv, PlacedInv
  <2>6. networkRefs = {c}
    BY <1>2, <2>1, <2>4, <2>5
  <2>7. Cardinality(networkRefs) = 1
    BY <2>6, FS_Singleton
  <2>8. \E o \in Objects : Select(o)
    BY <1>10, <2>7 DEF FinishNetwork
  <2>9. QED
    BY <1>4, <1>5, <2>8
<1>11. CASE LookupByName
  <2> DEFINE hits == { o \in Objects : Kind[o] \in KindsOf(step) /\ Selector.name \in Patterns[o] }
  <2>1. Selector.tags = {}
    BY <1>11 DEF LookupByName
  <2>2. hits = Candidates(step)
    BY <2>1 DEF Candidates, Selector
  <2>3. Cardinality(hits) = 1 /\ hits # {}
    BY <1>2, <2>2, FS_Singleton
  <2>4. ~ (hits = {} \/ Cardinality(hits) > 1)
    BY <2>3
  <2>5. \E o \in hits : Select(o)
    BY <1>11, <2>4 DEF LookupByName
  <2>6. QED
    BY <1>4, <1>5, <2>5
<1>12. QED
  BY <1>7, <1>8, <1>9, <1>10, <1>11 DEF LookupNext

\* A lookup fails by refusing, and never without an answer that it may refuse.
LEMMA OnlyRefusalFails ==
  ASSUME PrepInv, LookupNext, step' \in {"failed", "refused"}
  PROVE  Refuse
<1>1. step \in Lookups /\ step' # step
  BY LookupSteps DEF PrepInv, Lookups
<1>2. \A o : Select(o) => step' \notin {"failed", "refused"}
  BY <1>1 DEF Select, Following, Lookups
<1>3. \A o : Accept(o) => Refuse
  BY <1>1, <1>2 DEF Accept
<1>4. NoMatch => Refuse
  BY <1>1 DEF NoMatch
<1>5. CASE StartLookup \/ ListAttachedObjects \/ FinishLookup
  BY <1>1, <1>3, <1>4, <1>5 DEF StartLookup, ListAttachedObjects, FinishLookup
<1>6. CASE FinishNetwork \/ LookupByName \/ Retag
  BY <1>1, <1>2, <1>6 DEF FinishNetwork, LookupByName, Retag
<1>7. QED
  BY <1>5, <1>6 DEF LookupNext

\* The disk of a launchable class is not too small for its image.
LEMMA DiskSuffices ==
  ASSUME NEW capacity \in Nat, NEW size \in Int, size > 0 => GiToKb(size) >= capacity
  PROVE  /\ GetDiskConfigSpec(capacity, GiToKb(size)) # TooSmall
         /\ GetDiskConfigSpec(capacity, GiToKb(size)) >= capacity
<1>1. GiToKb(size) \in Int /\ (GiToKb(size) <= 0 <=> ~ (size > 0))
  BY SMT DEF GiToKb
<1>2. CASE size > 0
  BY <1>1, <1>2, SMT DEF GetDiskConfigSpec, TooSmall
<1>3. CASE ~ (size > 0)
  BY <1>1, <1>3, SMT DEF GetDiskConfigSpec, TooSmall
<1>4. QED
  BY <1>2, <1>3

LEMMA LaunchableKept ==
  ASSUME PrepInv, QuietInv, NetworkInv, LaunchableIsLaunched, [Next]_vars
  PROVE  LaunchableIsLaunched'
<1>1. SUFFICES ASSUME Undisturbed', Launchable' PROVE step' \notin {"failed", "refused"}
  BY DEF LaunchableIsLaunched
<1>2. Undisturbed /\ ~ Fault /\ retags' = 0 /\ retags = 0
  BY <1>1, CalmStep DEF Undisturbed
<1>3. /\ ~ Retag /\ UNCHANGED <<tagged, class, claim, distro>>
      /\ \A l : Candidates(l)' = Candidates(l)
  BY <1>2, QuietStep
<1>4. Launchable
  BY <1>1, <1>3 DEF Launchable
<1>5. step \notin {"failed", "refused"}
  BY <1>2, <1>4 DEF LaunchableIsLaunched
<1>6. CASE LookupNext
  BY <1>2, <1>3, <1>4, <1>6, LookupSucceeds, OnlyRefusalFails
<1>7. CASE Validate
  BY <1>7 DEF Validate
<1>8. CASE ChooseInstanceType
  BY <1>4, <1>8 DEF Launchable, ChooseInstanceType
<1>9. CASE PrepareUserData
  BY <1>4, <1>9 DEF Launchable, PrepareUserData
<1>10. CASE GetDeviceSpec
  <2> DEFINE image == chosen["deviceImage"]
             disk == GetDiskConfigSpec(Head(Disks[image]), GiToKb(class.diskSize))
  <2>1. step = "devices" /\ step \in Late
    BY <1>10 DEF GetDeviceSpec, Late
  <2>2. /\ Disks[image] # <<>> /\ Head(Disks[image]) \in Nat /\ class.diskSize \in Int
        /\ class.diskSize > 0 => GiToKb(class.diskSize) >= Head(Disks[image])
        /\ HasBacking(chosen["network"])
    BY <1>2, <1>4, <2>1, OneImage
  <2>3. disk # TooSmall
    BY <2>2, DiskSuffices
  <2>4. ~ (Disks[image] = <<>> \/ disk = TooSmall \/ ~ HasBacking(chosen["network"]))
    BY <2>2, <2>3
  <2> HIDE DEF disk
  <2>5. step' = "clone"
    BY <1>2, <1>10, <2>4 DEF GetDeviceSpec, disk
  <2>6. QED
    BY <2>5
<1>11. CASE CloneImage
  <2> DEFINE image == chosen["image"]
  <2>1. step = "clone" /\ step \in Late
    BY <1>11 DEF CloneImage, Late
  <2>2. /\ chosen["deviceImage"] = image
        /\ Disks[image] # <<>> /\ Head(Disks[image]) \in Nat /\ class.diskSize \in Int
        /\ class.diskSize > 0 => GiToKb(class.diskSize) >= Head(Disks[image])
    BY <1>2, <1>4, <2>1, OneImage
  <2>3. /\ devices.remove = Nics[image]
        /\ devices.disk = GetDiskConfigSpec(Head(Disks[image]), GiToKb(class.diskSize))
    BY <2>1, <2>2 DEF PrepInv, DevicesInv
  <2>4. devices.disk >= Head(Disks[image])
    BY <2>2, <2>3, DiskSuffices
  <2>5. /\ devices.remove \subseteq Nics[image]
        /\ Disks[image] # <<>> /\ devices.disk >= Head(Disks[image])
    BY <2>2, <2>3, <2>4
  <2>6. step' = "cloned"
    BY <1>2, <1>11, <2>5 DEF CloneImage
  <2>7. QED
    BY <2>6
<1>12. CASE UNCHANGED vars
  BY <1>5, <1>12 DEF vars
<1>13. QED
  BY <1>6, <1>7, <1>8, <1>9, <1>10, <1>11, <1>12 DEF Next, LookupNext

\* What holds of a launch that nobody disturbs.
THEOREM UndisturbedInvariant == Spec => []UndisturbedInv
<1>1. Init => UndisturbedInv
  <2> SUFFICES ASSUME Init PROVE UndisturbedInv
    OBVIOUS
  <2>1. PrepInv
    BY PrepInit
  <2>2. step = "options" /\ ~ listing
    BY DEF Init
  <2>3. QuietInv /\ NetworkInv /\ LaunchableIsLaunched
    BY <2>2 DEF QuietInv, NetworkInv, LaunchableIsLaunched, Late
  <2>4. QED
    BY <2>1, <2>3 DEF UndisturbedInv
<1>2. UndisturbedInv /\ [Next]_vars => UndisturbedInv'
  <2> SUFFICES ASSUME UndisturbedInv, [Next]_vars PROVE UndisturbedInv'
    OBVIOUS
  <2>1. PrepInv /\ QuietInv /\ NetworkInv /\ LaunchableIsLaunched
    BY DEF UndisturbedInv
  <2>2. PrepInv'
    BY <2>1, PrepLookupNext, PrepOtherNext, PrepStutter DEF Next, LookupNext, OtherNext
  <2>3. QuietInv' /\ NetworkInv' /\ LaunchableIsLaunched'
    BY <2>1, QuietKept, NetworkKept, LaunchableKept
  <2>4. QED
    BY <2>2, <2>3 DEF UndisturbedInv
<1>3. QED
  BY <1>1, <1>2, PTL DEF Spec

\* A class that is well-formed, offers a type for the claim and selects one fit
\* object each is launched while vCenter answers and nobody edits tags: no
\* lookup, device check or clone refuses it (Create, NetworkByTag).
THEOREM LaunchableClassesLaunch == Spec => []LaunchableIsLaunched
BY UndisturbedInvariant, PTL DEF UndisturbedInv

\* Networks of two kinds that match one selector by tags are never chosen
\* between (NetworkByTag).
THEOREM AmbiguityIsRefused == Spec => []AmbiguousNetworkRefused
<1>1. ASSUME UndisturbedInv PROVE AmbiguousNetworkRefused
  <2>1. SUFFICES ASSUME machine # NoObject, Undisturbed, class.network.tags # {}
        PROVE \A o, p \in Candidates("network") : Kind[o] = Kind[p]
    BY DEF AmbiguousNetworkRefused
  <2>2. step \in Late
    BY <1>1, <2>1, MachinePlaced DEF UndisturbedInv, Late
  <2>3. \A o \in Candidates("network") : Kind[o] = Kind[chosen["network"]]
    BY <1>1, <2>1, <2>2 DEF UndisturbedInv, NetworkInv
  <2>4. QED
    BY <2>3
<1>2. QED
  BY <1>1, UndisturbedInvariant, PTL
=============================================================================
