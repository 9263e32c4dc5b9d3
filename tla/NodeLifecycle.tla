--------------------------- MODULE NodeLifecycle ---------------------------
(***************************************************************************)
(* The life of NodeClaims and of their machines: Karpenter core drives     *)
(* Create and Delete of the cloud provider claim by claim, the garbage     *)
(* collector runs beside it, users and kubelets act, and the process may   *)
(* crash.  The part of core is external: it is modelled from the calls it  *)
(* makes into this repository.  Core serialises the reconciles of a claim. *)
(***************************************************************************)
EXTENDS GarbageCollection, FiniteSets

CONSTANTS
  Foreign,           \* running machines of another cluster, in the same folder
  ForeignCluster,    \* its name
  ForeignTags,       \* the tags of those machines
  GraceCoversLaunch  \* TRUE: the five minutes outlast a launch and a pass

ASSUME LifecycleConstants ==
  /\ Foreign \subseteq Uuids
  /\ NoUuid \notin Uuids /\ EmptyID \notin Uuids /\ NoUuid # EmptyID
  /\ ClusterName # ForeignCluster
  /\ ClusterName \in MatchingClusters
  /\ GraceCoversLaunch \in BOOLEAN

vars == <<vsphereVars, providerVars, clusterVars, claimVars, gcVars>>

IDs == Uuids \cup {NoUuid, EmptyID}

VMNames == {<<>>} \cup ({ClusterName, ForeignCluster} \X (Claims \cup Uuids))
TagPairs ==
  ClassTags \cup ForeignTags \cup {<<ClusterNameTagKey, ClusterName>>}
  \cup { <<NodePoolLabelKey, PoolOf[c]>> : c \in Claims }
  \cup { <<LabelInstanceSize, t>> : t \in Types \cup {NoType} }

\* Every variable stays within the values the code can give it; in particular
\* the providerID that Create reports is a UUID or the empty one.
TypeOK ==
  /\ power \in [Uuids -> PowerStates]
  /\ old \in [Uuids -> BOOLEAN]
  /\ pc \in [Claims -> {"idle"} \cup CreateSteps \cup DeleteSteps]
  /\ cur \in [Claims -> IDs]
  /\ curType \in [Claims -> Types \cup {NoType}]
  /\ faults \in 0 .. MaxFaults
  /\ class \in {"ready", "unknown", "notready", "terminating"}
  /\ offered \subseteq Types
  /\ poolUp \in [Pools -> BOOLEAN]
  /\ claim \in [Claims -> {"absent", "live", "deleting", "gone"}]
  /\ providerID \in [Claims -> IDs]
  /\ cachedID \in [Claims -> IDs]
  /\ nodes \subseteq Uuids
  /\ gcPc \in {"idle", "list", "claims", "nodes", "collect"}
  /\ gcw \in [Uuids -> GcStates]
  /\ gcKnown \subseteq IDs
  /\ gcNodes \subseteq Uuids
  /\ vmName \in [Uuids -> VMNames]
  /\ vmTags \in [Uuids -> SUBSET TagPairs]

Init ==
  /\ power  = [u \in Uuids |-> IF u \in Foreign THEN "on" ELSE "free"]
  /\ vmName = [u \in Uuids |-> IF u \in Foreign THEN <<ForeignCluster, u>> ELSE <<>>]
  /\ vmTags = [u \in Uuids |-> IF u \in Foreign THEN ForeignTags ELSE {}]
  /\ old    = [u \in Uuids |-> u \in Foreign]
  /\ pc = [c \in Claims |-> "idle"]
  /\ cur = [c \in Claims |-> NoUuid]
  /\ curType = [c \in Claims |-> NoType]
  /\ faults = 0
  /\ class = "ready" /\ offered = Types /\ poolUp = [p \in Pools |-> TRUE]
  /\ claim = [c \in Claims |-> "absent"]
  /\ providerID = [c \in Claims |-> NoUuid]
  /\ cachedID = [c \in Claims |-> NoUuid]
  /\ nodes = {}
  /\ gcPc = "idle" /\ gcw = NoWorkers /\ gcKnown = {} /\ gcNodes = {}

InFlight(u) == \E c \in Claims : pc[c] \in CreateSteps /\ cur[c] = u

\* The claim runs on machine u as far as the API server knows.
LiveOn(c, u) == claim[c] = "live" /\ providerID[c] = u

(* Karpenter core ---------------------------------------------------------*)

\* The scheduler creates a claim; names are never used again.
AddClaim(c) ==
  /\ claim[c] = "absent"
  /\ claim' = [claim EXCEPT ![c] = "live"]
  /\ UNCHANGED <<providerID, cachedID, nodes, vsphereVars, providerVars, clusterVars, gcVars>>

\* Disruption, expiry, a registration timeout or a user deletes the claim.
DeleteClaim(c) ==
  /\ claim[c] = "live"
  /\ claim' = [claim EXCEPT ![c] = "deleting"]
  /\ UNCHANGED <<providerID, cachedID, nodes, vsphereVars, providerVars, clusterVars, gcVars>>

\* CloudProvider.Create passes its checks and calls the instance provider.
StartCreate(c) ==
  /\ claim[c] = "live" /\ pc[c] = "idle" /\ providerID[c] = NoUuid
  /\ \E t \in Types : MayLaunch(t) /\ curType' = [curType EXCEPT ![c] = t]
  /\ Goto(c, "clone")
  /\ UNCHANGED <<cur, faults, vsphereVars, clusterVars, claimVars, gcVars>>

\* CloudProvider.Create refuses; core deletes the claim on these errors.
RefuseCreate(c) ==
  /\ claim[c] = "live" /\ pc[c] = "idle" /\ providerID[c] = NoUuid
  /\ LaunchRefused
  /\ claim' = [claim EXCEPT ![c] = "deleting"]
  /\ UNCHANGED <<providerID, cachedID, nodes, vsphereVars, providerVars, clusterVars, gcVars>>

\* Core stores the created claim's providerID.  The result is kept in memory
\* until the patch succeeds, also when the claim is deleted meanwhile.
Persist(c) ==
  /\ pc[c] = "persist"
  /\ providerID' = [providerID EXCEPT ![c] = cur[c]]
  /\ Return(c)
  /\ UNCHANGED <<faults, claim, cachedID, nodes, vsphereVars, clusterVars, gcVars>>

\* The patch failed and the claim is being deleted: the next reconcile
\* finalizes it without looking at the result.
DropResult(c) ==
  /\ pc[c] = "persist" /\ claim[c] = "deleting"
  /\ Fault /\ Return(c)
  /\ UNCHANGED <<vsphereVars, clusterVars, claimVars, gcVars>>

\* Mutant of StartDelete: Delete resolves the instance type first, as Get does.
MutantDeleteResolves(c) ==
  /\ claim[c] = "deleting" /\ pc[c] = "idle"
  /\ providerID[c] \in Uuids /\ Exists(providerID[c])
  /\ InstanceTypeResolves(vmTags[providerID[c]])
  /\ nodes' = nodes \ {providerID[c]}
  /\ Goto(c, "poweroff")
  /\ cur' = [cur EXCEPT ![c] = providerID[c]]
  /\ UNCHANGED <<curType, faults, claim, providerID, cachedID,
                 vsphereVars, clusterVars, gcVars>>

\* Finalization of a launched claim: its Node is drained and deleted, then
\* CloudProvider.Delete looks the machine up.
StartDelete(c) ==
  /\ claim[c] = "deleting" /\ pc[c] = "idle"
  /\ providerID[c] \in Uuids /\ Exists(providerID[c])
  /\ nodes' = nodes \ {providerID[c]}
  /\ Goto(c, "poweroff")
  /\ cur' = [cur EXCEPT ![c] = providerID[c]]
  /\ UNCHANGED <<curType, faults, claim, providerID, cachedID,
                 vsphereVars, clusterVars, gcVars>>

\* Mutant of FinalizeClaim: the lookup finds running machines only.
MutantStoppedNotFound(c) ==
  /\ claim[c] = "deleting" /\ pc[c] = "idle"
  /\ providerID[c] \in Uuids => power[providerID[c]] # "on"
  /\ providerID[c] # EmptyID
  /\ claim' = [claim EXCEPT ![c] = "gone"]
  /\ UNCHANGED <<providerID, cachedID, nodes, vsphereVars, providerVars, clusterVars, gcVars>>

\* The finalizer is removed: there is nothing to delete, or Delete or Get
\* answered NodeClaimNotFound.
FinalizeClaim(c) ==
  /\ claim[c] = "deleting" /\ pc[c] = "idle"
  /\ providerID[c] \in Uuids => ~ Exists(providerID[c])
  /\ providerID[c] # EmptyID
  /\ claim' = [claim EXCEPT ![c] = "gone"]
  /\ UNCHANGED <<providerID, cachedID, nodes, vsphereVars, providerVars, clusterVars, gcVars>>

\* "vsphere://" parses to the empty UUID; vCenter may answer that no machine
\* has it, and then the claim is finalized, or may reject it forever.
FinalizeEmptyID(c) ==
  /\ claim[c] = "deleting" /\ pc[c] = "idle" /\ providerID[c] = EmptyID
  /\ claim' = [claim EXCEPT ![c] = "gone"]
  /\ UNCHANGED <<providerID, cachedID, nodes, vsphereVars, providerVars, clusterVars, gcVars>>

\* The steps of the instance provider's calls.
CallStep(c) ==
  /\ Clone(c) \/ Tag(c) \/ PowerOn(c) \/ Report(c) \/ ClaimPowerOff(c) \/ ClaimDestroy(c)
  /\ UNCHANGED <<clusterVars, claimVars, gcVars>>

ReconcileClaim(c) ==
  \/ StartCreate(c) \/ RefuseCreate(c) \/ CallStep(c) \/ Persist(c)
  \/ StartDelete(c) \/ FinalizeClaim(c)

(* Time, caches and the rest of the cluster -------------------------------*)

\* A watch event reaches the informer cache.
CacheSync(c) ==
  /\ cachedID[c] # IF claim[c] = "gone" THEN NoUuid ELSE providerID[c]
  /\ cachedID' = [cachedID EXCEPT ![c] = IF claim[c] = "gone" THEN NoUuid ELSE providerID[c]]
  /\ UNCHANGED <<claim, providerID, nodes, vsphereVars, providerVars, clusterVars, gcVars>>

\* What the five minutes of the collector are meant to cover: the rest of the
\* launch, the way of its result into the cache, and, for a machine that a
\* pass has listed, the time until its worker looks at the clock.
GraceCovers(u) ==
  /\ ~ InFlight(u)
  /\ \A c \in Claims : LiveOn(c, u) => cachedID[c] = u
  /\ gcw[u] \notin {"inspect", "listed"}

\* Five minutes have passed since config.createDate.
Age(u) ==
  /\ Exists(u) /\ ~ old[u]
  /\ GraceCoversLaunch => GraceCovers(u)
  /\ old' = [old EXCEPT ![u] = TRUE]
  /\ UNCHANGED <<power, vmName, vmTags, providerVars, clusterVars, claimVars, gcVars>>

\* The kubelet of a running machine registers its Node.
NodeJoin(u) ==
  /\ power[u] = "on" /\ u \notin Foreign /\ u \notin nodes
  /\ nodes' = nodes \cup {u}
  /\ UNCHANGED <<claim, providerID, cachedID, vsphereVars, providerVars, clusterVars, gcVars>>

Edit ==
  /\ SetClass \/ EditTypes \/ \E p \in Pools : DeletePool(p)
  /\ UNCHANGED <<vsphereVars, providerVars, claimVars, gcVars>>

\* The process dies: every running call ends where it is, results in memory
\* are lost, and the restarted process reads a fresh cache.
Crash ==
  /\ Fault
  /\ pc' = [c \in Claims |-> "idle"]
  /\ cur' = [c \in Claims |-> NoUuid]
  /\ curType' = [c \in Claims |-> NoType]
  /\ cachedID' = [c \in Claims |-> IF claim[c] = "gone" THEN NoUuid ELSE providerID[c]]
  /\ GcReturn
  /\ UNCHANGED <<claim, providerID, nodes, vsphereVars, clusterVars>>

Next ==
  \/ \E c \in Claims :
       \/ AddClaim(c) \/ DeleteClaim(c) \/ ReconcileClaim(c) \/ DropResult(c)
       \/ FinalizeEmptyID(c) \/ CacheSync(c)
  \/ \E u \in Uuids : Age(u) \/ NodeJoin(u)
  \/ GcStep \/ GcAbort \/ Edit \/ Crash

Spec == Init /\ [][Next]_vars

\* Controller work queues and the ticker keep reconciling, watches deliver,
\* time passes.  Under GraceCoversLaunch the clock of a machine only stands
\* still while a pass holds it, hence the strong fairness of Age.  Users,
\* kubelets, failures and crashes owe nothing.
Fairness ==
  /\ \A c \in Claims : WF_vars(ReconcileClaim(c)) /\ WF_vars(CacheSync(c))
  /\ \A u \in Uuids : SF_vars(Age(u))
  /\ WF_vars(GcStep)

FairSpec == Spec /\ Fairness
(* Properties -------------------------------------------------------------*)

Own(u) == u \notin Foreign
NamedFor(c, u) == vmName[u] = GenerateVMName(ClusterName, c)

\* Some call will still do something with the machine.
Attended(u) ==
  \/ InFlight(u)
  \/ \E c \in Claims : pc[c] = "destroy" /\ cur[c] = u
  \/ gcw[u] = "destroy"

\* A stopped machine that no call attends to any more.
Stuck(u) == Own(u) /\ power[u] = "off" /\ ~ Attended(u)

\* Whatever the interleaving of launches, deletions, collections and crashes,
\* the machine of a live, launched claim runs: the collector's snapshots of
\* machines and claims, taken at different times and from a stale cache, never
\* make it delete a machine in use (garbagecollection.go, Reconcile).  This
\* rests on GraceCoversLaunch.
LaunchedClaimRuns ==
  \A c \in Claims, u \in Uuids : LiveOn(c, u) => power[u] = "on"

\* A claim is only finalized once Delete has destroyed its machine, even when
\* the collector deletes the same machine at the same time; a machine that
\* outlives its claim is the trace of a failed call or a crash, and is never
\* the one recorded in the claim.
FinalizedClaimLeavesNoVM ==
  \A c \in Claims, u \in Uuids :
    claim[c] = "gone" /\ Exists(u) /\ NamedFor(c, u) => faults > 0 /\ providerID[c] # u

\* The machines of a cluster whose name starts with this cluster's name share
\* the listing of ListVMs and must survive every collection: List is meant to
\* "find only VMs belonging to current cluster".
ForeignUntouched == \A u \in Foreign : power[u] = "on"

\* Every running machine that Create made is one that List recognises as
\* belonging to the cluster, so that an orphan can be collected: Create powers
\* a machine on only after all its tags are attached.
OwnRunningVMsListed ==
  \A u \in Uuids : Own(u) /\ power[u] = "on" => BelongsToCluster(u)

\* A Node is removed when its machine is destroyed, or by the deletion of the
\* claim that recorded the machine.  If the five minutes outlast a launch and a
\* pass, it is never the Node of a live claim or of a launch that still runs,
\* even though the collector deletes it long after it listed claims and Nodes.
NodeRemovalSafe ==
  [][ \A u \in Uuids : u \in nodes /\ u \notin nodes' =>
        /\ \/ power[u] = "destroyed"
           \/ \E c \in Claims : claim[c] = "deleting" /\ providerID[c] = u
        /\ GraceCoversLaunch => ~ InFlight(u) /\ \A c \in Claims : ~ LiveOn(c, u) ]_vars

\* A machine that is stopped and unattended stays so forever: Delete begins
\* with PowerOff, which fails on a stopped machine, and List skips it, so
\* neither the claim's finalization nor the collector can remove it.
LeakIsPermanent == [][ \A u \in Uuids : Stuck(u) => Stuck(u)' ]_vars

\* Create does not take over what an earlier attempt left: once a stopped
\* machine holds the claim's name, every new attempt fails at Clone, and the
\* claim never gets a machine.
StuckNameBlocksLaunch ==
  \A c \in Claims, u \in Uuids :
    []( Stuck(u) /\ NamedFor(c, u) /\ providerID[c] = NoUuid
        => [](providerID[c] \notin Uuids) )

\* Deletion ends: a deleted claim goes away, unless its machine is stuck
\* between PowerOff and Destroy or its recorded providerID is empty.
DeletedClaimsTerminate ==
  \A c \in Claims :
    claim[c] = "deleting" ~>
      \/ claim[c] = "gone"
      \/ providerID[c] = EmptyID
      \/ \E u \in Uuids : providerID[c] = u /\ Stuck(u)

\* No claim will ever delete this running machine.
Orphan(u) ==
  /\ Own(u) /\ power[u] = "on" /\ ~ InFlight(u)
  /\ \A c \in Claims : providerID[c] = u => claim[c] = "gone"

AllResolve ==
  \A u \in Uuids : power[u] = "on" /\ BelongsToCluster(u) => InstanceTypeResolves(vmTags[u])

\* Orphans do not run forever, provided that the instance types of all listed
\* machines stay resolvable: one that is not makes List fail for all.
OrphansCollected ==
  <>[]AllResolve => \A u \in Uuids : Orphan(u) ~> ~ Orphan(u)

\* A launch settles: the claim gets its providerID, or is deleted, or its name
\* is held by a stuck machine; the class must not stay in readiness Unknown.
LaunchSettles ==
  <>[](AllResolve /\ class # "unknown") =>
    \A c \in Claims :
      claim[c] = "live" ~>
        \/ providerID[c] # NoUuid
        \/ claim[c] # "live"
        \/ \E u \in Uuids : NamedFor(c, u) /\ Stuck(u)

\* The machine of a claim as core sees it: the one its providerID names.
machineOf ==
  [c \in Claims |->
     IF providerID[c] = NoUuid THEN "none"
     ELSE IF providerID[c] = EmptyID THEN "unknown"
     ELSE CASE power[providerID[c]] = "on" -> "running"
            [] power[providerID[c]] = "off" -> "stopped"
            [] OTHER -> "destroyed"]

Contract == INSTANCE AbstractProvider WITH machine <- machineOf

\* The provider keeps the contract: with all its concurrency and failures it
\* implements AbstractProvider.  This rests on GraceCoversLaunch.
ImplementsContract == Contract!ASpec

(* The inductive invariant ------------------------------------------------*)

\* What the step of a call says about the claim and the machine it works on.
CallShape ==
  \A c \in Claims :
    /\ pc[c] \in {"idle", "clone"} => cur[c] = NoUuid
    /\ pc[c] \in {"tag", "poweron", "report"} \cup DeleteSteps => cur[c] \in Uuids
    /\ pc[c] = "persist" => cur[c] # NoUuid
    /\ claim[c] = "absent" => providerID[c] = NoUuid
    /\ pc[c] \in CreateSteps => providerID[c] = NoUuid /\ claim[c] \in {"live", "deleting"}
    /\ pc[c] \in DeleteSteps => claim[c] = "deleting" /\ providerID[c] = cur[c]

\* A machine recorded in a claim or used by a call carries the claim's name:
\* no two claims ever meet in one machine.
NamesMatch ==
  \A c \in Claims, u \in Uuids :
    providerID[c] = u \/ cur[c] = u => NamedFor(c, u) /\ power[u] # "free"

\* A machine is young before it is cloned and while its launch runs, and in
\* the power state its launch has brought it to.
LaunchProgress ==
  /\ \A u \in Uuids : power[u] = "free" \/ InFlight(u) => ~ old[u]
  /\ \A c \in Claims :
       /\ pc[c] \in {"tag", "poweron"} => power[cur[c]] = "off"
       /\ pc[c] \in {"report", "persist"} /\ cur[c] \in Uuids => power[cur[c]] = "on"

\* The collector's view of machines in use: an old one is in the cache, one
\* that a worker may still take is young or known, and one that a worker
\* deletes is not in use.
CollectorSafe ==
  \A u \in Uuids :
    /\ \A c \in Claims :
         LiveOn(c, u) /\ old[u] =>
           cachedID[c] = u /\ (gcPc \in {"nodes", "collect"} /\ gcw[u] = "listed" => u \in gcKnown)
    /\ gcw[u] \in {"poweroff", "destroy", "node"} =>
         /\ power[u] # "free" /\ ~ InFlight(u)
         /\ \A c \in Claims : ~ LiveOn(c, u)

IndInv ==
  TypeOK /\ CallShape /\ NamesMatch /\ LaunchProgress /\ CollectorSafe /\ LaunchedClaimRuns
=============================================================================
