------------------------- MODULE GarbageCollection -------------------------
(***************************************************************************)
(* pkg/controllers/nodeclaim/garbagecollection: the singleton controller   *)
(* that destroys machines no NodeClaim knows.  One pass lists the machines *)
(* of vSphere one by one, resolves their instance types, then lists the    *)
(* NodeClaims and the Nodes, then lets parallel workers compare and        *)
(* delete.  All of it runs beside the claims' own Create and Delete calls. *)
(***************************************************************************)
EXTENDS CloudProvider

CONSTANT MatchingClusters  \* cluster names that start with ClusterName

VARIABLES
  claim,      \* "absent", "live", "deleting" or "gone" in the API server
  providerID, \* status.providerID in the API server
  cachedID,   \* status.providerID in this process's informer cache
  nodes,      \* machines that have a Node object
  gcPc,       \* "idle", "list", "claims", "nodes" or "collect"
  gcw,        \* per machine: where the pass stands with it
  gcKnown,    \* resolvedProviderIDs
  gcNodes     \* nodeList: the Nodes seen by this pass

claimVars == <<claim, providerID, cachedID, nodes>>
gcVars == <<gcPc, gcw, gcKnown, gcNodes>>

GcStates == {"none", "inspect", "listed", "poweroff", "destroy", "node"}

NoWorkers == [u \in Uuids |-> "none"]

\* The reconcile returns: with its result, with an error, or by a panic that
\* the controller runtime recovers.
GcReturn ==
  /\ gcPc' = "idle" /\ gcw' = NoWorkers /\ gcKnown' = {} /\ gcNodes' = {}

gcRest == <<vmName, vmTags, old, pc, cur, curType, clusterVars, claim, providerID, cachedID>>

(* instanceProvider.List --------------------------------------------------*)

\* finder.ListVMs: every machine in the folder whose name starts with the
\* cluster name.
GcListVMs ==
  /\ gcPc = "idle"
  /\ gcPc' = "list"
  /\ gcw' = [u \in Uuids |->
               IF Exists(u) /\ vmName[u][1] \in MatchingClusters
               THEN "inspect" ELSE "none"]
  /\ UNCHANGED <<gcKnown, gcNodes, power, faults, nodes, gcRest>>

\* One turn of the loop of List.  A stopped machine is skipped, unless its
\* power state could not be read.  A machine whose tags or UUID could not be
\* read is not collected in this pass.
GcInspect(u) ==
  /\ gcPc = "list" /\ gcw[u] = "inspect"
  /\ \/ /\ NoFault
        /\ gcw' = [gcw EXCEPT ![u] =
                     IF power[u] = "on" /\ BelongsToCluster(u) THEN "listed" ELSE "none"]
     \/ /\ Fault
        /\ \/ gcw' = [gcw EXCEPT ![u] = "none"]
           \/ /\ power[u] = "off" /\ BelongsToCluster(u)
              /\ gcw' = [gcw EXCEPT ![u] = "listed"]
  /\ UNCHANGED <<gcPc, gcKnown, gcNodes, power, nodes, gcRest>>

\* cloudProvider.List converts the instances; one that does not resolve fails
\* the whole pass.
GcResolve ==
  /\ gcPc = "list" /\ \A u \in Uuids : gcw[u] # "inspect"
  /\ \/ /\ \A u \in Uuids : gcw[u] = "listed" => InstanceTypeResolves(vmTags[u])
        /\ gcPc' = "claims" /\ UNCHANGED <<gcw, gcKnown, gcNodes>>
     \/ /\ \E u \in Uuids : gcw[u] = "listed" /\ ~ InstanceTypeResolves(vmTags[u])
        /\ GcReturn
  /\ UNCHANGED <<power, faults, nodes, gcRest>>

(* Reconcile --------------------------------------------------------------*)

\* The claims come from the informer cache, after the machines were listed.
GcListClaims ==
  /\ gcPc = "claims"
  /\ gcPc' = "nodes"
  /\ gcKnown' = { cachedID[c] : c \in Claims } \ {NoUuid}
  /\ UNCHANGED <<gcw, gcNodes, power, faults, nodes, gcRest>>

\* So do the Nodes, in a call of their own; one that joined lately may be missing.
GcListNodes ==
  /\ gcPc = "nodes"
  /\ gcPc' = "collect"
  /\ gcNodes' \in SUBSET nodes
  /\ UNCHANGED <<gcw, gcKnown, power, faults, nodes, gcRest>>

\* Mutants of GcCheck: the age, or the claims, are not looked at, or the
\* comparison with the age is the wrong way round.
MutantCheckNoAge(u) ==
  /\ gcPc = "collect" /\ gcw[u] = "listed"
  /\ gcw' = [gcw EXCEPT ![u] = IF u \notin gcKnown /\ Exists(u) THEN "poweroff" ELSE "none"]
  /\ UNCHANGED <<gcPc, gcKnown, gcNodes, power, faults, nodes, gcRest>>
MutantCheckAgeOnly(u) ==
  /\ gcPc = "collect" /\ gcw[u] = "listed"
  /\ gcw' = [gcw EXCEPT ![u] = IF old[u] /\ Exists(u) THEN "poweroff" ELSE "none"]
  /\ UNCHANGED <<gcPc, gcKnown, gcNodes, power, faults, nodes, gcRest>>
MutantCheckYoung(u) ==
  /\ gcPc = "collect" /\ gcw[u] = "listed"
  /\ gcw' = [gcw EXCEPT ![u] =
               IF u \notin gcKnown /\ ~ old[u] /\ Exists(u) THEN "poweroff" ELSE "none"]
  /\ UNCHANGED <<gcPc, gcKnown, gcNodes, power, faults, nodes, gcRest>>

\* A worker compares the snapshots, and the age of the machine as of now, and
\* enters Delete, whose lookup answers NotFound for a destroyed machine.
GcCheck(u) ==
  /\ gcPc = "collect" /\ gcw[u] = "listed"
  /\ gcw' = [gcw EXCEPT ![u] =
               IF u \notin gcKnown /\ old[u] /\ Exists(u) THEN "poweroff" ELSE "none"]
  /\ UNCHANGED <<gcPc, gcKnown, gcNodes, power, faults, nodes, gcRest>>

GcGoto(u, step) == gcw' = [gcw EXCEPT ![u] = step]

GcPowerOff(u) ==
  /\ gcw[u] = "poweroff"
  /\ DeletePowerOff(u, GcGoto(u, "destroy"), GcGoto(u, "none"))
  /\ UNCHANGED <<gcPc, gcKnown, gcNodes, nodes, gcRest>>

\* Mutant of GcDestroy: the Node goes even when Delete failed.
MutantNodeRegardless(u) ==
  /\ gcw[u] = "destroy"
  /\ DeleteDestroy(u, GcGoto(u, "node"), GcGoto(u, "node"))
  /\ UNCHANGED <<gcPc, gcKnown, gcNodes, nodes, gcRest>>

GcDestroy(u) ==
  /\ gcw[u] = "destroy"
  /\ DeleteDestroy(u, GcGoto(u, "node"), GcGoto(u, "none"))
  /\ UNCHANGED <<gcPc, gcKnown, gcNodes, nodes, gcRest>>

\* The Node object is deleted when this pass saw one; NotFound is ignored.
GcDeleteNode(u) ==
  /\ gcw[u] = "node"
  /\ GcGoto(u, "none")
  /\ nodes' = IF u \in gcNodes THEN nodes \ {u} ELSE nodes
  /\ UNCHANGED <<gcPc, gcKnown, gcNodes, power, faults, gcRest>>

GcFinish ==
  /\ gcPc = "collect" /\ gcw = NoWorkers
  /\ GcReturn
  /\ UNCHANGED <<power, faults, nodes, gcRest>>

\* The creation date of a listed machine, the claims or the Nodes could not be
\* read.
GcAbort ==
  /\ gcPc \in {"list", "claims", "nodes"} /\ Fault
  /\ GcReturn
  /\ UNCHANGED <<power, nodes, gcRest>>

GcStep ==
  \/ GcListVMs \/ GcResolve \/ GcListClaims \/ GcListNodes \/ GcFinish
  \/ \E u \in Uuids : GcInspect(u) \/ GcCheck(u) \/ GcPowerOff(u)
                      \/ GcDestroy(u) \/ GcDeleteNode(u)
=============================================================================
