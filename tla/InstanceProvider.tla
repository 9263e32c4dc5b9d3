-------------------------- MODULE InstanceProvider --------------------------
(***************************************************************************)
(* pkg/providers/instance: the Create and Delete calls that run on behalf  *)
(* of a NodeClaim, one step per vSphere task they wait for.                *)
(*                                                                         *)
(* A call is a sequential Go function; pc[c] is the step the reconcile of  *)
(* claim c will run next.  Between two steps anything else may happen.     *)
(* Every step may fail: the failure either left no trace or left the task  *)
(* done although its Wait returned an error (a lost answer).  A failed     *)
(* step ends the call; the reconcile is retried from the start.            *)
(***************************************************************************)
EXTENDS Vsphere, Naturals

CONSTANTS
  Claims,       \* NodeClaim names
  Types,        \* instance type names
  ClusterName,  \* options.ClusterName
  ClassTags,    \* VsphereNodeClass.spec.tags: a set of <<key, value>> pairs
  PoolOf,       \* the node pool label of each claim
  NoUuid,       \* providerID not set
  EmptyID,      \* the providerID "vsphere://", made when vm.UUID fails
  MaxFaults     \* bound: failed calls and crashes in one behaviour

ASSUME FaultBound == MaxFaults \in Nat

VARIABLES
  pc,        \* the next step of the claim's reconcile, "idle" when none runs
  cur,       \* the machine that the running call works on
  curType,   \* the instance type that the running Create launches
  faults     \* failures so far

NoType == "none"

providerVars == <<pc, cur, curType, faults>>

CreateSteps == {"clone", "tag", "poweron", "report", "persist"}
DeleteSteps == {"poweroff", "destroy"}

Fault == faults < MaxFaults /\ faults' = faults + 1
NoFault == UNCHANGED faults

(* Names and tags ---------------------------------------------------------*)

GenerateVMName(cluster, claim) == <<cluster, claim>>

ClusterNameTagKey == "karpenter.sh/clustername"
NodePoolLabelKey  == "karpenter.sh/nodepool"
LabelInstanceSize == "karpenter.vsphere.com/instance-size"

\* The key under which List looks for the cluster name, spelled as in the code.
ListedTagKey == "karpneter.sh/clustername"

\* maps.Copy(instanceTags, class.Spec.Tags): the class wins on equal keys.
\* The tags for class, CPU and memory, which nothing reads, are left out.
InstanceTags(c) ==
  LET base == { <<ClusterNameTagKey, ClusterName>>,
                <<NodePoolLabelKey, PoolOf[c]>>,
                <<LabelInstanceSize, curType[c]>> }
  IN { p \in base : \A q \in ClassTags : q[1] # p[1] } \cup ClassTags

\* Mutant of BelongsToCluster: List asks for the tag, not for its value.
MutantAnyCluster(u) == TagValue(vmTags[u], ListedTagKey) # ""

\* The filter of List on the tags of one machine.
BelongsToCluster(u) == TagValue(vmTags[u], ListedTagKey) = ClusterName

(* Create -----------------------------------------------------------------*)

Goto(c, step) == pc' = [pc EXCEPT ![c] = step]

\* The call returns: its local variables are gone.
Return(c) ==
  /\ Goto(c, "idle")
  /\ cur' = [cur EXCEPT ![c] = NoUuid]
  /\ curType' = [curType EXCEPT ![c] = NoType]

\* Mutant of Clone: a machine found under the name is taken over.
MutantCloneAdopts(c) ==
  LET name == GenerateVMName(ClusterName, c) IN
  /\ pc[c] = "clone" /\ NoFault
  /\ \E u \in Uuids :
       /\ \/ Exists(u) /\ vmName[u] = name /\ UNCHANGED <<power, vmName>>
          \/ CloneVM(u, name)
       /\ cur' = [cur EXCEPT ![c] = u]
  /\ Goto(c, "tag")
  /\ UNCHANGED <<curType, vmTags, old>>

\* VMByName, Clone and Wait.  A machine that already has the name is ignored
\* by the lookup and makes the clone task fail.
Clone(c) ==
  LET name == GenerateVMName(ClusterName, c) IN
  /\ pc[c] = "clone"
  /\ \/ /\ NameTaken(name)
        /\ Return(c) /\ NoFault
        /\ UNCHANGED <<power, vmName>>
     \/ \E u \in Uuids :
          /\ CloneVM(u, name)
          /\ Goto(c, "tag") /\ NoFault
          /\ cur' = [cur EXCEPT ![c] = u]
          /\ UNCHANGED curType
     \/ /\ Fault /\ Return(c)
        /\ \/ \E u \in Uuids : CloneVM(u, name)
           \/ UNCHANGED <<power, vmName>>
  /\ UNCHANGED <<vmTags, old>>

\* Mutant of Tag: a failed TagInstance does not end the call.
MutantTagBestEffort(c) ==
  /\ pc[c] = "tag"
  /\ \E tags \in SUBSET InstanceTags(c) :
       /\ AttachTags(cur[c], tags)
       /\ IF tags = InstanceTags(c) THEN NoFault ELSE Fault
  /\ Goto(c, "poweron")
  /\ UNCHANGED <<cur, curType, power, vmName, old>>

\* VMByName, TagInstance and extractCreationDate.  The tags are attached one
\* by one in map order, so a failure leaves any subset of them.  To lose the
\* race for a new tag (TagInventory) is one such failure.
Tag(c) ==
  /\ pc[c] = "tag"
  /\ \/ AttachTags(cur[c], InstanceTags(c)) /\ Goto(c, "poweron") /\ NoFault
        /\ UNCHANGED <<cur, curType>>
     \/ /\ Fault /\ Return(c)
        /\ \E tags \in SUBSET InstanceTags(c) : AttachTags(cur[c], tags)
  /\ UNCHANGED <<power, vmName, old>>

\* PowerOn and Wait.  A failed request leaves a nil task and panics; the
\* controller runtime turns the panic into an error of the reconcile.
PowerOn(c) ==
  /\ pc[c] = "poweron"
  /\ \/ PowerOnVM(cur[c]) /\ Goto(c, "report") /\ NoFault
        /\ UNCHANGED <<cur, curType>>
     \/ Fault /\ Return(c) /\ (PowerOnVM(cur[c]) \/ UNCHANGED power)
  /\ UNCHANGED <<vmName, vmTags, old>>

\* Mutant of Report: NewInstance gets the instance type in place of the ID.
MutantReportSwapped(c) ==
  /\ pc[c] = "report" /\ Exists(cur[c]) /\ NoFault
  /\ Goto(c, "persist")
  /\ cur' = [cur EXCEPT ![c] = curType[c]]
  /\ UNCHANGED <<curType, vsphereVars>>

\* PowerState and NewInstance.  PowerState fails when the machine is gone;
\* its value is reported, not tested.  vm.UUID gives "" when its read fails.
Report(c) ==
  /\ pc[c] = "report"
  /\ \/ Exists(cur[c]) /\ Goto(c, "persist") /\ NoFault
        /\ UNCHANGED <<cur, curType>>
     \/ ~ Exists(cur[c]) /\ Return(c) /\ NoFault
     \/ Fault /\ Return(c)
     \/ /\ Exists(cur[c]) /\ Fault /\ Goto(c, "persist")
        /\ cur' = [cur EXCEPT ![c] = EmptyID]
        /\ UNCHANGED curType
  /\ UNCHANGED vsphereVars

(* Delete -----------------------------------------------------------------*)
(* Delete runs for a deleting claim and, unchanged, in the garbage         *)
(* collector; Done and Failed say how the caller continues.                *)

\* PowerOff and Wait.
DeletePowerOff(u, Done, Failed) ==
  \/ PowerOffVM(u) /\ Done /\ NoFault
  \/ power[u] # "on" /\ Failed /\ NoFault /\ UNCHANGED power
  \/ Fault /\ Failed /\ (PowerOffVM(u) \/ UNCHANGED power)

\* Destroy and Wait.
DeleteDestroy(u, Done, Failed) ==
  \/ DestroyVM(u) /\ Done /\ NoFault
  \/ power[u] # "off" /\ Failed /\ NoFault /\ UNCHANGED power
  \/ Fault /\ Failed /\ (DestroyVM(u) \/ UNCHANGED power)

\* Mutant of ClaimPowerOff: a machine that is not running is no error.
MutantToleratesStopped(c) ==
  /\ pc[c] = "poweroff"
  /\ Goto(c, "destroy") /\ NoFault
  /\ PowerOffVM(cur[c]) \/ (power[cur[c]] # "on" /\ UNCHANGED power)
  /\ UNCHANGED <<cur, curType, vmName, vmTags, old>>

ClaimPowerOff(c) ==
  /\ pc[c] = "poweroff"
  /\ DeletePowerOff(cur[c], Goto(c, "destroy") /\ UNCHANGED <<cur, curType>>, Return(c))
  /\ UNCHANGED <<vmName, vmTags, old>>

ClaimDestroy(c) ==
  /\ pc[c] = "destroy"
  /\ DeleteDestroy(cur[c], Return(c), Return(c))
  /\ UNCHANGED <<vmName, vmTags, old>>
=============================================================================
