------------------------ MODULE NodeLifecycleProofs ------------------------
(***************************************************************************)
(* Proofs about NodeLifecycle for every set of claims, machines and        *)
(* faults.                                                                 *)
(***************************************************************************)
EXTENDS NodeLifecycle, TLAPS

(* Type correctness -------------------------------------------------------*)

\* The tags that Create attaches come from the class and from the claim.
LEMMA InstanceTagsType ==
  ASSUME TypeOK, NEW c \in Claims
  PROVE  InstanceTags(c) \subseteq TagPairs
  BY DEF TypeOK, InstanceTags, TagPairs

LEMMA TypeInit == Init => TypeOK
  BY LifecycleConstants, FaultBound
  DEF Init, TypeOK, IDs, PowerStates, VMNames, TagPairs, NoWorkers, GcStates

LEMMA TypeCall ==
  ASSUME TypeOK, NEW c \in Claims, CallStep(c)
  PROVE  TypeOK'
<1> USE DEF TypeOK, IDs, vsphereVars, providerVars, clusterVars, claimVars, gcVars,
            Goto, Return, Fault, NoFault, CreateSteps, DeleteSteps, PowerStates
<1>1. CASE Clone(c)
  <2>1. GenerateVMName(ClusterName, c) \in VMNames
    BY DEF GenerateVMName, VMNames
  <2>2. vmName' \in [Uuids -> VMNames] /\ power' \in [Uuids -> PowerStates]
    BY <1>1, <2>1 DEF Clone, CloneVM
  <2>3. QED
    BY <1>1, <2>2, FaultBound, CallStep(c) DEF Clone, CallStep
<1>2. CASE Tag(c)
  <2>1. vmTags' \in [Uuids -> SUBSET TagPairs]
    BY <1>2, InstanceTagsType DEF Tag, AttachTags
  <2>2. QED
    BY <1>2, <2>1, FaultBound, CallStep(c) DEF Tag, CallStep
<1>3. CASE PowerOn(c)
  BY <1>3, FaultBound, CallStep(c) DEF PowerOn, PowerOnVM, CallStep
<1>4. CASE Report(c)
  BY <1>4, FaultBound, CallStep(c) DEF Report, CallStep
<1>5. CASE ClaimPowerOff(c)
  BY <1>5, FaultBound, CallStep(c) DEF ClaimPowerOff, DeletePowerOff, PowerOffVM, CallStep
<1>6. CASE ClaimDestroy(c)
  BY <1>6, FaultBound, CallStep(c) DEF ClaimDestroy, DeleteDestroy, DestroyVM, CallStep
<1>7. QED
  BY <1>1, <1>2, <1>3, <1>4, <1>5, <1>6 DEF CallStep

LEMMA TypeGc ==
  ASSUME TypeOK, GcStep \/ GcAbort
  PROVE  TypeOK'
<1> USE FaultBound
    DEF TypeOK, IDs, vsphereVars, providerVars, clusterVars, claimVars, gcVars, gcRest,
        GcReturn, NoWorkers, GcStates, GcGoto, Fault, NoFault, PowerStates
<1>1. CASE GcListVMs BY <1>1 DEF GcListVMs
<1>2. CASE GcResolve BY <1>2 DEF GcResolve
<1>3. CASE GcListClaims
  <2>1. { cachedID[c] : c \in Claims } \subseteq IDs
    OBVIOUS
  <2>2. QED BY <1>3, <2>1 DEF GcListClaims
<1>12. CASE GcListNodes BY <1>12 DEF GcListNodes
<1>4. CASE GcFinish BY <1>4 DEF GcFinish
<1>5. CASE GcAbort BY <1>5 DEF GcAbort
<1>6. ASSUME NEW u \in Uuids, GcInspect(u) PROVE TypeOK'
  BY <1>6 DEF GcInspect
<1>7. ASSUME NEW u \in Uuids, GcCheck(u) PROVE TypeOK'
  BY <1>7 DEF GcCheck
<1>8. ASSUME NEW u \in Uuids, GcPowerOff(u) PROVE TypeOK'
  BY <1>8 DEF GcPowerOff, DeletePowerOff, PowerOffVM
<1>9. ASSUME NEW u \in Uuids, GcDestroy(u) PROVE TypeOK'
  BY <1>9 DEF GcDestroy, DeleteDestroy, DestroyVM
<1>10. ASSUME NEW u \in Uuids, GcDeleteNode(u) PROVE TypeOK'
  BY <1>10 DEF GcDeleteNode
<1>11. QED
  BY <1>1, <1>2, <1>3, <1>4, <1>5, <1>6, <1>7, <1>8, <1>9, <1>10, <1>12 DEF GcStep

LEMMA TypeNext == TypeOK /\ [Next]_vars => TypeOK'
<1> SUFFICES ASSUME TypeOK, [Next]_vars PROVE TypeOK'
  OBVIOUS
<1> USE FaultBound
    DEF TypeOK, IDs, vsphereVars, providerVars, clusterVars, claimVars, gcVars,
        Goto, Return, Fault, CreateSteps, DeleteSteps
<1>1. ASSUME NEW c \in Claims, AddClaim(c) PROVE TypeOK'
  BY <1>1 DEF AddClaim
<1>2. ASSUME NEW c \in Claims, DeleteClaim(c) PROVE TypeOK'
  BY <1>2 DEF DeleteClaim
<1>3. ASSUME NEW c \in Claims, StartCreate(c) PROVE TypeOK'
  BY <1>3 DEF StartCreate
<1>4. ASSUME NEW c \in Claims, RefuseCreate(c) PROVE TypeOK'
  BY <1>4 DEF RefuseCreate
<1>5. ASSUME NEW c \in Claims, Persist(c) PROVE TypeOK'
  BY <1>5 DEF Persist
<1>6. ASSUME NEW c \in Claims, DropResult(c) PROVE TypeOK'
  BY <1>6 DEF DropResult
<1>7. ASSUME NEW c \in Claims, StartDelete(c) PROVE TypeOK'
  BY <1>7 DEF StartDelete
<1>8. ASSUME NEW c \in Claims, FinalizeClaim(c) PROVE TypeOK'
  BY <1>8 DEF FinalizeClaim
<1>9. ASSUME NEW c \in Claims, FinalizeEmptyID(c) PROVE TypeOK'
  BY <1>9 DEF FinalizeEmptyID
<1>10. ASSUME NEW c \in Claims, CacheSync(c) PROVE TypeOK'
  BY <1>10 DEF CacheSync
<1>11. ASSUME NEW u \in Uuids, Age(u) PROVE TypeOK'
  BY <1>11 DEF Age
<1>12. ASSUME NEW u \in Uuids, NodeJoin(u) PROVE TypeOK'
  BY <1>12 DEF NodeJoin
<1>13. CASE Edit
  BY <1>13, ClassBound DEF Edit, SetClass, EditTypes, DeletePool
<1>14. CASE Crash
  BY <1>14 DEF Crash, GcReturn, NoWorkers, GcStates
<1>15. CASE UNCHANGED vars
  BY <1>15 DEF vars
<1>16. QED
  BY <1>1, <1>2, <1>3, <1>4, <1>5, <1>6, <1>7, <1>8, <1>9, <1>10, <1>11, <1>12, <1>13,
     <1>14, <1>15, TypeCall, TypeGc
  DEF Next, ReconcileClaim

\* Every variable of the lifecycle keeps its type in every behaviour.
THEOREM TypeCorrect == Spec => []TypeOK
<1>1. QED BY TypeInit, TypeNext, PTL DEF Spec
(* Safety: the collector and the claims -----------------------------------*)

\* A machine's name determines its claim.
LEMMA OneClaimPerName ==
  ASSUME NEW c \in Claims, NEW d \in Claims, NEW u \in Uuids, NamedFor(c, u), NamedFor(d, u)
  PROVE  c = d
  BY DEF NamedFor, GenerateVMName

LEMMA IndInit == Init => IndInv
<1> SUFFICES ASSUME Init PROVE IndInv
  OBVIOUS
<1> USE LifecycleConstants DEF Init, CreateSteps, DeleteSteps, LiveOn, InFlight
<1>1. TypeOK BY TypeInit
<1>2. CallShape BY DEF CallShape
<1>3. NamesMatch BY DEF NamesMatch
<1>4. LaunchProgress BY DEF LaunchProgress
<1>5. CollectorSafe BY DEF CollectorSafe, NoWorkers
<1>6. LaunchedClaimRuns BY DEF LaunchedClaimRuns
<1>7. QED BY <1>1, <1>2, <1>3, <1>4, <1>5, <1>6 DEF IndInv

\* Two calls never work on the same machine.
LEMMA OneCallPerMachine ==
  ASSUME NamesMatch, NEW c \in Claims, NEW d \in Claims, c # d, cur[c] \in Uuids
  PROVE  cur[d] # cur[c]
  BY OneClaimPerName DEF NamesMatch


LEMMA IndAddClaim ==
  ASSUME IndInv, TypeOK', GraceCoversLaunch, NEW c \in Claims, AddClaim(c)
  PROVE  IndInv'
<1> USE LifecycleConstants
    DEF IndInv, TypeOK, IDs, vsphereVars, providerVars, clusterVars, claimVars, gcVars,
        CreateSteps, DeleteSteps, LiveOn, InFlight, Exists,
        AddClaim
<1>1. CallShape' BY DEF CallShape
<1>2. NamesMatch' BY DEF NamesMatch, NamedFor
<1>3. LaunchProgress' BY DEF LaunchProgress
<1>4. CollectorSafe' BY DEF CollectorSafe, CallShape
<1>5. LaunchedClaimRuns' BY DEF LaunchedClaimRuns, CallShape
<1>6. QED BY <1>1, <1>2, <1>3, <1>4, <1>5

LEMMA IndDeleteClaim ==
  ASSUME IndInv, TypeOK', GraceCoversLaunch, NEW c \in Claims, DeleteClaim(c)
  PROVE  IndInv'
<1> USE LifecycleConstants
    DEF IndInv, TypeOK, IDs, vsphereVars, providerVars, clusterVars, claimVars, gcVars,
        CreateSteps, DeleteSteps, LiveOn, InFlight, Exists,
        DeleteClaim
<1>1. CallShape' BY DEF CallShape
<1>2. NamesMatch' BY DEF NamesMatch, NamedFor
<1>3. LaunchProgress' BY DEF LaunchProgress
<1>4. CollectorSafe' BY DEF CollectorSafe
<1>5. LaunchedClaimRuns' BY DEF LaunchedClaimRuns
<1>6. QED BY <1>1, <1>2, <1>3, <1>4, <1>5

LEMMA IndStartCreate ==
  ASSUME IndInv, TypeOK', GraceCoversLaunch, NEW c \in Claims, StartCreate(c)
  PROVE  IndInv'
<1> USE LifecycleConstants
    DEF IndInv, TypeOK, IDs, vsphereVars, providerVars, clusterVars, claimVars, gcVars,
        CreateSteps, DeleteSteps, LiveOn, InFlight, Exists,
        Goto, Return, Fault, NoFault,
        StartCreate
<1>1. CallShape' BY DEF CallShape
<1>2. NamesMatch' BY DEF NamesMatch, NamedFor
<1>3. LaunchProgress' BY DEF LaunchProgress, CallShape
<1>4. CollectorSafe' BY DEF CollectorSafe, CallShape
<1>5. LaunchedClaimRuns' BY DEF LaunchedClaimRuns
<1>6. QED BY <1>1, <1>2, <1>3, <1>4, <1>5

LEMMA IndRefuseCreate ==
  ASSUME IndInv, TypeOK', GraceCoversLaunch, NEW c \in Claims, RefuseCreate(c)
  PROVE  IndInv'
<1> USE LifecycleConstants
    DEF IndInv, TypeOK, IDs, vsphereVars, providerVars, clusterVars, claimVars, gcVars,
        CreateSteps, DeleteSteps, LiveOn, InFlight, Exists,
        RefuseCreate
<1>1. CallShape' BY DEF CallShape
<1>2. NamesMatch' BY DEF NamesMatch, NamedFor
<1>3. LaunchProgress' BY DEF LaunchProgress
<1>4. CollectorSafe' BY DEF CollectorSafe
<1>5. LaunchedClaimRuns' BY DEF LaunchedClaimRuns
<1>6. QED BY <1>1, <1>2, <1>3, <1>4, <1>5

LEMMA IndPersist ==
  ASSUME IndInv, TypeOK', GraceCoversLaunch, NEW c \in Claims, Persist(c)
  PROVE  IndInv'
<1> USE LifecycleConstants
    DEF IndInv, TypeOK, IDs, vsphereVars, providerVars, clusterVars, claimVars, gcVars,
        CreateSteps, DeleteSteps, LiveOn, InFlight, Exists,
        Goto, Return, Fault, NoFault,
        Persist
<1>1. CallShape' BY DEF CallShape
<1>2. NamesMatch' BY DEF NamesMatch, NamedFor
<1>3. LaunchProgress' BY DEF LaunchProgress
<1>4. CollectorSafe' BY DEF CollectorSafe, LaunchProgress
<1>5. LaunchedClaimRuns' BY DEF LaunchedClaimRuns, LaunchProgress
<1>6. QED BY <1>1, <1>2, <1>3, <1>4, <1>5

LEMMA IndDropResult ==
  ASSUME IndInv, TypeOK', GraceCoversLaunch, NEW c \in Claims, DropResult(c)
  PROVE  IndInv'
<1> USE LifecycleConstants
    DEF IndInv, TypeOK, IDs, vsphereVars, providerVars, clusterVars, claimVars, gcVars,
        CreateSteps, DeleteSteps, LiveOn, InFlight, Exists,
        Goto, Return, Fault, NoFault,
        DropResult
<1>1. CallShape' BY DEF CallShape
<1>2. NamesMatch' BY DEF NamesMatch, NamedFor
<1>3. LaunchProgress' BY DEF LaunchProgress
<1>4. CollectorSafe' BY DEF CollectorSafe
<1>5. LaunchedClaimRuns' BY DEF LaunchedClaimRuns
<1>6. QED BY <1>1, <1>2, <1>3, <1>4, <1>5

LEMMA IndStartDelete ==
  ASSUME IndInv, TypeOK', GraceCoversLaunch, NEW c \in Claims, StartDelete(c)
  PROVE  IndInv'
<1> USE LifecycleConstants
    DEF IndInv, TypeOK, IDs, vsphereVars, providerVars, clusterVars, claimVars, gcVars,
        CreateSteps, DeleteSteps, LiveOn, InFlight, Exists,
        Goto, Return, Fault, NoFault,
        StartDelete
<1>1. CallShape' BY DEF CallShape
<1>2. NamesMatch' BY DEF NamesMatch, NamedFor
<1>3. LaunchProgress' BY DEF LaunchProgress
<1>4. CollectorSafe' BY DEF CollectorSafe
<1>5. LaunchedClaimRuns' BY DEF LaunchedClaimRuns
<1>6. QED BY <1>1, <1>2, <1>3, <1>4, <1>5

LEMMA IndFinalizeClaim ==
  ASSUME IndInv, TypeOK', GraceCoversLaunch, NEW c \in Claims, FinalizeClaim(c) \/ FinalizeEmptyID(c)
  PROVE  IndInv'
<1> USE LifecycleConstants
    DEF IndInv, TypeOK, IDs, vsphereVars, providerVars, clusterVars, claimVars, gcVars,
        CreateSteps, DeleteSteps, LiveOn, InFlight, Exists,
        FinalizeClaim, FinalizeEmptyID
<1>1. CallShape' BY DEF CallShape
<1>2. NamesMatch' BY DEF NamesMatch, NamedFor
<1>3. LaunchProgress' BY DEF LaunchProgress
<1>4. CollectorSafe' BY DEF CollectorSafe
<1>5. LaunchedClaimRuns' BY DEF LaunchedClaimRuns
<1>6. QED BY <1>1, <1>2, <1>3, <1>4, <1>5

LEMMA IndCacheSync ==
  ASSUME IndInv, TypeOK', GraceCoversLaunch, NEW c \in Claims, CacheSync(c)
  PROVE  IndInv'
<1> USE LifecycleConstants
    DEF IndInv, TypeOK, IDs, vsphereVars, providerVars, clusterVars, claimVars, gcVars,
        CreateSteps, DeleteSteps, LiveOn, InFlight, Exists,
        CacheSync
<1>1. CallShape' BY DEF CallShape
<1>2. NamesMatch' BY DEF NamesMatch, NamedFor
<1>3. LaunchProgress' BY DEF LaunchProgress
<1>4. CollectorSafe' BY DEF CollectorSafe
<1>5. LaunchedClaimRuns' BY DEF LaunchedClaimRuns
<1>6. QED BY <1>1, <1>2, <1>3, <1>4, <1>5

LEMMA IndAge ==
  ASSUME IndInv, TypeOK', GraceCoversLaunch, NEW u \in Uuids, Age(u)
  PROVE  IndInv'
<1> USE LifecycleConstants
    DEF IndInv, TypeOK, IDs, vsphereVars, providerVars, clusterVars, claimVars, gcVars,
        CreateSteps, DeleteSteps, LiveOn, InFlight, Exists,
        Age, GraceCovers
<1>1. CallShape' BY DEF CallShape
<1>2. NamesMatch' BY DEF NamesMatch, NamedFor
<1>3. LaunchProgress' BY DEF LaunchProgress
<1>4. CollectorSafe' BY DEF CollectorSafe
<1>5. LaunchedClaimRuns' BY DEF LaunchedClaimRuns
<1>6. QED BY <1>1, <1>2, <1>3, <1>4, <1>5

\* A machine that is still free is used by no call, claim or collector.
LEMMA FreeIsUnused ==
  ASSUME IndInv, NEW u \in Uuids, power[u] = "free"
  PROVE  /\ ~ old[u]
         /\ gcw[u] \notin {"poweroff", "destroy", "node"}
         /\ \A c \in Claims : cur[c] # u /\ providerID[c] # u
  BY DEF IndInv, NamesMatch, LaunchProgress, CollectorSafe

LEMMA IndClone ==
  ASSUME IndInv, TypeOK', GraceCoversLaunch, NEW c \in Claims, Clone(c),
         UNCHANGED <<clusterVars, claimVars, gcVars>>
  PROVE  IndInv'
<1> USE LifecycleConstants
    DEF TypeOK, IDs, vsphereVars, providerVars, clusterVars, claimVars, gcVars,
        CreateSteps, DeleteSteps, LiveOn, InFlight, Goto, Return, Fault, NoFault
<1> DEFINE name == GenerateVMName(ClusterName, c)
<1>1. CASE Return(c) /\ UNCHANGED <<power, vmName>>
  BY <1>1 DEF IndInv, CallShape, NamesMatch, NamedFor, LaunchProgress, CollectorSafe,
              LaunchedClaimRuns, Clone
<1>2. ASSUME NEW u \in Uuids, CloneVM(u, name), UNCHANGED old,
             \/ Return(c)
             \/ Goto(c, "tag") /\ cur' = [cur EXCEPT ![c] = u]
      PROVE  IndInv'
  <2>1. /\ power[u] = "free" /\ power' = [power EXCEPT ![u] = "off"]
        /\ vmName' = [vmName EXCEPT ![u] = name]
    BY <1>2 DEF CloneVM
  <2>2. /\ ~ old[u]
        /\ gcw[u] \notin {"poweroff", "destroy", "node"}
        /\ \A d \in Claims : cur[d] # u /\ providerID[d] # u
    BY <2>1, FreeIsUnused
  <2>3. \A d \in Claims : d # c => pc'[d] = pc[d] /\ cur'[d] = cur[d]
    BY <1>2 DEF IndInv
  <2>4. \/ pc'[c] = "idle" /\ cur'[c] = NoUuid
        \/ pc'[c] = "tag" /\ cur'[c] = u
    BY <1>2 DEF IndInv
  <2>5. pc[c] = "clone"
    BY DEF Clone
  <2>6. CallShape'
    BY <2>3, <2>4, <2>5 DEF IndInv, CallShape
  <2>7. NamesMatch'
    BY <2>1, <2>2, <2>3, <2>4 DEF IndInv, NamesMatch, NamedFor
  <2>8. \A v \in Uuids : v # u /\ InFlight(v)' => InFlight(v)
    BY <2>3, <2>4 DEF IndInv
  <2>9. LaunchProgress'
    <3>1. \A v \in Uuids : power'[v] = "free" \/ InFlight(v)' => ~ old'[v]
      BY <1>2, <2>1, <2>2, <2>8 DEF IndInv, LaunchProgress
    <3>2. ASSUME NEW d \in Claims
          PROVE  /\ pc'[d] \in {"tag", "poweron"} => power'[cur'[d]] = "off"
                 /\ pc'[d] \in {"report", "persist"} /\ cur'[d] \in Uuids
                      => power'[cur'[d]] = "on"
      BY <2>1, <2>2, <2>3, <2>4 DEF IndInv, CallShape, LaunchProgress
    <3>3. QED BY <3>1, <3>2 DEF LaunchProgress
  <2>10. CollectorSafe'
    BY <1>2, <2>1, <2>2, <2>8 DEF IndInv, CollectorSafe
  <2>11. LaunchedClaimRuns'
    BY <2>1, <2>2 DEF IndInv, LaunchedClaimRuns
  <2>12. QED BY <2>6, <2>7, <2>9, <2>10, <2>11 DEF IndInv
<1>3. QED BY <1>1, <1>2 DEF Clone

LEMMA IndTag ==
  ASSUME IndInv, TypeOK', GraceCoversLaunch, NEW c \in Claims, Tag(c), UNCHANGED <<clusterVars, claimVars, gcVars>>
  PROVE  IndInv'
<1> USE LifecycleConstants
    DEF IndInv, TypeOK, IDs, vsphereVars, providerVars, clusterVars, claimVars, gcVars,
        CreateSteps, DeleteSteps, LiveOn, InFlight, Exists,
        Goto, Return, Fault, NoFault,
        Tag
<1>1. CallShape' BY DEF CallShape
<1>2. NamesMatch' BY DEF NamesMatch, NamedFor
<1>3. LaunchProgress' BY DEF LaunchProgress
<1>4. CollectorSafe' BY DEF CollectorSafe
<1>5. LaunchedClaimRuns' BY DEF LaunchedClaimRuns
<1>6. QED BY <1>1, <1>2, <1>3, <1>4, <1>5

LEMMA IndPowerOn ==
  ASSUME IndInv, TypeOK', GraceCoversLaunch, NEW c \in Claims, PowerOn(c), UNCHANGED <<clusterVars, claimVars, gcVars>>
  PROVE  IndInv'
<1> USE LifecycleConstants
    DEF IndInv, TypeOK, IDs, vsphereVars, providerVars, clusterVars, claimVars, gcVars,
        CreateSteps, DeleteSteps, LiveOn, InFlight, Exists,
        Goto, Return, Fault, NoFault,
        PowerOn, PowerOnVM
<1>1. CallShape' BY DEF CallShape
<1>2. NamesMatch' BY DEF NamesMatch, NamedFor
<1>3. LaunchProgress' BY OneClaimPerName DEF LaunchProgress, CallShape, NamesMatch
<1>4. CollectorSafe' BY OneClaimPerName DEF CollectorSafe
<1>5. LaunchedClaimRuns' BY OneClaimPerName DEF LaunchedClaimRuns
<1>6. QED BY <1>1, <1>2, <1>3, <1>4, <1>5

LEMMA IndReport ==
  ASSUME IndInv, TypeOK', GraceCoversLaunch, NEW c \in Claims, Report(c), UNCHANGED <<clusterVars, claimVars, gcVars>>
  PROVE  IndInv'
<1> USE LifecycleConstants
    DEF IndInv, TypeOK, IDs, vsphereVars, providerVars, clusterVars, claimVars, gcVars,
        CreateSteps, DeleteSteps, LiveOn, InFlight, Exists,
        Goto, Return, Fault, NoFault,
        Report
<1>1. CallShape' BY DEF CallShape
<1>2. NamesMatch' BY DEF NamesMatch, NamedFor
<1>3. LaunchProgress' BY DEF LaunchProgress
<1>4. CollectorSafe' BY DEF CollectorSafe
<1>5. LaunchedClaimRuns' BY DEF LaunchedClaimRuns
<1>6. QED BY <1>1, <1>2, <1>3, <1>4, <1>5

LEMMA IndClaimPowerOff ==
  ASSUME IndInv, TypeOK', GraceCoversLaunch, NEW c \in Claims, ClaimPowerOff(c), UNCHANGED <<clusterVars, claimVars, gcVars>>
  PROVE  IndInv'
<1> USE LifecycleConstants
    DEF IndInv, TypeOK, IDs, vsphereVars, providerVars, clusterVars, claimVars, gcVars,
        CreateSteps, DeleteSteps, LiveOn, InFlight, Exists,
        Goto, Return, Fault, NoFault,
        ClaimPowerOff, DeletePowerOff, PowerOffVM
<1>1. CallShape' BY DEF CallShape
<1>2. NamesMatch' BY DEF NamesMatch, NamedFor
<1>3. LaunchProgress'
  <2>1. \A v \in Uuids : power'[v] = "free" \/ InFlight(v)' => ~ old'[v]
    BY DEF CallShape, LaunchProgress
  <2>2. ASSUME NEW d \in Claims
        PROVE  /\ pc'[d] \in {"tag", "poweron"} => power'[cur'[d]] = "off"
               /\ pc'[d] \in {"report", "persist"} /\ cur'[d] \in Uuids => power'[cur'[d]] = "on"
    <3>1. CASE d = c
      BY <3>1 DEF CallShape, LaunchProgress
    <3>2. CASE d # c
      <4>1. cur'[d] = cur[d] /\ pc'[d] = pc[d] /\ cur[d] # cur[c]
        BY <3>2, OneCallPerMachine DEF CallShape
      <4>2. QED BY <4>1 DEF CallShape, LaunchProgress
    <3>3. QED BY <3>1, <3>2
  <2>3. QED BY <2>1, <2>2 DEF LaunchProgress
<1>4. CollectorSafe' BY OneClaimPerName DEF CollectorSafe
<1>5. LaunchedClaimRuns' BY OneClaimPerName DEF LaunchedClaimRuns, CallShape, NamesMatch
<1>6. QED BY <1>1, <1>2, <1>3, <1>4, <1>5

LEMMA IndClaimDestroy ==
  ASSUME IndInv, TypeOK', GraceCoversLaunch, NEW c \in Claims, ClaimDestroy(c), UNCHANGED <<clusterVars, claimVars, gcVars>>
  PROVE  IndInv'
<1> USE LifecycleConstants
    DEF IndInv, TypeOK, IDs, vsphereVars, providerVars, clusterVars, claimVars, gcVars,
        CreateSteps, DeleteSteps, LiveOn, InFlight, Exists,
        Goto, Return, Fault, NoFault,
        ClaimDestroy, DeleteDestroy, DestroyVM
<1>1. CallShape' BY DEF CallShape
<1>2. NamesMatch' BY DEF NamesMatch, NamedFor
<1>3. LaunchProgress'
  <2>1. \A v \in Uuids : power'[v] = "free" \/ InFlight(v)' => ~ old'[v]
    BY DEF CallShape, LaunchProgress
  <2>2. ASSUME NEW d \in Claims
        PROVE  /\ pc'[d] \in {"tag", "poweron"} => power'[cur'[d]] = "off"
               /\ pc'[d] \in {"report", "persist"} /\ cur'[d] \in Uuids => power'[cur'[d]] = "on"
    <3>1. CASE d = c
      BY <3>1 DEF CallShape, LaunchProgress
    <3>2. CASE d # c
      <4>1. cur'[d] = cur[d] /\ pc'[d] = pc[d] /\ cur[d] # cur[c]
        BY <3>2, OneCallPerMachine DEF CallShape
      <4>2. QED BY <4>1 DEF CallShape, LaunchProgress
    <3>3. QED BY <3>1, <3>2
  <2>3. QED BY <2>1, <2>2 DEF LaunchProgress
<1>4. CollectorSafe' BY DEF CollectorSafe
<1>5. LaunchedClaimRuns' BY OneClaimPerName DEF LaunchedClaimRuns
<1>6. QED BY <1>1, <1>2, <1>3, <1>4, <1>5

LEMMA IndGcListVMs ==
  ASSUME IndInv, TypeOK', GraceCoversLaunch, GcListVMs
  PROVE  IndInv'
<1> USE LifecycleConstants
    DEF IndInv, TypeOK, IDs, vsphereVars, providerVars, clusterVars, claimVars, gcVars,
        CreateSteps, DeleteSteps, LiveOn, InFlight, Exists,
        gcRest, GcReturn, NoWorkers, GcGoto, Fault, NoFault,
        GcListVMs
<1>1. CallShape' BY DEF CallShape
<1>2. NamesMatch' BY DEF NamesMatch, NamedFor
<1>3. LaunchProgress' BY DEF LaunchProgress
<1>4. CollectorSafe' BY DEF CollectorSafe
<1>5. LaunchedClaimRuns' BY DEF LaunchedClaimRuns
<1>6. QED BY <1>1, <1>2, <1>3, <1>4, <1>5

LEMMA IndGcInspect ==
  ASSUME IndInv, TypeOK', GraceCoversLaunch, NEW u \in Uuids, GcInspect(u)
  PROVE  IndInv'
<1> USE LifecycleConstants
    DEF IndInv, TypeOK, IDs, vsphereVars, providerVars, clusterVars, claimVars, gcVars,
        CreateSteps, DeleteSteps, LiveOn, InFlight, Exists,
        gcRest, GcReturn, NoWorkers, GcGoto, Fault, NoFault,
        GcInspect
<1>1. CallShape' BY DEF CallShape
<1>2. NamesMatch' BY DEF NamesMatch, NamedFor
<1>3. LaunchProgress' BY DEF LaunchProgress
<1>4. CollectorSafe' BY DEF CollectorSafe
<1>5. LaunchedClaimRuns' BY DEF LaunchedClaimRuns
<1>6. QED BY <1>1, <1>2, <1>3, <1>4, <1>5

LEMMA IndGcResolve ==
  ASSUME IndInv, TypeOK', GraceCoversLaunch, GcResolve
  PROVE  IndInv'
<1> USE LifecycleConstants
    DEF IndInv, TypeOK, IDs, vsphereVars, providerVars, clusterVars, claimVars, gcVars,
        CreateSteps, DeleteSteps, LiveOn, InFlight, Exists,
        gcRest, GcReturn, NoWorkers, GcGoto, Fault, NoFault,
        GcResolve
<1>1. CallShape' BY DEF CallShape
<1>2. NamesMatch' BY DEF NamesMatch, NamedFor
<1>3. LaunchProgress' BY DEF LaunchProgress
<1>4. CollectorSafe' BY DEF CollectorSafe
<1>5. LaunchedClaimRuns' BY DEF LaunchedClaimRuns
<1>6. QED BY <1>1, <1>2, <1>3, <1>4, <1>5

LEMMA IndGcListClaims ==
  ASSUME IndInv, TypeOK', GraceCoversLaunch, GcListClaims
  PROVE  IndInv'
<1> USE LifecycleConstants
    DEF IndInv, TypeOK, IDs, vsphereVars, providerVars, clusterVars, claimVars, gcVars,
        CreateSteps, DeleteSteps, LiveOn, InFlight, Exists,
        gcRest, GcReturn, NoWorkers, GcGoto, Fault, NoFault,
        GcListClaims
<1>1. CallShape' BY DEF CallShape
<1>2. NamesMatch' BY DEF NamesMatch, NamedFor
<1>3. LaunchProgress' BY DEF LaunchProgress
<1>4. CollectorSafe' BY DEF CollectorSafe
<1>5. LaunchedClaimRuns' BY DEF LaunchedClaimRuns
<1>6. QED BY <1>1, <1>2, <1>3, <1>4, <1>5

LEMMA IndGcListNodes ==
  ASSUME IndInv, TypeOK', GraceCoversLaunch, GcListNodes
  PROVE  IndInv'
<1> USE LifecycleConstants
    DEF IndInv, TypeOK, IDs, vsphereVars, providerVars, clusterVars, claimVars, gcVars,
        CreateSteps, DeleteSteps, LiveOn, InFlight, Exists,
        gcRest, GcReturn, NoWorkers, GcGoto, Fault, NoFault,
        GcListNodes
<1>1. CallShape' BY DEF CallShape
<1>2. NamesMatch' BY DEF NamesMatch, NamedFor
<1>3. LaunchProgress' BY DEF LaunchProgress
<1>4. CollectorSafe' BY DEF CollectorSafe
<1>5. LaunchedClaimRuns' BY DEF LaunchedClaimRuns
<1>6. QED BY <1>1, <1>2, <1>3, <1>4, <1>5

LEMMA IndGcCheck ==
  ASSUME IndInv, TypeOK', GraceCoversLaunch, NEW u \in Uuids, GcCheck(u)
  PROVE  IndInv'
<1> USE LifecycleConstants
    DEF IndInv, TypeOK, IDs, vsphereVars, providerVars, clusterVars, claimVars, gcVars,
        CreateSteps, DeleteSteps, LiveOn, InFlight, Exists,
        gcRest, GcReturn, NoWorkers, GcGoto, Fault, NoFault,
        GcCheck
<1>1. CallShape' BY DEF CallShape
<1>2. NamesMatch' BY DEF NamesMatch, NamedFor
<1>3. LaunchProgress' BY DEF LaunchProgress
<1>4. CollectorSafe' BY DEF CollectorSafe, LaunchProgress
<1>5. LaunchedClaimRuns' BY DEF LaunchedClaimRuns
<1>6. QED BY <1>1, <1>2, <1>3, <1>4, <1>5

LEMMA IndGcPowerOff ==
  ASSUME IndInv, TypeOK', GraceCoversLaunch, NEW u \in Uuids, GcPowerOff(u)
  PROVE  IndInv'
<1> USE LifecycleConstants
    DEF IndInv, TypeOK, IDs, vsphereVars, providerVars, clusterVars, claimVars, gcVars,
        CreateSteps, DeleteSteps, LiveOn, InFlight, Exists,
        gcRest, GcReturn, NoWorkers, GcGoto, Fault, NoFault,
        GcPowerOff, DeletePowerOff, PowerOffVM
<1>1. CallShape' BY DEF CallShape
<1>2. NamesMatch' BY DEF NamesMatch, NamedFor
<1>3. LaunchProgress' BY DEF LaunchProgress, CallShape, CollectorSafe
<1>4. CollectorSafe' BY DEF CollectorSafe
<1>5. LaunchedClaimRuns' BY DEF LaunchedClaimRuns, CollectorSafe
<1>6. QED BY <1>1, <1>2, <1>3, <1>4, <1>5

LEMMA IndGcDestroy ==
  ASSUME IndInv, TypeOK', GraceCoversLaunch, NEW u \in Uuids, GcDestroy(u)
  PROVE  IndInv'
<1> USE LifecycleConstants
    DEF IndInv, TypeOK, IDs, vsphereVars, providerVars, clusterVars, claimVars, gcVars,
        CreateSteps, DeleteSteps, LiveOn, InFlight, Exists,
        gcRest, GcReturn, NoWorkers, GcGoto, Fault, NoFault,
        GcDestroy, DeleteDestroy, DestroyVM
<1>1. CallShape' BY DEF CallShape
<1>2. NamesMatch' BY DEF NamesMatch, NamedFor
<1>3. LaunchProgress' BY DEF LaunchProgress, CallShape, CollectorSafe
<1>4. CollectorSafe' BY DEF CollectorSafe
<1>5. LaunchedClaimRuns' BY DEF LaunchedClaimRuns
<1>6. QED BY <1>1, <1>2, <1>3, <1>4, <1>5

LEMMA IndGcDeleteNode ==
  ASSUME IndInv, TypeOK', GraceCoversLaunch, NEW u \in Uuids, GcDeleteNode(u)
  PROVE  IndInv'
<1> USE LifecycleConstants
    DEF IndInv, TypeOK, IDs, vsphereVars, providerVars, clusterVars, claimVars, gcVars,
        CreateSteps, DeleteSteps, LiveOn, InFlight, Exists,
        gcRest, GcReturn, NoWorkers, GcGoto, Fault, NoFault,
        GcDeleteNode
<1>1. CallShape' BY DEF CallShape
<1>2. NamesMatch' BY DEF NamesMatch, NamedFor
<1>3. LaunchProgress' BY DEF LaunchProgress
<1>4. CollectorSafe' BY DEF CollectorSafe
<1>5. LaunchedClaimRuns' BY DEF LaunchedClaimRuns
<1>6. QED BY <1>1, <1>2, <1>3, <1>4, <1>5

LEMMA IndGcReturn ==
  ASSUME IndInv, TypeOK', GraceCoversLaunch, GcFinish \/ GcAbort
  PROVE  IndInv'
<1> USE LifecycleConstants
    DEF IndInv, TypeOK, IDs, vsphereVars, providerVars, clusterVars, claimVars, gcVars,
        CreateSteps, DeleteSteps, LiveOn, InFlight, Exists,
        gcRest, GcReturn, NoWorkers, GcGoto, Fault, NoFault,
        GcFinish, GcAbort
<1>1. CallShape' BY DEF CallShape
<1>2. NamesMatch' BY DEF NamesMatch, NamedFor
<1>3. LaunchProgress' BY DEF LaunchProgress
<1>4. CollectorSafe' BY DEF CollectorSafe
<1>5. LaunchedClaimRuns' BY DEF LaunchedClaimRuns
<1>6. QED BY <1>1, <1>2, <1>3, <1>4, <1>5

LEMMA IndCrash ==
  ASSUME IndInv, TypeOK', GraceCoversLaunch, Crash
  PROVE  IndInv'
<1> USE LifecycleConstants
    DEF IndInv, TypeOK, IDs, vsphereVars, providerVars, clusterVars, claimVars, gcVars,
        CreateSteps, DeleteSteps, LiveOn, InFlight, Exists,
        gcRest, GcReturn, NoWorkers, GcGoto, Fault, NoFault,
        Crash
<1>1. CallShape' BY DEF CallShape
<1>2. NamesMatch' BY DEF NamesMatch, NamedFor
<1>3. LaunchProgress' BY DEF LaunchProgress
<1>4. CollectorSafe' BY DEF CollectorSafe
<1>5. LaunchedClaimRuns' BY DEF LaunchedClaimRuns
<1>6. QED BY <1>1, <1>2, <1>3, <1>4, <1>5

LEMMA IndRest ==
  ASSUME IndInv, TypeOK', GraceCoversLaunch, (\E v \in Uuids : NodeJoin(v)) \/ Edit \/ UNCHANGED vars
  PROVE  IndInv'
<1> USE LifecycleConstants
    DEF IndInv, TypeOK, IDs, vsphereVars, providerVars, clusterVars, claimVars, gcVars,
        CreateSteps, DeleteSteps, LiveOn, InFlight, Exists,
        NodeJoin, Edit, SetClass, EditTypes, DeletePool, vars
<1>1. CallShape' BY DEF CallShape
<1>2. NamesMatch' BY DEF NamesMatch, NamedFor
<1>3. LaunchProgress' BY DEF LaunchProgress
<1>4. CollectorSafe' BY DEF CollectorSafe
<1>5. LaunchedClaimRuns' BY DEF LaunchedClaimRuns
<1>6. QED BY <1>1, <1>2, <1>3, <1>4, <1>5

LEMMA IndNext == GraceCoversLaunch /\ IndInv /\ [Next]_vars => IndInv'
<1> SUFFICES ASSUME GraceCoversLaunch, IndInv, [Next]_vars PROVE IndInv'
  OBVIOUS
<1>1. TypeOK'
  BY TypeNext DEF IndInv
<1>2. ASSUME NEW c \in Claims, CallStep(c) PROVE IndInv'
  BY <1>1, <1>2, IndClone, IndTag, IndPowerOn, IndReport, IndClaimPowerOff, IndClaimDestroy
  DEF CallStep
<1>3. ASSUME NEW c \in Claims,
             \/ AddClaim(c) \/ DeleteClaim(c) \/ ReconcileClaim(c) \/ DropResult(c)
             \/ FinalizeEmptyID(c) \/ CacheSync(c)
      PROVE  IndInv'
  BY <1>1, <1>2, <1>3, IndAddClaim, IndDeleteClaim, IndStartCreate, IndRefuseCreate, IndPersist,
     IndDropResult, IndStartDelete, IndFinalizeClaim, IndCacheSync
  DEF ReconcileClaim
<1>4. CASE GcStep \/ GcAbort
  BY <1>1, <1>4, IndGcListVMs, IndGcInspect, IndGcResolve, IndGcListClaims, IndGcListNodes, IndGcCheck,
     IndGcPowerOff, IndGcDestroy, IndGcDeleteNode, IndGcReturn
  DEF GcStep
<1>5. ASSUME NEW u \in Uuids, Age(u) \/ NodeJoin(u) PROVE IndInv'
  BY <1>1, <1>5, IndAge, IndRest
<1>6. CASE Edit \/ Crash \/ UNCHANGED vars
  BY <1>1, <1>6, IndRest, IndCrash
<1>7. QED
  BY <1>3, <1>4, <1>5, <1>6 DEF Next

\* If the collector's five minutes outlast launches and passes, no behaviour
\* stops or destroys the machine of a live, launched claim.
THEOREM LaunchedClaimsKeepRunning == GraceCoversLaunch => (Spec => []LaunchedClaimRuns)
<1> SUFFICES ASSUME GraceCoversLaunch PROVE Spec => []LaunchedClaimRuns
  OBVIOUS
<1>1. IndInv /\ [Next]_vars => IndInv'
  BY IndNext
<1>2. IndInv => LaunchedClaimRuns
  BY DEF IndInv
<1>3. QED BY IndInit, <1>1, <1>2, PTL DEF Spec

(* Safety: machines of other clusters -------------------------------------*)

\* What keeps a foreign machine safe: it keeps its name and its tags, no
\* claim records it, no call works on it, and List never lists it.
ForeignInv ==
  /\ TypeOK
  /\ \A u \in Foreign :
       /\ power[u] = "on" /\ vmTags[u] = ForeignTags
       /\ gcw[u] \in {"none", "inspect"}
       /\ \A c \in Claims : cur[c] # u /\ providerID[c] # u

ForeignNotTagged == TagValue(ForeignTags, ListedTagKey) # ClusterName

LEMMA ForeignInit == Init => ForeignInv
<1> SUFFICES ASSUME Init, NEW u \in Foreign
             PROVE  /\ power[u] = "on" /\ vmTags[u] = ForeignTags /\ gcw[u] = "none"
                    /\ \A c \in Claims : cur[c] # u /\ providerID[c] # u
  BY TypeInit DEF ForeignInv
<1>1. u \in Uuids
  BY LifecycleConstants
<1>2. QED BY <1>1, LifecycleConstants DEF Init, NoWorkers

LEMMA ForeignNext == ForeignNotTagged /\ ForeignInv /\ [Next]_vars => ForeignInv'
<1> SUFFICES ASSUME ForeignNotTagged, ForeignInv, [Next]_vars PROVE ForeignInv'
  OBVIOUS
<1> DEFINE Safe == \A u \in Foreign :
                     /\ power[u] = "on" /\ vmTags[u] = ForeignTags
                     /\ gcw[u] \in {"none", "inspect"}
                     /\ \A c \in Claims : cur[c] # u /\ providerID[c] # u
<1> SUFFICES Safe'
  BY TypeNext DEF ForeignInv
<1> USE LifecycleConstants
    DEF ForeignInv, TypeOK, IDs, vsphereVars, providerVars, clusterVars, claimVars, gcVars,
        gcRest, Goto, Return, Fault, NoFault, GcGoto, GcReturn, NoWorkers, Exists
<1>2. ASSUME NEW c \in Claims, CallStep(c) PROVE Safe'
  <2>1. CASE Clone(c) BY <1>2, <2>1 DEF CallStep, Clone, CloneVM
  <2>2. CASE Tag(c) BY <1>2, <2>2 DEF CallStep, Tag, AttachTags
  <2>3. CASE PowerOn(c) BY <1>2, <2>3 DEF CallStep, PowerOn, PowerOnVM
  <2>4. CASE Report(c) BY <1>2, <2>4 DEF CallStep, Report
  <2>5. CASE ClaimPowerOff(c)
    BY <1>2, <2>5 DEF CallStep, ClaimPowerOff, DeletePowerOff, PowerOffVM
  <2>6. CASE ClaimDestroy(c)
    BY <1>2, <2>6 DEF CallStep, ClaimDestroy, DeleteDestroy, DestroyVM
  <2>7. QED BY <1>2, <2>1, <2>2, <2>3, <2>4, <2>5, <2>6 DEF CallStep
<1>3. ASSUME NEW c \in Claims, Persist(c) \/ DropResult(c) \/ StartCreate(c) PROVE Safe'
  BY <1>3 DEF Persist, DropResult, StartCreate
<1>4. ASSUME NEW c \in Claims, StartDelete(c) PROVE Safe'
  BY <1>4 DEF StartDelete
<1>5. ASSUME NEW c \in Claims,
             \/ AddClaim(c) \/ DeleteClaim(c) \/ RefuseCreate(c) \/ FinalizeClaim(c)
             \/ FinalizeEmptyID(c) \/ CacheSync(c)
      PROVE  Safe'
  BY <1>5 DEF AddClaim, DeleteClaim, RefuseCreate, FinalizeClaim, FinalizeEmptyID, CacheSync
<1>6. CASE GcListVMs \/ GcResolve \/ GcListClaims \/ GcListNodes \/ GcFinish \/ GcAbort
  <2>1. CASE GcListVMs BY <2>1 DEF GcListVMs
  <2>2. CASE GcResolve BY <2>2 DEF GcResolve
  <2>3. CASE GcListClaims \/ GcListNodes BY <2>3 DEF GcListClaims, GcListNodes
  <2>4. CASE GcFinish \/ GcAbort BY <2>4 DEF GcFinish, GcAbort
  <2>5. QED BY <1>6, <2>1, <2>2, <2>3, <2>4
<1>7. ASSUME NEW u \in Uuids, GcInspect(u) PROVE Safe'
  BY <1>7 DEF GcInspect, BelongsToCluster, ForeignNotTagged
<1>8. ASSUME NEW u \in Uuids, GcCheck(u) \/ GcDeleteNode(u) PROVE Safe'
  BY <1>8 DEF GcCheck, GcDeleteNode
<1>9. ASSUME NEW u \in Uuids, GcPowerOff(u) \/ GcDestroy(u) PROVE Safe'
  BY <1>9 DEF GcPowerOff, GcDestroy, DeletePowerOff, DeleteDestroy, PowerOffVM, DestroyVM
<1>10. ASSUME NEW u \in Uuids, Age(u) \/ NodeJoin(u) PROVE Safe'
  BY <1>10 DEF Age, NodeJoin
<1>11. CASE Edit \/ Crash \/ UNCHANGED vars
  <2>1. CASE Edit BY <2>1 DEF Edit
  <2>2. CASE Crash BY <2>2 DEF Crash
  <2>3. CASE UNCHANGED vars BY <2>3 DEF vars
  <2>4. QED BY <1>11, <2>1, <2>2, <2>3
<1>12. QED
  BY <1>2, <1>3, <1>4, <1>5, <1>6, <1>7, <1>8, <1>9, <1>10, <1>11
  DEF Next, ReconcileClaim, GcStep

\* Machines of another cluster, even one with the same name prefix, are never
\* stopped, provided that they do not carry this cluster's name under the tag
\* that List reads; no assumption on time is needed.
THEOREM ForeignMachinesSurvive == ForeignNotTagged => (Spec => []ForeignUntouched)
<1> SUFFICES ASSUME ForeignNotTagged PROVE Spec => []ForeignUntouched
  OBVIOUS
<1>1. ForeignInv /\ [Next]_vars => ForeignInv'
  BY ForeignNext
<1>2. ForeignInv => ForeignUntouched
  BY DEF ForeignInv, ForeignUntouched
<1>3. QED BY ForeignInit, <1>1, <1>2, PTL DEF Spec
=============================================================================
