--------------------------- MODULE ContractProofs ---------------------------
(***************************************************************************)
(* NodeLifecycle implements AbstractProvider: for every set of claims,     *)
(* machines and faults, each of its steps is a step of the contract or     *)
(* leaves the contract's state alone.                                      *)
(***************************************************************************)
EXTENDS LifecycleTraceProofs

(* The refinement mapping -------------------------------------------------*)

\* What core sees of a claim depends on its providerID and on one machine.
LEMMA MachineSeen ==
  ASSUME NEW c \in Claims
  PROVE  /\ providerID[c] = NoUuid => machineOf[c] = "none"
         /\ providerID[c] = EmptyID => machineOf[c] = "unknown"
         /\ providerID[c] \in Uuids =>
              machineOf[c] = CASE power[providerID[c]] = "on" -> "running"
                               [] power[providerID[c]] = "off" -> "stopped"
                               [] OTHER -> "destroyed"
BY LifecycleConstants DEF machineOf

LEMMA MachineSeenAfter ==
  ASSUME NEW c \in Claims
  PROVE  /\ providerID'[c] = NoUuid => machineOf'[c] = "none"
         /\ providerID'[c] = EmptyID => machineOf'[c] = "unknown"
         /\ providerID'[c] \in Uuids =>
              machineOf'[c] = CASE power'[providerID'[c]] = "on" -> "running"
                                [] power'[providerID'[c]] = "off" -> "stopped"
                                [] OTHER -> "destroyed"
BY LifecycleConstants DEF machineOf

\* A claim whose record and machine stay as they are looks the same to core.
LEMMA MachineKept ==
  ASSUME NEW c \in Claims, providerID'[c] = providerID[c],
         providerID[c] \in Uuids => power'[providerID[c]] = power[providerID[c]],
         providerID[c] \in IDs
  PROVE  machineOf'[c] = machineOf[c]
<1>1. CASE providerID[c] \notin Uuids
  BY <1>1, MachineSeen, MachineSeenAfter DEF IDs
<1>2. CASE providerID[c] \in Uuids
  BY <1>2, MachineSeen, MachineSeenAfter
<1>3. QED
  BY <1>1, <1>2

MachineStates == {"none", "unknown", "running", "stopped", "destroyed"}

LEMMA MachineType == machineOf \in [Claims -> MachineStates] /\ machineOf' \in [Claims -> MachineStates]
BY DEF machineOf, MachineStates

LEMMA MachinesKept ==
  ASSUME \A c \in Claims : machineOf'[c] = machineOf[c]
  PROVE  machineOf' = machineOf
BY MachineType

LEMMA MachineChanged ==
  ASSUME NEW c \in Claims, NEW state, machineOf'[c] = state,
         \A d \in Claims : d # c => machineOf'[d] = machineOf[d]
  PROVE  machineOf' = [machineOf EXCEPT ![c] = state]
BY MachineType

LEMMA NothingSeen ==
  ASSUME TypeOK, UNCHANGED <<power, providerID>>
  PROVE  UNCHANGED machineOf
<1>1. \A c \in Claims : machineOf'[c] = machineOf[c]
  BY MachineKept DEF TypeOK
<1>2. QED
  BY <1>1, MachinesKept

(* Steps ------------------------------------------------------------------*)

ContractInv == IndInv /\ TraceInv

\* Stopping or destroying a machine is what the contract allows for the claim
\* that recorded it, provided that the claim is neither live nor gone; a
\* machine that no claim recorded is not part of the contract.
LEMMA TaskMaps ==
  ASSUME ContractInv, NEW u \in Uuids, UNCHANGED <<claim, providerID>>,
         PowerOffVM(u) \/ DestroyVM(u),
         \A c \in Claims : ~ LiveOn(c, u)
  PROVE  [Contract!ANext]_(Contract!avars)
<1>0. TypeOK /\ CallShape /\ NamesMatch /\ GoneTrace
  BY DEF ContractInv, TraceInv
<1>1. /\ power \in [Uuids -> PowerStates] /\ power[u] \in {"on", "off"}
      /\ \A v \in Uuids : v # u => power'[v] = power[v]
  BY <1>0 DEF PowerOffVM, DestroyVM, TypeOK
<1>2. ASSUME NEW d \in Claims, providerID[d] # u PROVE machineOf'[d] = machineOf[d]
  <2>1. providerID[d] \in IDs
    BY <1>0 DEF TypeOK
  <2>2. providerID[d] \in Uuids => power'[providerID[d]] = power[providerID[d]]
    BY <1>1, <1>2
  <2>3. QED
    BY <2>1, <2>2, MachineKept
<1>3. CASE \A d \in Claims : providerID[d] # u
  <2>1. UNCHANGED machineOf
    BY <1>2, <1>3, MachinesKept
  <2>2. QED
    BY <2>1 DEF Contract!avars
<1>4. ASSUME NEW c \in Claims, providerID[c] = u PROVE Contract!ANext
  <2>1. claim[c] = "deleting"
    <3>1. claim[c] # "gone"
      BY <1>0, <1>1, <1>4 DEF GoneTrace
    <3>2. claim[c] # "absent"
      BY <1>0, <1>4, LifecycleConstants DEF CallShape
    <3>3. claim[c] # "live"
      BY <1>4 DEF LiveOn
    <3>4. QED
      BY <1>0, <3>1, <3>2, <3>3 DEF TypeOK
  <2>2. \A d \in Claims : d # c => providerID[d] # u
    BY <1>0, <1>4, OneClaimPerName DEF NamesMatch
  <2>3. \A d \in Claims : d # c => machineOf'[d] = machineOf[d]
    BY <1>2, <2>2
  <2>4. CASE PowerOffVM(u)
    <3>1. power[u] = "on" /\ power'[u] = "off"
      BY <1>1, <2>4 DEF PowerOffVM
    <3>2. machineOf[c] = "running" /\ machineOf'[c] = "stopped"
      BY <1>4, <3>1, MachineSeen, MachineSeenAfter
    <3>3. machineOf' = [machineOf EXCEPT ![c] = "stopped"]
      BY <2>3, <3>2, MachineChanged
    <3>4. Contract!AStop(c)
      BY <2>1, <3>2, <3>3 DEF Contract!AStop, Contract!MachineMoves
    <3>5. QED
      BY <3>4 DEF Contract!ANext
  <2>5. CASE DestroyVM(u)
    <3>1. power[u] = "off" /\ power'[u] = "destroyed"
      BY <1>1, <2>5 DEF DestroyVM
    <3>2. machineOf[c] = "stopped" /\ machineOf'[c] = "destroyed"
      BY <1>4, <3>1, MachineSeen, MachineSeenAfter
    <3>3. machineOf' = [machineOf EXCEPT ![c] = "destroyed"]
      BY <2>3, <3>2, MachineChanged
    <3>4. Contract!ADestroy(c)
      BY <2>1, <3>2, <3>3 DEF Contract!ADestroy, Contract!MachineMoves
    <3>5. QED
      BY <3>4 DEF Contract!ANext
  <2>6. QED
    BY <2>4, <2>5
<1>5. QED
  BY <1>3, <1>4

\* Core's own moves of a claim.
LEMMA ClaimMaps ==
  ASSUME ContractInv, NEW c \in Claims,
         \/ AddClaim(c) \/ DeleteClaim(c) \/ RefuseCreate(c)
         \/ FinalizeClaim(c) \/ FinalizeEmptyID(c)
  PROVE  [Contract!ANext]_(Contract!avars)
<1>0. TypeOK
  BY DEF ContractInv, TraceInv
<1>1. UNCHANGED <<power, providerID>>
  BY DEF AddClaim, DeleteClaim, RefuseCreate, FinalizeClaim, FinalizeEmptyID, vsphereVars
<1>2. UNCHANGED machineOf
  BY <1>0, <1>1, NothingSeen
<1>3. CASE AddClaim(c)
  <2>1. Contract!AAdd(c)
    BY <1>2, <1>3 DEF AddClaim, Contract!AAdd, Contract!ClaimMoves
  <2>2. QED
    BY <2>1 DEF Contract!ANext
<1>4. CASE DeleteClaim(c) \/ RefuseCreate(c)
  <2>1. Contract!ADelete(c)
    BY <1>2, <1>4 DEF DeleteClaim, RefuseCreate, Contract!ADelete, Contract!ClaimMoves
  <2>2. QED
    BY <2>1 DEF Contract!ANext
<1>5. CASE FinalizeClaim(c) \/ FinalizeEmptyID(c)
  <2>1. machineOf[c] \in {"none", "unknown", "destroyed"}
    <3>1. CASE providerID[c] \in Uuids
      <4>1. power[providerID[c]] \notin {"on", "off"}
        BY <1>5, <3>1, LifecycleConstants DEF FinalizeClaim, FinalizeEmptyID, Exists
      <4>2. QED
        BY <3>1, <4>1, MachineSeen
    <3>2. CASE providerID[c] \notin Uuids
      BY <1>0, <3>2, MachineSeen DEF TypeOK, IDs
    <3>3. QED
      BY <3>1, <3>2
  <2>2. Contract!AForget(c)
    BY <1>2, <1>5, <2>1
    DEF FinalizeClaim, FinalizeEmptyID, Contract!AForget, Contract!ClaimMoves
  <2>3. QED
    BY <2>2 DEF Contract!ANext
<1>6. QED
  BY <1>3, <1>4, <1>5

\* The contract's launch is the moment when the result is stored: the machine
\* runs by then, or its identity was lost.
LEMMA PersistMaps ==
  ASSUME ContractInv, NEW c \in Claims, Persist(c)
  PROVE  Contract!ANext
<1>0. TypeOK /\ CallShape /\ LaunchProgress
  BY DEF ContractInv, IndInv
<1>1. /\ pc[c] = "persist" /\ UNCHANGED <<power, claim>>
      /\ providerID' = [providerID EXCEPT ![c] = cur[c]]
  BY DEF Persist, vsphereVars
<1>2. /\ providerID[c] = NoUuid /\ claim[c] \in {"live", "deleting"}
      /\ cur[c] \in Uuids \cup {EmptyID}
  BY <1>0, <1>1 DEF CallShape, CreateSteps, TypeOK, IDs
<1>3. providerID'[c] = cur[c] /\ \A d \in Claims : d # c => providerID'[d] = providerID[d]
  BY <1>0, <1>1 DEF TypeOK
<1>4. \A d \in Claims : d # c => machineOf'[d] = machineOf[d]
  <2>1. SUFFICES ASSUME NEW d \in Claims, d # c PROVE machineOf'[d] = machineOf[d]
    OBVIOUS
  <2>2. providerID[d] \in IDs
    BY <1>0 DEF TypeOK
  <2>3. QED
    BY <1>1, <1>3, <2>1, <2>2, MachineKept
<1>5. machineOf[c] = "none"
  BY <1>2, MachineSeen
<1>6. CASE cur[c] \in Uuids
  <2>1. power'[cur[c]] = "on"
    BY <1>0, <1>1, <1>6 DEF LaunchProgress
  <2>2. machineOf'[c] = "running"
    BY <1>3, <1>6, <2>1, MachineSeenAfter
  <2>3. machineOf' = [machineOf EXCEPT ![c] = "running"]
    BY <1>4, <2>2, MachineChanged
  <2>4. Contract!ALaunch(c)
    BY <1>1, <1>2, <1>5, <2>3 DEF Contract!ALaunch, Contract!MachineMoves
  <2>5. QED
    BY <2>4 DEF Contract!ANext
<1>7. CASE cur[c] = EmptyID
  <2>1. machineOf'[c] = "unknown"
    BY <1>3, <1>7, MachineSeenAfter
  <2>2. machineOf' = [machineOf EXCEPT ![c] = "unknown"]
    BY <1>4, <2>1, MachineChanged
  <2>3. Contract!ALaunch(c)
    BY <1>1, <1>2, <1>5, <2>2 DEF Contract!ALaunch, Contract!MachineMoves
  <2>4. QED
    BY <2>3 DEF Contract!ANext
<1>8. QED
  BY <1>2, <1>6, <1>7

\* The steps of a launch are not visible: no claim has recorded its machine.
LEMMA LaunchMaps ==
  ASSUME ContractInv, NEW c \in Claims, Clone(c) \/ PowerOn(c), UNCHANGED claimVars
  PROVE  UNCHANGED <<claim, machineOf>>
<1>0. TypeOK /\ CallShape /\ NamesMatch /\ UNCHANGED <<claim, providerID>>
  BY DEF ContractInv, TraceInv, claimVars
<1>1. ASSUME NEW d \in Claims, providerID[d] \in Uuids
      PROVE  power'[providerID[d]] = power[providerID[d]]
  <2>1. power[providerID[d]] # "free"
    BY <1>0, <1>1 DEF NamesMatch
  <2>2. CASE Clone(c)
    <3>1. UNCHANGED power \/ \E u \in Uuids : power[u] = "free" /\ power' = [power EXCEPT ![u] = "off"]
      BY <2>2 DEF Clone, CloneVM
    <3>2. QED
      BY <1>0, <1>1, <2>1, <3>1 DEF TypeOK
  <2>3. CASE PowerOn(c)
    <3>1. cur[c] \in Uuids /\ providerID[c] = NoUuid
      BY <1>0, <2>3 DEF CallShape, PowerOn, CreateSteps
    <3>2. providerID[d] # cur[c]
      BY <1>0, <1>1, <3>1, OneClaimPerName, LifecycleConstants DEF NamesMatch
    <3>3. QED
      BY <1>0, <1>1, <2>3, <3>1, <3>2 DEF PowerOn, PowerOnVM, TypeOK
  <2>4. QED
    BY <2>2, <2>3
<1>2. ASSUME NEW d \in Claims PROVE machineOf'[d] = machineOf[d]
  <2>1. providerID[d] \in IDs
    BY <1>0 DEF TypeOK
  <2>2. QED
    BY <1>0, <1>1, <2>1, MachineKept
<1>3. QED
  BY <1>0, <1>2, MachinesKept

LEMMA QuietMaps ==
  ASSUME ContractInv, UNCHANGED <<power, claim, providerID>>
  PROVE  [Contract!ANext]_(Contract!avars)
<1>1. UNCHANGED machineOf
  BY NothingSeen DEF ContractInv, TraceInv
<1>2. QED
  BY <1>1 DEF Contract!avars

\* Delete on behalf of a claim, whose machine it is.
LEMMA DeleteMaps ==
  ASSUME ContractInv, NEW c \in Claims, ClaimPowerOff(c) \/ ClaimDestroy(c), UNCHANGED claimVars
  PROVE  [Contract!ANext]_(Contract!avars)
<1>0. UNCHANGED <<claim, providerID>>
  BY DEF claimVars
<1>1. CASE UNCHANGED power
  BY <1>0, <1>1, QuietMaps
<1>2. CASE PowerOffVM(cur[c]) \/ DestroyVM(cur[c])
  <2>1. cur[c] \in Uuids /\ providerID[c] = cur[c] /\ claim[c] = "deleting"
    BY DEF ContractInv, TraceInv, CallShape, DeleteSteps, ClaimPowerOff, ClaimDestroy
  <2>2. \A d \in Claims : ~ LiveOn(d, cur[c])
    BY <2>1, OneClaimPerName DEF ContractInv, TraceInv, NamesMatch, LiveOn
  <2>3. QED
    BY <1>0, <1>2, <2>1, <2>2, TaskMaps
<1>3. QED
  BY <1>1, <1>2 DEF ClaimPowerOff, ClaimDestroy, DeletePowerOff, DeleteDestroy

\* Delete in the collector, whose workers have no machine of a live claim.
LEMMA CollectMaps ==
  ASSUME ContractInv, NEW u \in Uuids, GcPowerOff(u) \/ GcDestroy(u)
  PROVE  [Contract!ANext]_(Contract!avars)
<1>0. UNCHANGED <<claim, providerID>>
  BY DEF GcPowerOff, GcDestroy, gcRest
<1>1. CASE UNCHANGED power
  BY <1>0, <1>1, QuietMaps
<1>2. CASE PowerOffVM(u) \/ DestroyVM(u)
  <2>1. \A d \in Claims : ~ LiveOn(d, u)
    BY DEF ContractInv, IndInv, CollectorSafe, GcPowerOff, GcDestroy
  <2>2. QED
    BY <1>0, <1>2, <2>1, TaskMaps
<1>3. QED
  BY <1>1, <1>2 DEF GcPowerOff, GcDestroy, DeletePowerOff, DeleteDestroy

(* The refinement ---------------------------------------------------------*)

LEMMA ContractInit == Init => Contract!AInit
<1> SUFFICES ASSUME Init PROVE Contract!AInit
  OBVIOUS
<1>1. \A c \in Claims : providerID[c] = NoUuid
  BY DEF Init
<1>2. machineOf = [c \in Claims |-> "none"]
  BY <1>1 DEF machineOf
<1>3. QED
  BY <1>2 DEF Init, Contract!AInit

LEMMA ContractNext == ContractInv /\ [Next]_vars => [Contract!ANext]_(Contract!avars)
<1> SUFFICES ASSUME ContractInv, [Next]_vars PROVE [Contract!ANext]_(Contract!avars)
  OBVIOUS
<1> USE DEF vsphereVars, claimVars, gcRest
<1>1. ASSUME NEW c \in Claims, CallStep(c) PROVE [Contract!ANext]_(Contract!avars)
  <2>1. UNCHANGED claimVars
    BY <1>1 DEF CallStep
  <2>2. CASE Clone(c) \/ PowerOn(c)
    BY <2>1, <2>2, LaunchMaps DEF Contract!avars
  <2>3. CASE Tag(c) \/ Report(c)
    BY <2>1, <2>3, QuietMaps DEF Tag, Report
  <2>4. CASE ClaimPowerOff(c) \/ ClaimDestroy(c)
    BY <2>1, <2>4, DeleteMaps
  <2>5. QED
    BY <1>1, <2>2, <2>3, <2>4 DEF CallStep
<1>2. ASSUME NEW c \in Claims, StartCreate(c) \/ StartDelete(c) \/ DropResult(c) \/ CacheSync(c)
      PROVE  [Contract!ANext]_(Contract!avars)
  BY <1>2, QuietMaps DEF StartCreate, StartDelete, DropResult, CacheSync
<1>3. CASE GcListVMs \/ GcResolve \/ GcListClaims \/ GcListNodes \/ GcFinish \/ GcAbort
  BY <1>3, QuietMaps DEF GcListVMs, GcResolve, GcListClaims, GcListNodes, GcFinish, GcAbort
<1>4. ASSUME NEW u \in Uuids, GcInspect(u) \/ GcCheck(u) \/ GcDeleteNode(u) \/ Age(u) \/ NodeJoin(u)
      PROVE  [Contract!ANext]_(Contract!avars)
  BY <1>4, QuietMaps DEF GcInspect, GcCheck, GcDeleteNode, Age, NodeJoin
<1>5. CASE Edit \/ Crash \/ UNCHANGED vars
  BY <1>5, QuietMaps DEF Edit, Crash, vars
<1>6. QED
  BY <1>1, <1>2, <1>3, <1>4, <1>5, ClaimMaps, PersistMaps, CollectMaps
  DEF Next, ReconcileClaim, GcStep

\* If the collector's five minutes outlast launches and passes, the provider,
\* with its caches, workers, failures and crashes, implements the contract
\* that core relies on.
THEOREM ContractImplemented == GraceCoversLaunch => (Spec => ImplementsContract)
<1> SUFFICES ASSUME GraceCoversLaunch PROVE Spec => ImplementsContract
  OBVIOUS
<1>1. IndInv /\ [Next]_vars => IndInv'
  BY IndNext
<1>2. IndInv /\ TraceInv <=> ContractInv
  BY DEF ContractInv
<1>3. QED
  BY <1>1, <1>2, IndInit, TraceInit, TraceNext, ContractInit, ContractNext, PTL
  DEF Spec, ImplementsContract, Contract!ASpec
=============================================================================
