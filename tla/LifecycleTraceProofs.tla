------------------------ MODULE LifecycleTraceProofs ------------------------
(***************************************************************************)
(* What launches and deletions leave behind: theorems about NodeLifecycle  *)
(* that need no assumption on time, for every set of claims, machines and  *)
(* faults.                                                                 *)
(***************************************************************************)
EXTENDS NodeLifecycleProofs

(* The invariant ----------------------------------------------------------*)

\* Destroyed for good, or never cloned.
MachineGone(u) == power[u] \in {"free", "destroyed"}

\* A worker of the collector has a machine that was cloned, and deletes its
\* Node when it has destroyed it.
WorkersTrace ==
  \A u \in Uuids :
    /\ gcw[u] # "none" => power[u] # "free"
    /\ gcw[u] = "node" => power[u] = "destroyed"

\* A claim that is gone has recorded no machine that is still there.
GoneTrace ==
  \A c \in Claims, u \in Uuids : claim[c] = "gone" /\ providerID[c] = u => power[u] = "destroyed"

\* While no call has failed, a machine is known to the claim it is named for.
FaultTrace ==
  faults = 0 =>
    \A c \in Claims, u \in Uuids :
      Exists(u) /\ NamedFor(c, u) => providerID[c] = u \/ (pc[c] \in CreateSteps /\ cur[c] = u)

\* A launch that has its machine is the only one of its name.
NameTrace ==
  \A c \in Claims, u \in Uuids, v \in Uuids :
    pc[c] \in CreateSteps /\ cur[c] = v /\ u # v /\ NamedFor(c, u) => MachineGone(u)

TraceInv ==
  TypeOK /\ CallShape /\ NamesMatch /\ WorkersTrace /\ GoneTrace /\ FaultTrace /\ NameTrace

(* Steps ------------------------------------------------------------------*)

\* Failures are never forgotten.
LEMMA FaultsKept ==
  ASSUME TypeOK, Fault \/ UNCHANGED faults, faults' = 0
  PROVE  faults = 0 /\ UNCHANGED faults /\ ~ Fault
<1>1. faults \in Nat
  BY FaultBound DEF TypeOK
<1>2. QED
  BY <1>1 DEF Fault

LEMMA TraceInit == Init => TraceInv
<1> SUFFICES ASSUME Init PROVE TraceInv
  OBVIOUS
<1>1. TypeOK /\ CallShape /\ NamesMatch
  BY IndInit DEF IndInv
<1>2. ASSUME NEW c \in Claims, NEW u \in Uuids PROVE ~ NamedFor(c, u)
  <2>1. CASE u \in Foreign
    BY <2>1, LifecycleConstants DEF Init, NamedFor, GenerateVMName
  <2>2. CASE u \notin Foreign
    BY <2>2 DEF Init, NamedFor, GenerateVMName
  <2>3. QED
    BY <2>1, <2>2
<1>3. WorkersTrace /\ GoneTrace
  BY DEF Init, WorkersTrace, GoneTrace, NoWorkers
<1>4. FaultTrace /\ NameTrace
  BY <1>2 DEF FaultTrace, NameTrace
<1>5. QED
  BY <1>1, <1>3, <1>4 DEF TraceInv

\* A step that leaves machines, calls and claims alone disturbs at most what
\* is said about the collector's workers.
LEMMA TraceQuiet ==
  ASSUME TraceInv, TypeOK', WorkersTrace', Fault \/ UNCHANGED faults,
         UNCHANGED <<power, vmName, pc, cur, providerID, claim>>
  PROVE  TraceInv'
<1>1. CallShape' /\ NamesMatch'
  BY DEF TraceInv, CallShape, NamesMatch, NamedFor
<1>2. GoneTrace' /\ NameTrace'
  BY DEF TraceInv, GoneTrace, NameTrace, NamedFor, MachineGone
<1>3. FaultTrace'
  BY FaultsKept DEF TraceInv, FaultTrace, NamedFor, Exists
<1>4. QED
  BY <1>1, <1>2, <1>3 DEF TraceInv

\* A claim is added, deleted or refused; no machine or call changes.
LEMMA TraceClaim ==
  ASSUME TraceInv, TypeOK', NEW c \in Claims, AddClaim(c) \/ DeleteClaim(c) \/ RefuseCreate(c)
  PROVE  TraceInv'
<1>1. /\ UNCHANGED <<power, vmName, pc, cur, providerID, gcw, faults>>
      /\ \/ claim[c] = "absent" /\ claim' = [claim EXCEPT ![c] = "live"]
         \/ claim[c] = "live" /\ claim' = [claim EXCEPT ![c] = "deleting"]
  BY DEF AddClaim, DeleteClaim, RefuseCreate, vsphereVars, providerVars, gcVars
<1>2. CallShape' /\ GoneTrace'
  BY <1>1 DEF TraceInv, TypeOK, CallShape, GoneTrace, CreateSteps, DeleteSteps
<1>3. NamesMatch' /\ WorkersTrace' /\ FaultTrace' /\ NameTrace'
  BY <1>1 DEF TraceInv, NamesMatch, WorkersTrace, FaultTrace, NameTrace, NamedFor, MachineGone, Exists
<1>4. QED
  BY <1>2, <1>3 DEF TraceInv

\* A claim is finalized when its machine is gone, or was never recorded.
LEMMA TraceFinalize ==
  ASSUME TraceInv, TypeOK', NEW c \in Claims, FinalizeClaim(c) \/ FinalizeEmptyID(c)
  PROVE  TraceInv'
<1>1. /\ UNCHANGED <<power, vmName, pc, cur, providerID, gcw, faults>>
      /\ claim[c] = "deleting" /\ pc[c] = "idle" /\ claim' = [claim EXCEPT ![c] = "gone"]
  BY DEF FinalizeClaim, FinalizeEmptyID, vsphereVars, providerVars, gcVars
<1>2. CallShape'
  BY <1>1 DEF TraceInv, TypeOK, CallShape, CreateSteps, DeleteSteps
<1>3. GoneTrace'
  <2>1. ASSUME NEW u \in Uuids, providerID[c] = u PROVE power[u] = "destroyed"
    <3>1. ~ Exists(u)
      BY <2>1, LifecycleConstants DEF FinalizeClaim, FinalizeEmptyID
    <3>2. power[u] # "free"
      BY <2>1 DEF TraceInv, NamesMatch
    <3>3. QED
      BY <3>1, <3>2 DEF Exists, TraceInv, TypeOK, PowerStates
  <2>2. QED
    BY <1>1, <2>1 DEF TraceInv, TypeOK, GoneTrace
<1>4. NamesMatch' /\ WorkersTrace' /\ FaultTrace' /\ NameTrace'
  BY <1>1 DEF TraceInv, NamesMatch, WorkersTrace, FaultTrace, NameTrace, NamedFor, MachineGone, Exists
<1>5. QED
  BY <1>2, <1>3, <1>4 DEF TraceInv

\* Calls begin: a launch without a machine yet, a deletion with the recorded one.
LEMMA TraceStart ==
  ASSUME TraceInv, TypeOK', NEW c \in Claims, StartCreate(c) \/ StartDelete(c)
  PROVE  TraceInv'
<1>1. /\ UNCHANGED <<power, vmName, providerID, claim, gcw, faults>>
      /\ pc[c] = "idle"
      /\ \A d \in Claims : d # c => pc'[d] = pc[d] /\ cur'[d] = cur[d]
  BY DEF TraceInv, TypeOK, StartCreate, StartDelete, Goto, vsphereVars, claimVars, gcVars
<1>2. \/ /\ pc'[c] = "clone" /\ cur'[c] = cur[c]
         /\ claim[c] = "live" /\ providerID[c] = NoUuid
      \/ /\ pc'[c] = "poweroff" /\ cur'[c] = providerID[c]
         /\ claim[c] = "deleting" /\ providerID[c] \in Uuids
  BY DEF TraceInv, TypeOK, StartCreate, StartDelete, Goto
<1>3. cur[c] = NoUuid
  BY <1>1 DEF TraceInv, CallShape
<1>4. CallShape'
  BY <1>1, <1>2, <1>3 DEF TraceInv, CallShape, CreateSteps, DeleteSteps
<1>5. NamesMatch' /\ NameTrace'
  BY <1>1, <1>2, <1>3, LifecycleConstants
  DEF TraceInv, NamesMatch, NameTrace, NamedFor, MachineGone, CreateSteps
<1>6. WorkersTrace' /\ GoneTrace' /\ FaultTrace'
  BY <1>1 DEF TraceInv, WorkersTrace, GoneTrace, FaultTrace, NamedFor, Exists, CreateSteps
<1>7. QED
  BY <1>4, <1>5, <1>6 DEF TraceInv

\* What tasks other than a clone may do to the machines.
NoneRevived ==
  \A u \in Uuids :
    /\ Exists(u)' => Exists(u)
    /\ power'[u] = "free" <=> power[u] = "free"
    /\ power[u] = "destroyed" => power'[u] = "destroyed"

\* How a step of the call of claim c may change it: the call goes on with its
\* machine, loses the machine's identity, or returns.  A launch that returns
\* without a failure has no machine any more.
CallMoves(c) ==
  \/ /\ cur'[c] = cur[c] /\ pc'[c] # "clone"
     /\ \/ pc[c] \in {"tag", "poweron", "report"} /\ pc'[c] \in CreateSteps
        \/ pc[c] \in DeleteSteps /\ pc'[c] \in DeleteSteps
  \/ pc[c] = "report" /\ pc'[c] = "persist" /\ cur'[c] = EmptyID /\ Fault
  \/ /\ pc'[c] = "idle" /\ cur'[c] = NoUuid
     /\ \/ Fault
        \/ pc[c] \in DeleteSteps
        \/ pc[c] \in CreateSteps /\ (cur[c] \in Uuids => ~ Exists(cur[c]))

\* The invariant survives every such move.
LEMMA TraceCallMove ==
  ASSUME TraceInv, TypeOK', NEW c \in Claims, CallMoves(c), NoneRevived,
         Fault \/ UNCHANGED faults, UNCHANGED <<vmName, providerID, claim, gcw>>,
         WorkersTrace',
         \A d \in Claims : d # c => pc'[d] = pc[d] /\ cur'[d] = cur[d]
  PROVE  TraceInv'
<1>1. CallShape'
  <2>1. ASSUME NEW d \in Claims, d # c
        PROVE  pc'[d] = pc[d] /\ cur'[d] = cur[d] /\ providerID'[d] = providerID[d] /\ claim'[d] = claim[d]
    BY <2>1
  <2>2. CASE pc'[c] = "idle" /\ cur'[c] = NoUuid
    BY <2>1, <2>2 DEF TraceInv, CallShape, CreateSteps, DeleteSteps
  <2>3. CASE pc[c] = "report" /\ pc'[c] = "persist" /\ cur'[c] = EmptyID
    BY <2>1, <2>3, LifecycleConstants DEF TraceInv, CallShape, CreateSteps, DeleteSteps
  <2>4. CASE /\ cur'[c] = cur[c] /\ pc'[c] # "clone"
             /\ pc[c] \in {"tag", "poweron", "report"} /\ pc'[c] \in CreateSteps
    BY <2>1, <2>4, LifecycleConstants DEF TraceInv, CallShape, CreateSteps, DeleteSteps
  <2>5. CASE cur'[c] = cur[c] /\ pc[c] \in DeleteSteps /\ pc'[c] \in DeleteSteps
    BY <2>1, <2>5 DEF TraceInv, CallShape, CreateSteps, DeleteSteps
  <2>6. QED
    BY <2>2, <2>3, <2>4, <2>5 DEF CallMoves
<1>2. NamesMatch'
  BY LifecycleConstants DEF TraceInv, NamesMatch, NamedFor, CallMoves, NoneRevived
<1>3. GoneTrace'
  BY DEF TraceInv, GoneTrace, NoneRevived
<1>4. FaultTrace'
  <2>1. SUFFICES ASSUME faults' = 0, NEW d \in Claims, NEW u \in Uuids,
                        Exists(u)', NamedFor(d, u)', providerID[d] # u
                 PROVE  pc'[d] \in CreateSteps /\ cur'[d] = u
    BY DEF FaultTrace
  <2>2. faults = 0 /\ ~ Fault
    BY <2>1, FaultsKept DEF TraceInv
  <2>3. Exists(u) /\ NamedFor(d, u)
    BY <2>1 DEF NoneRevived, NamedFor
  <2>4. pc[d] \in CreateSteps /\ cur[d] = u
    BY <2>1, <2>2, <2>3 DEF TraceInv, FaultTrace
  <2>5. CASE d # c
    BY <2>4, <2>5
  <2>6. CASE d = c
    BY <2>2, <2>3, <2>4, <2>6 DEF CallMoves, CreateSteps, DeleteSteps
  <2>7. QED
    BY <2>5, <2>6
<1>5. NameTrace'
  <2>1. SUFFICES ASSUME NEW d \in Claims, NEW u \in Uuids, NEW v \in Uuids,
                        pc'[d] \in CreateSteps, cur'[d] = v, u # v, NamedFor(d, u)'
                 PROVE  power'[u] \in {"free", "destroyed"}
    BY DEF NameTrace, MachineGone
  <2>2. pc[d] \in CreateSteps /\ cur[d] = v
    BY <2>1, LifecycleConstants DEF CallMoves, CreateSteps, DeleteSteps
  <2>3. power[u] \in {"free", "destroyed"}
    BY <2>1, <2>2 DEF TraceInv, NameTrace, MachineGone, NamedFor
  <2>4. QED
    BY <2>3 DEF NoneRevived
<1>6. QED
  BY <1>1, <1>2, <1>3, <1>4, <1>5 DEF TraceInv

\* The tasks on one machine revive nothing.
LEMMA TasksRevive ==
  ASSUME TypeOK, NEW u \in Uuids, PowerOnVM(u) \/ PowerOffVM(u) \/ DestroyVM(u) \/ UNCHANGED power
  PROVE  NoneRevived
BY DEF TypeOK, PowerOnVM, PowerOffVM, DestroyVM, NoneRevived, Exists

\* Neither do they disturb the collector.
LEMMA WorkersKept ==
  ASSUME WorkersTrace, NoneRevived, UNCHANGED gcw
  PROVE  WorkersTrace'
BY DEF WorkersTrace, NoneRevived

\* The steps of a call after the clone.
LEMMA TraceCall ==
  ASSUME TraceInv, TypeOK', NEW c \in Claims, UNCHANGED <<clusterVars, claimVars, gcVars>>,
         Tag(c) \/ PowerOn(c) \/ Report(c) \/ ClaimPowerOff(c) \/ ClaimDestroy(c)
  PROVE  TraceInv'
<1> USE DEF Goto, Return, Fault, NoFault, vsphereVars, claimVars, gcVars
<1>0. TypeOK /\ cur[c] \in Uuids
  <2>1. CASE pc[c] = "report"
    BY <2>1 DEF TraceInv, CallShape
  <2>2. CASE pc[c] # "report"
    BY <2>2 DEF TraceInv, CallShape, Tag, PowerOn, Report, ClaimPowerOff, ClaimDestroy, DeleteSteps
  <2>3. QED
    BY <2>1, <2>2 DEF TraceInv
<1>1. NoneRevived
  <2>1. PowerOnVM(cur[c]) \/ PowerOffVM(cur[c]) \/ DestroyVM(cur[c]) \/ UNCHANGED power
    BY DEF Tag, PowerOn, Report, ClaimPowerOff, ClaimDestroy, DeletePowerOff, DeleteDestroy
  <2>2. QED
    BY <1>0, <2>1, TasksRevive
<1>2. CallMoves(c)
  <2>1. CASE Tag(c)
    BY <1>0, <2>1 DEF Tag, CallMoves, CreateSteps, TypeOK
  <2>2. CASE PowerOn(c)
    BY <1>0, <2>2 DEF PowerOn, CallMoves, CreateSteps, TypeOK
  <2>3. CASE Report(c)
    BY <1>0, <2>3 DEF Report, CallMoves, CreateSteps, TypeOK
  <2>4. CASE ClaimPowerOff(c)
    BY <1>0, <2>4 DEF ClaimPowerOff, DeletePowerOff, CallMoves, DeleteSteps, TypeOK
  <2>5. CASE ClaimDestroy(c)
    BY <1>0, <2>5 DEF ClaimDestroy, DeleteDestroy, CallMoves, DeleteSteps, TypeOK
  <2>6. QED
    BY <2>1, <2>2, <2>3, <2>4, <2>5
<1>3. /\ UNCHANGED <<vmName, providerID, claim, gcw>>
      /\ Fault \/ UNCHANGED faults
  BY DEF Tag, PowerOn, Report, ClaimPowerOff, ClaimDestroy, DeletePowerOff, DeleteDestroy
<1>4. \A d \in Claims : d # c => pc'[d] = pc[d] /\ cur'[d] = cur[d]
  BY <1>0
  DEF Tag, PowerOn, Report, ClaimPowerOff, ClaimDestroy, DeletePowerOff, DeleteDestroy, TypeOK
<1>5. QED
  BY <1>1, <1>2, <1>3, <1>4, TraceCallMove, WorkersKept DEF TraceInv
\* A clone gives the claim's name to a machine that nobody used before.
LEMMA TraceCloned ==
  ASSUME TraceInv, TypeOK', NEW c \in Claims, pc[c] = "clone",
         NEW u \in Uuids, CloneVM(u, GenerateVMName(ClusterName, c)),
         \/ Return(c) /\ Fault
         \/ Goto(c, "tag") /\ cur' = [cur EXCEPT ![c] = u] /\ UNCHANGED faults,
         UNCHANGED <<claim, providerID, gcw>>
  PROVE  TraceInv'
<1>1. /\ power[u] = "free" /\ power' = [power EXCEPT ![u] = "off"]
      /\ vmName' = [vmName EXCEPT ![u] = GenerateVMName(ClusterName, c)]
      /\ TypeOK
  BY DEF CloneVM, TraceInv
<1>2. \A d \in Claims : cur[d] # u /\ providerID[d] # u
  BY <1>1 DEF TraceInv, NamesMatch
<1>3. \A d \in Claims : d # c => pc'[d] = pc[d] /\ cur'[d] = cur[d]
  BY <1>1 DEF Return, Goto, TypeOK
<1>4. \/ pc'[c] = "idle" /\ cur'[c] = NoUuid /\ Fault
      \/ pc'[c] = "tag" /\ cur'[c] = u
  BY <1>1 DEF Return, Goto, TypeOK
<1>5. NamedFor(c, u)' /\ power'[u] = "off"
  BY <1>1 DEF NamedFor, TypeOK
<1>6. \A v \in Uuids : v # u => power'[v] = power[v] /\ vmName'[v] = vmName[v]
  BY <1>1 DEF TypeOK
<1>7. CallShape'
  BY <1>3, <1>4, LifecycleConstants DEF TraceInv, CallShape, CreateSteps, DeleteSteps
<1>8. NamesMatch'
  BY <1>2, <1>3, <1>4, <1>5, <1>6, LifecycleConstants DEF TraceInv, NamesMatch, NamedFor
<1>9. WorkersTrace' /\ GoneTrace'
  BY <1>1, <1>2, <1>5, <1>6 DEF TraceInv, WorkersTrace, GoneTrace
<1>10. FaultTrace'
  <2>1. SUFFICES ASSUME faults' = 0, NEW d \in Claims, NEW v \in Uuids,
                        Exists(v)', NamedFor(d, v)', providerID[d] # v
                 PROVE  pc'[d] \in CreateSteps /\ cur'[d] = v
    BY DEF FaultTrace
  <2>2. faults = 0 /\ ~ Fault
    BY <2>1, <1>1, FaultsKept
  <2>3. CASE v = u
    <3>1. d = c
      BY <2>1, <2>3, <1>5 DEF NamedFor, GenerateVMName
    <3>2. QED
      BY <1>4, <2>2, <2>3, <3>1 DEF CreateSteps
  <2>4. CASE v # u
    <3>1. Exists(v) /\ NamedFor(d, v)
      BY <2>1, <2>4, <1>6 DEF Exists, NamedFor
    <3>2. pc[d] \in CreateSteps /\ cur[d] = v
      BY <2>1, <2>2, <3>1 DEF TraceInv, FaultTrace
    <3>3. d # c
      BY <3>2, LifecycleConstants DEF TraceInv, CallShape
    <3>4. QED
      BY <1>3, <3>2, <3>3
  <2>5. QED
    BY <2>3, <2>4
<1>11. NameTrace'
  <2>1. SUFFICES ASSUME NEW d \in Claims, NEW w \in Uuids, NEW v \in Uuids,
                        pc'[d] \in CreateSteps, cur'[d] = v, w # v, NamedFor(d, w)'
                 PROVE  power'[w] \in {"free", "destroyed"}
    BY DEF NameTrace, MachineGone
  <2>2. CASE d = c
    <3>1. v = u
      BY <1>4, <2>1, <2>2 DEF CreateSteps
    <3>2. vmName[w] = GenerateVMName(ClusterName, c)
      BY <1>6, <2>1, <2>2, <3>1 DEF NamedFor
    <3>3. ~ Exists(w)
      BY <3>2 DEF CloneVM, NameTaken
    <3>4. power[w] \in {"free", "destroyed"}
      BY <3>3, <1>1 DEF Exists, TypeOK, PowerStates
    <3>5. QED
      BY <1>6, <2>1, <3>1, <3>4
  <2>3. CASE d # c
    <3>1. pc[d] \in CreateSteps /\ cur[d] = v
      BY <1>3, <2>1, <2>3
    <3>2. w # u
      BY <1>5, <2>1, <2>3 DEF NamedFor, GenerateVMName
    <3>3. power[w] \in {"free", "destroyed"}
      BY <1>6, <2>1, <3>1, <3>2 DEF TraceInv, NameTrace, NamedFor, MachineGone
    <3>4. QED
      BY <1>6, <3>2, <3>3
  <2>4. QED
    BY <2>2, <2>3
<1>12. QED
  BY <1>7, <1>8, <1>9, <1>10, <1>11 DEF TraceInv

LEMMA TraceClone ==
  ASSUME TraceInv, TypeOK', NEW c \in Claims, UNCHANGED <<clusterVars, claimVars, gcVars>>, Clone(c)
  PROVE  TraceInv'
<1> DEFINE name == GenerateVMName(ClusterName, c)
<1>0. TypeOK /\ pc[c] = "clone" /\ UNCHANGED <<claim, providerID, gcw>>
  BY DEF TraceInv, Clone, claimVars, gcVars
<1>1. CASE Return(c) /\ UNCHANGED <<power, vmName>> /\ (NoFault \/ Fault)
  <2>1. /\ pc'[c] = "idle" /\ cur'[c] = NoUuid
        /\ \A d \in Claims : d # c => pc'[d] = pc[d] /\ cur'[d] = cur[d]
    BY <1>0, <1>1 DEF Return, Goto, TypeOK
  <2>2. cur[c] = NoUuid
    BY <1>0 DEF TraceInv, CallShape
  <2>3. CallMoves(c)
    BY <1>0, <2>1, <2>2, LifecycleConstants DEF CallMoves, CreateSteps
  <2>4. NoneRevived
    BY <1>1 DEF NoneRevived, Exists
  <2>5. WorkersTrace'
    BY <1>0, <2>4, WorkersKept DEF TraceInv
  <2>6. QED
    BY <1>0, <1>1, <2>1, <2>3, <2>4, <2>5, TraceCallMove DEF NoFault
<1>2. ASSUME NEW u \in Uuids, CloneVM(u, name),
             \/ Return(c) /\ Fault
             \/ Goto(c, "tag") /\ cur' = [cur EXCEPT ![c] = u] /\ NoFault
      PROVE  TraceInv'
  BY <1>0, <1>2, TraceCloned DEF NoFault
<1>3. QED
  BY <1>1, <1>2 DEF Clone, NoFault

\* The result of a launch reaches the claim, or is lost with the claim.
LEMMA TracePersist ==
  ASSUME TraceInv, TypeOK', NEW c \in Claims, Persist(c)
  PROVE  TraceInv'
<1>1. /\ UNCHANGED <<power, vmName, claim, gcw, faults>>
      /\ pc[c] = "persist" /\ pc'[c] = "idle" /\ cur'[c] = NoUuid /\ providerID'[c] = cur[c]
      /\ \A d \in Claims :
           d # c => pc'[d] = pc[d] /\ cur'[d] = cur[d] /\ providerID'[d] = providerID[d]
  BY DEF TraceInv, TypeOK, Persist, Return, Goto, vsphereVars, gcVars
<1>2. CallShape'
  BY <1>1 DEF TraceInv, CallShape, CreateSteps, DeleteSteps
<1>3. NamesMatch' /\ NameTrace'
  BY <1>1, LifecycleConstants
  DEF TraceInv, NamesMatch, NameTrace, NamedFor, MachineGone, CreateSteps
<1>4. GoneTrace' /\ WorkersTrace'
  BY <1>1 DEF TraceInv, GoneTrace, WorkersTrace, CallShape, CreateSteps
<1>5. FaultTrace'
  <2>1. providerID[c] = NoUuid
    BY <1>1 DEF TraceInv, CallShape, CreateSteps
  <2>2. QED
    BY <1>1, <2>1, LifecycleConstants DEF TraceInv, FaultTrace, NamedFor, Exists, CreateSteps
<1>6. QED
  BY <1>2, <1>3, <1>4, <1>5 DEF TraceInv

LEMMA TraceDropResult ==
  ASSUME TraceInv, TypeOK', NEW c \in Claims, DropResult(c)
  PROVE  TraceInv'
<1>1. /\ Fault /\ UNCHANGED <<power, vmName, providerID, claim, gcw>>
      /\ pc'[c] = "idle" /\ cur'[c] = NoUuid
      /\ \A d \in Claims : d # c => pc'[d] = pc[d] /\ cur'[d] = cur[d]
  BY DEF TraceInv, TypeOK, DropResult, Return, Goto, vsphereVars, claimVars, gcVars
<1>2. CallMoves(c) /\ NoneRevived
  BY <1>1 DEF CallMoves, NoneRevived, Exists
<1>3. WorkersTrace'
  BY <1>1, <1>2, WorkersKept DEF TraceInv
<1>4. QED
  BY <1>1, <1>2, <1>3, TraceCallMove

LEMMA TraceCrash ==
  ASSUME TraceInv, TypeOK', Crash
  PROVE  TraceInv'
<1>1. /\ UNCHANGED <<power, vmName, providerID, claim>>
      /\ \A c \in Claims : pc'[c] = "idle" /\ cur'[c] = NoUuid
      /\ \A u \in Uuids : gcw'[u] = "none"
  BY DEF Crash, GcReturn, NoWorkers, vsphereVars
<1>2. CallShape'
  BY <1>1 DEF TraceInv, CallShape, CreateSteps, DeleteSteps
<1>3. NamesMatch' /\ NameTrace'
  BY <1>1, LifecycleConstants DEF TraceInv, NamesMatch, NameTrace, NamedFor, CreateSteps
<1>4. GoneTrace' /\ WorkersTrace'
  BY <1>1 DEF TraceInv, GoneTrace, WorkersTrace
<1>5. FaultTrace'
  <2>1. faults' # 0
    BY FaultsKept DEF TraceInv, Crash
  <2>2. QED
    BY <2>1 DEF FaultTrace
<1>6. QED
  BY <1>2, <1>3, <1>4, <1>5 DEF TraceInv

\* The passes of the collector leave calls and claims alone.  Its tasks revive
\* nothing, and its workers are right about the machines they have.
LEMMA TraceTask ==
  ASSUME TraceInv, TypeOK', NoneRevived, WorkersTrace', Fault \/ UNCHANGED faults,
         UNCHANGED <<vmName, pc, cur, providerID, claim>>
  PROVE  TraceInv'
<1>1. CallShape' /\ NamesMatch'
  BY DEF TraceInv, CallShape, NamesMatch, NamedFor, NoneRevived
<1>2. GoneTrace' /\ NameTrace'
  BY DEF TraceInv, GoneTrace, NameTrace, NamedFor, MachineGone, NoneRevived
<1>3. FaultTrace'
  <2>1. SUFFICES ASSUME faults' = 0, NEW d \in Claims, NEW u \in Uuids,
                        Exists(u)', NamedFor(d, u)', providerID[d] # u
                 PROVE  pc[d] \in CreateSteps /\ cur[d] = u
    BY DEF FaultTrace
  <2>2. faults = 0
    BY <2>1, FaultsKept DEF TraceInv
  <2>3. Exists(u) /\ NamedFor(d, u)
    BY <2>1 DEF NoneRevived, NamedFor
  <2>4. QED
    BY <2>1, <2>2, <2>3 DEF TraceInv, FaultTrace
<1>4. QED
  BY <1>1, <1>2, <1>3 DEF TraceInv

LEMMA TraceGcTask ==
  ASSUME TraceInv, TypeOK', NEW u \in Uuids, GcPowerOff(u) \/ GcDestroy(u)
  PROVE  TraceInv'
<1>1. /\ UNCHANGED <<vmName, pc, cur, providerID, claim>>
      /\ Fault \/ UNCHANGED faults
      /\ PowerOffVM(u) \/ DestroyVM(u) \/ UNCHANGED power
  BY DEF GcPowerOff, GcDestroy, DeletePowerOff, DeleteDestroy, NoFault, gcRest
<1>2. NoneRevived
  BY <1>1, TasksRevive DEF TraceInv
<1>3. /\ gcw[u] # "none"
      /\ \A v \in Uuids : v # u => gcw'[v] = gcw[v]
      /\ gcw'[u] = "node" => DestroyVM(u)
  BY DEF GcPowerOff, GcDestroy, DeletePowerOff, DeleteDestroy, GcGoto, TraceInv, TypeOK
<1>4. DestroyVM(u) => power'[u] = "destroyed"
  BY DEF DestroyVM, TraceInv, TypeOK
<1>5. WorkersTrace'
  BY <1>2, <1>3, <1>4 DEF TraceInv, WorkersTrace, NoneRevived
<1>6. QED
  BY <1>1, <1>2, <1>5, TraceTask

LEMMA TraceGcRead ==
  ASSUME TraceInv, TypeOK',
         \/ GcListVMs \/ GcResolve \/ GcListClaims \/ GcListNodes \/ GcFinish \/ GcAbort
         \/ \E u \in Uuids : GcInspect(u) \/ GcCheck(u) \/ GcDeleteNode(u)
  PROVE  TraceInv'
<1> USE DEF gcRest, GcReturn, NoWorkers, GcGoto, NoFault
<1>1. /\ UNCHANGED <<power, vmName, pc, cur, providerID, claim>>
      /\ Fault \/ UNCHANGED faults
  BY DEF GcListVMs, GcResolve, GcListClaims, GcListNodes, GcFinish, GcAbort, GcInspect, GcCheck, GcDeleteNode
<1>2. CASE GcListVMs
  <2>1. \A u \in Uuids : gcw'[u] # "none" => power[u] # "free"
    BY <1>2 DEF GcListVMs, Exists
  <2>2. \A u \in Uuids : gcw'[u] # "node"
    BY <1>2 DEF GcListVMs
  <2>3. WorkersTrace'
    BY <1>1, <2>1, <2>2 DEF WorkersTrace
  <2>4. QED
    BY <1>1, <2>3, TraceQuiet
<1>3. CASE GcResolve \/ GcListClaims \/ GcListNodes \/ GcFinish \/ GcAbort
  <2>1. UNCHANGED gcw \/ \A u \in Uuids : gcw'[u] = "none"
    BY <1>3 DEF GcResolve, GcListClaims, GcListNodes, GcFinish, GcAbort
  <2>2. WorkersTrace'
    BY <1>1, <2>1 DEF TraceInv, WorkersTrace
  <2>3. QED
    BY <1>1, <2>2, TraceQuiet
<1>4. ASSUME NEW u \in Uuids, GcInspect(u) \/ GcCheck(u) \/ GcDeleteNode(u) PROVE TraceInv'
  <2>1. /\ gcw[u] # "none" /\ gcw'[u] # "node"
        /\ \A v \in Uuids : v # u => gcw'[v] = gcw[v]
    BY <1>4 DEF GcInspect, GcCheck, GcDeleteNode, TraceInv, TypeOK
  <2>2. WorkersTrace'
    BY <1>1, <2>1 DEF TraceInv, WorkersTrace
  <2>3. QED
    BY <1>1, <2>2, TraceQuiet
<1>5. QED
  BY <1>2, <1>3, <1>4

\* Caches, clocks, kubelets and users.
LEMMA TraceRest ==
  ASSUME TraceInv, TypeOK',
         \/ Edit \/ UNCHANGED vars
         \/ \E c \in Claims : CacheSync(c)
         \/ \E u \in Uuids : Age(u) \/ NodeJoin(u)
  PROVE  TraceInv'
<1>1. UNCHANGED <<power, vmName, pc, cur, providerID, claim, gcw, faults>>
  BY DEF Edit, CacheSync, Age, NodeJoin, vars, vsphereVars, providerVars, claimVars, gcVars
<1>2. WorkersTrace'
  BY <1>1 DEF TraceInv, WorkersTrace
<1>3. QED
  BY <1>1, <1>2, TraceQuiet

LEMMA TraceNext == TraceInv /\ [Next]_vars => TraceInv'
<1> SUFFICES ASSUME TraceInv, [Next]_vars PROVE TraceInv'
  OBVIOUS
<1>1. TypeOK'
  BY TypeNext DEF TraceInv
<1>2. ASSUME NEW c \in Claims, CallStep(c) PROVE TraceInv'
  BY <1>1, <1>2, TraceClone, TraceCall DEF CallStep
<1>3. ASSUME NEW c \in Claims,
             \/ AddClaim(c) \/ DeleteClaim(c) \/ ReconcileClaim(c) \/ DropResult(c)
             \/ FinalizeEmptyID(c) \/ CacheSync(c)
      PROVE  TraceInv'
  BY <1>1, <1>2, <1>3, TraceClaim, TraceFinalize, TraceStart, TracePersist, TraceDropResult,
     TraceRest
  DEF ReconcileClaim
<1>4. CASE GcStep \/ GcAbort
  BY <1>1, <1>4, TraceGcTask, TraceGcRead DEF GcStep
<1>5. QED
  BY <1>1, <1>3, <1>4, TraceCrash, TraceRest DEF Next

\* What machines, calls, claims and the collector's workers say about one
\* another holds in every behaviour, whatever the clock does.
THEOREM LifecycleTraces == Spec => []TraceInv
<1>1. QED
  BY TraceInit, TraceNext, PTL DEF Spec

(* Theorems ---------------------------------------------------------------*)

\* A claim disappears from the API server only after the machine it recorded
\* is destroyed, and while no call has failed and nothing crashed no machine
\* named for it is left, recorded or not.
THEOREM FinalizationIsComplete == Spec => []FinalizedClaimLeavesNoVM
<1>1. TraceInv => FinalizedClaimLeavesNoVM
  <2>1. SUFFICES ASSUME TraceInv, NEW c \in Claims, NEW u \in Uuids,
                        claim[c] = "gone", Exists(u), NamedFor(c, u)
                 PROVE  faults > 0 /\ providerID[c] # u
    BY DEF FinalizedClaimLeavesNoVM
  <2>2. providerID[c] # u
    BY <2>1 DEF TraceInv, GoneTrace, Exists
  <2>3. pc[c] \notin CreateSteps
    BY <2>1 DEF TraceInv, CallShape
  <2>4. faults # 0
    BY <2>1, <2>2, <2>3 DEF TraceInv, FaultTrace
  <2>5. faults \in Nat
    <3>1. TypeOK
      BY <2>1 DEF TraceInv
    <3>2. QED
      BY <3>1, FaultBound DEF TypeOK
  <2>6. QED
    BY <2>2, <2>4, <2>5
<1>2. QED
  BY <1>1, LifecycleTraces, PTL

\* A claim whose recorded machine loses its Node is the only one that could use
\* it: neither a live claim nor a running launch shares the machine.
LEMMA DeletedAlone ==
  ASSUME IndInv, NEW c \in Claims, NEW u \in Uuids,
         claim[c] = "deleting", pc[c] = "idle", providerID[c] = u
  PROVE  ~ InFlight(u) /\ \A d \in Claims : ~ LiveOn(d, u)
<1>1. \A d \in Claims : providerID[d] = u \/ cur[d] = u => d = c
  BY OneClaimPerName DEF IndInv, NamesMatch
<1>2. QED
  BY <1>1 DEF InFlight, LiveOn, CreateSteps

\* A step that removes the Node of u is the collector's for u, or the deletion
\* of the claim that recorded u.
LEMMA NodeRemovers ==
  ASSUME Next, NEW u \in Uuids, u \in nodes, u \notin nodes'
  PROVE  GcDeleteNode(u) \/ \E c \in Claims : StartDelete(c) /\ providerID[c] = u
<1>1. ~ UNCHANGED nodes
  OBVIOUS
<1>2. ASSUME NEW c \in Claims,
             \/ AddClaim(c) \/ DeleteClaim(c) \/ StartCreate(c) \/ RefuseCreate(c) \/ CallStep(c)
             \/ Persist(c) \/ DropResult(c) \/ FinalizeClaim(c) \/ FinalizeEmptyID(c) \/ CacheSync(c)
      PROVE  FALSE
  BY <1>1, <1>2
  DEF AddClaim, DeleteClaim, StartCreate, RefuseCreate, CallStep, Persist, DropResult,
      FinalizeClaim, FinalizeEmptyID, CacheSync, claimVars
<1>3. ASSUME \/ GcListVMs \/ GcResolve \/ GcListClaims \/ GcListNodes \/ GcFinish \/ GcAbort
             \/ Edit \/ Crash
             \/ \E v \in Uuids : GcInspect(v) \/ GcCheck(v) \/ GcPowerOff(v) \/ GcDestroy(v) \/ Age(v)
      PROVE  FALSE
  BY <1>1, <1>3
  DEF GcListVMs, GcResolve, GcListClaims, GcListNodes, GcFinish, GcAbort, Edit, Crash, GcInspect,
      GcCheck, GcPowerOff, GcDestroy, Age, claimVars
<1>4. ASSUME NEW c \in Claims, StartDelete(c) PROVE providerID[c] = u
  BY <1>4 DEF StartDelete
<1>5. ASSUME NEW v \in Uuids, GcDeleteNode(v) \/ NodeJoin(v) PROVE GcDeleteNode(u)
  BY <1>5 DEF GcDeleteNode, NodeJoin
<1>6. QED
  BY <1>2, <1>3, <1>4, <1>5 DEF Next, ReconcileClaim, GcStep

\* No step deletes a Node but for a destroyed machine or by the deletion of the
\* claim that recorded it; and when the five minutes outlast launches and
\* passes, it never is the Node of a live claim or of a running launch.
THEOREM NodesRemovedSafely == Spec => NodeRemovalSafe
<1> DEFINE Cause(u) ==
      power[u] = "destroyed" \/ \E c \in Claims : claim[c] = "deleting" /\ providerID[c] = u
    Unused(u) == ~ InFlight(u) /\ \A c \in Claims : ~ LiveOn(c, u)
    Removed(u) == u \in nodes /\ u \notin nodes'
    Caused == \A u \in Uuids : Removed(u) => Cause(u)
    Idle == \A u \in Uuids : Removed(u) => Unused(u)
    Removal ==
      \A u \in Uuids : u \in nodes /\ u \notin nodes' =>
        /\ \/ power[u] = "destroyed"
           \/ \E c \in Claims : claim[c] = "deleting" /\ providerID[c] = u
        /\ GraceCoversLaunch => ~ InFlight(u) /\ \A c \in Claims : ~ LiveOn(c, u)
<1>1. TraceInv /\ [Next]_vars => [Caused]_vars
  <2>1. SUFFICES ASSUME TraceInv, Next, NEW u \in Uuids, Removed(u) PROVE Cause(u)
    OBVIOUS
  <2>2. CASE GcDeleteNode(u)
    BY <2>1, <2>2 DEF GcDeleteNode, TraceInv, WorkersTrace
  <2>3. ASSUME NEW c \in Claims, StartDelete(c), providerID[c] = u PROVE Cause(u)
    BY <2>3 DEF StartDelete
  <2>4. QED
    BY <2>1, <2>2, <2>3, NodeRemovers
<1>2. IndInv /\ [Next]_vars => [Idle]_vars
  <2>1. SUFFICES ASSUME IndInv, Next, NEW u \in Uuids, Removed(u) PROVE Unused(u)
    OBVIOUS
  <2>2. CASE GcDeleteNode(u)
    BY <2>1, <2>2 DEF GcDeleteNode, IndInv, CollectorSafe
  <2>3. ASSUME NEW c \in Claims, StartDelete(c), providerID[c] = u PROVE Unused(u)
    BY <2>1, <2>3, DeletedAlone DEF StartDelete
  <2>4. QED
    BY <2>1, <2>2, <2>3, NodeRemovers
<1>3. GraceCoversLaunch /\ IndInv /\ [Next]_vars => IndInv'
  BY IndNext
<1>4. CASE GraceCoversLaunch
  <2>1. [Caused]_vars /\ [Idle]_vars => [Removal]_vars
    OBVIOUS
  <2>2. IndInv /\ [Next]_vars => IndInv'
    BY <1>3, <1>4
  <2>3. QED
    BY <1>1, <1>2, <2>1, <2>2, IndInit, LifecycleTraces, PTL DEF Spec, NodeRemovalSafe
<1>5. CASE ~ GraceCoversLaunch
  <2>1. [Caused]_vars => [Removal]_vars
    BY <1>5
  <2>2. QED
    BY <1>1, <2>1, LifecycleTraces, PTL DEF Spec, NodeRemovalSafe
<1>6. QED
  BY <1>4, <1>5

\* What could still happen to a machine that is stopped and unattended: a
\* call that powers it on or destroys it would attend to it.
LEMMA StuckStays ==
  ASSUME TraceInv, [Next]_vars, NEW u \in Uuids, Stuck(u)
  PROVE  Stuck(u)'
<1>0. TypeOK /\ u \notin Foreign /\ power[u] = "off" /\ gcw[u] # "destroy"
  BY DEF TraceInv, Stuck, Own, Attended
<1>1. \A c \in Claims : pc[c] \in CreateSteps \cup {"destroy"} => cur[c] # u
  BY DEF Stuck, Attended, InFlight
<1> DEFINE Kept ==
      /\ power'[u] = "off" /\ gcw'[u] # "destroy"
      /\ \A c \in Claims : pc'[c] \in CreateSteps \cup {"destroy"} => cur'[c] # u
<1>2. SUFFICES Kept
  BY <1>0 DEF Stuck, Own, Attended, InFlight
<1> USE DEF vsphereVars, providerVars, clusterVars, claimVars, gcVars, gcRest,
            Goto, Return, NoFault, GcGoto, GcReturn, NoWorkers
<1>3. ASSUME NEW c \in Claims, Clone(c), UNCHANGED <<clusterVars, claimVars, gcVars>>
      PROVE  Kept
  <2>1. pc[c] = "clone"
    BY <1>3 DEF Clone
  <2>2. CASE Return(c) /\ UNCHANGED power
    BY <1>0, <1>1, <1>3, <2>2, LifecycleConstants DEF TypeOK, CreateSteps
  <2>3. ASSUME NEW v \in Uuids, CloneVM(v, GenerateVMName(ClusterName, c)),
               Return(c) \/ (Goto(c, "tag") /\ cur' = [cur EXCEPT ![c] = v])
        PROVE  Kept
    <3>1. v # u /\ power'[u] = "off"
      BY <1>0, <2>3 DEF CloneVM, TypeOK
    <3>2. QED
      BY <1>0, <1>1, <1>3, <2>3, <3>1, LifecycleConstants DEF TypeOK, CreateSteps
  <2>4. QED
    BY <1>3, <2>2, <2>3 DEF Clone
<1>4. ASSUME NEW c \in Claims, Tag(c) \/ PowerOn(c) \/ Report(c),
             UNCHANGED <<clusterVars, claimVars, gcVars>>
      PROVE  Kept
  <2>1. pc[c] \in CreateSteps /\ cur[c] # u
    BY <1>1, <1>4 DEF Tag, PowerOn, Report, CreateSteps
  <2>2. power'[u] = "off"
    BY <1>0, <1>4, <2>1 DEF Tag, PowerOn, Report, PowerOnVM, TypeOK
  <2>3. cur'[c] # u /\ \A d \in Claims : d # c => pc'[d] = pc[d] /\ cur'[d] = cur[d]
    BY <1>0, <1>4, <2>1, LifecycleConstants DEF Tag, PowerOn, Report, TypeOK
  <2>4. QED
    BY <1>0, <1>1, <1>4, <2>2, <2>3
<1>5. ASSUME NEW c \in Claims, ClaimPowerOff(c) \/ ClaimDestroy(c),
             UNCHANGED <<clusterVars, claimVars, gcVars>>
      PROVE  Kept
  <2>1. ClaimDestroy(c) => cur[c] # u
    BY <1>1 DEF ClaimDestroy
  <2>2. power'[u] = "off"
    BY <1>0, <1>5, <2>1
    DEF ClaimPowerOff, ClaimDestroy, DeletePowerOff, DeleteDestroy, PowerOffVM, DestroyVM, TypeOK
  <2>3. pc'[c] = "idle" \/ (pc'[c] = "destroy" /\ cur'[c] = cur[c] /\ power[cur[c]] = "on")
    BY <1>0, <1>5
    DEF ClaimPowerOff, ClaimDestroy, DeletePowerOff, DeleteDestroy, PowerOffVM, TypeOK
  <2>4. \A d \in Claims : d # c => pc'[d] = pc[d] /\ cur'[d] = cur[d]
    BY <1>0, <1>5 DEF ClaimPowerOff, ClaimDestroy, DeletePowerOff, DeleteDestroy, TypeOK
  <2>5. QED
    BY <1>0, <1>1, <1>5, <2>2, <2>3, <2>4 DEF CreateSteps
<1>6. ASSUME NEW c \in Claims, StartCreate(c) \/ StartDelete(c) \/ Persist(c) \/ DropResult(c)
      PROVE  Kept
  <2>1. UNCHANGED <<power, gcw>>
    BY <1>6 DEF StartCreate, StartDelete, Persist, DropResult
  <2>2. \A d \in Claims : d # c => pc'[d] = pc[d] /\ cur'[d] = cur[d]
    BY <1>0, <1>6 DEF StartCreate, StartDelete, Persist, DropResult, TypeOK
  <2>3. StartCreate(c) => cur'[c] = NoUuid
    BY DEF StartCreate, TraceInv, CallShape
  <2>4. pc'[c] \in {"idle", "poweroff"} \/ cur'[c] = NoUuid
    BY <1>0, <1>6, <2>3 DEF StartDelete, Persist, DropResult, TypeOK
  <2>5. QED
    BY <1>0, <1>1, <2>1, <2>2, <2>4, LifecycleConstants DEF CreateSteps
<1>7. ASSUME NEW v \in Uuids,
             GcInspect(v) \/ GcCheck(v) \/ GcPowerOff(v) \/ GcDestroy(v) \/ GcDeleteNode(v)
      PROVE  Kept
  <2>1. UNCHANGED <<pc, cur>>
    BY <1>7 DEF GcInspect, GcCheck, GcPowerOff, GcDestroy, GcDeleteNode
  <2>2. CASE GcInspect(v) \/ GcCheck(v) \/ GcDeleteNode(v)
    BY <1>0, <1>1, <2>1, <2>2 DEF GcInspect, GcCheck, GcDeleteNode, TypeOK
  <2>3. CASE GcPowerOff(v)
    BY <1>0, <1>1, <2>1, <2>3 DEF GcPowerOff, DeletePowerOff, PowerOffVM, TypeOK
  <2>4. CASE GcDestroy(v)
    BY <1>0, <1>1, <2>1, <2>4 DEF GcDestroy, DeleteDestroy, DestroyVM, TypeOK
  <2>5. QED
    BY <1>7, <2>2, <2>3, <2>4
<1>8. ASSUME GcListVMs \/ GcResolve \/ GcListClaims \/ GcListNodes \/ GcFinish \/ GcAbort \/ Crash
      PROVE  Kept
  <2>1. CASE Crash
    BY <1>0, <2>1, LifecycleConstants DEF Crash
  <2>2. CASE GcListVMs \/ GcResolve \/ GcListClaims \/ GcListNodes \/ GcFinish \/ GcAbort
    <3>1. UNCHANGED <<power, pc, cur>>
      BY <2>2 DEF GcListVMs, GcResolve, GcListClaims, GcListNodes, GcFinish, GcAbort
    <3>2. gcw'[u] # "destroy"
      BY <1>0, <2>2 DEF GcListVMs, GcResolve, GcListClaims, GcListNodes, GcFinish, GcAbort
    <3>3. QED
      BY <1>0, <1>1, <3>1, <3>2
  <2>3. QED
    BY <1>8, <2>1, <2>2
<1>9. CASE UNCHANGED <<power, pc, cur, gcw>>
  BY <1>0, <1>1, <1>9
<1>10. ASSUME NEW c \in Claims,
              \/ AddClaim(c) \/ DeleteClaim(c) \/ RefuseCreate(c) \/ FinalizeClaim(c)
              \/ FinalizeEmptyID(c) \/ CacheSync(c)
       PROVE  UNCHANGED <<power, pc, cur, gcw>>
  BY <1>10 DEF AddClaim, DeleteClaim, RefuseCreate, FinalizeClaim, FinalizeEmptyID, CacheSync
<1>11. ASSUME Edit \/ UNCHANGED vars \/ \E v \in Uuids : Age(v) \/ NodeJoin(v)
       PROVE  UNCHANGED <<power, pc, cur, gcw>>
  BY <1>11 DEF Edit, vars, Age, NodeJoin
<1>12. QED
  BY <1>3, <1>4, <1>5, <1>6, <1>7, <1>8, <1>9, <1>10, <1>11
  DEF Next, ReconcileClaim, CallStep, GcStep

\* A machine that a failed call left stopped is never removed: neither Delete,
\* whose PowerOff fails on it, nor the collector, whose List skips it.
THEOREM LeaksArePermanent == Spec => LeakIsPermanent
<1>1. TraceInv /\ [Next]_vars => [\A u \in Uuids : Stuck(u) => Stuck(u)']_vars
  BY StuckStays
<1>2. QED
  BY <1>1, LifecycleTraces, PTL DEF Spec, LeakIsPermanent

(* A name that is held by a stuck machine ---------------------------------*)

\* Claim c has no machine and its running launch, if any, will not get one.
Blocked(c, u) ==
  /\ Stuck(u) /\ NamedFor(c, u)
  /\ providerID[c] \notin Uuids
  /\ pc[c] \in CreateSteps => cur[c] \notin Uuids

\* A launch that already has its machine is the only one of its name.
LEMMA BlockedBegins ==
  ASSUME TraceInv, NEW c \in Claims, NEW u \in Uuids,
         Stuck(u), NamedFor(c, u), providerID[c] = NoUuid
  PROVE  Blocked(c, u)
<1>1. ASSUME pc[c] \in CreateSteps, cur[c] \in Uuids PROVE FALSE
  <2>1. cur[c] # u
    BY <1>1 DEF Stuck, Attended, InFlight
  <2>2. MachineGone(u)
    BY <1>1, <2>1 DEF TraceInv, NameTrace
  <2>3. QED
    BY <2>2 DEF MachineGone, Stuck
<1>2. QED
  BY <1>1, LifecycleConstants DEF Blocked

\* Nothing renames a machine.
LEMMA NamesKept ==
  ASSUME TraceInv, [Next]_vars, NEW u \in Uuids, Exists(u)
  PROVE  vmName'[u] = vmName[u]
<1>1. ASSUME NEW c \in Claims, Clone(c) PROVE vmName'[u] = vmName[u]
  BY <1>1 DEF Clone, CloneVM, Exists, TraceInv, TypeOK
<1> USE DEF vsphereVars, gcRest
<1>2. ASSUME NEW c \in Claims,
             Tag(c) \/ PowerOn(c) \/ Report(c) \/ ClaimPowerOff(c) \/ ClaimDestroy(c)
      PROVE  UNCHANGED vmName
  BY <1>2 DEF Tag, PowerOn, Report, ClaimPowerOff, ClaimDestroy
<1>3. ASSUME NEW c \in Claims,
             \/ AddClaim(c) \/ DeleteClaim(c) \/ StartCreate(c) \/ RefuseCreate(c) \/ Persist(c)
             \/ DropResult(c) \/ StartDelete(c) \/ FinalizeClaim(c) \/ FinalizeEmptyID(c)
             \/ CacheSync(c)
      PROVE  UNCHANGED vmName
  BY <1>3 DEF AddClaim, DeleteClaim, StartCreate, RefuseCreate, Persist, DropResult, StartDelete,
              FinalizeClaim, FinalizeEmptyID, CacheSync
<1>4. ASSUME \/ GcStep \/ GcAbort \/ Edit \/ Crash \/ UNCHANGED vars
             \/ \E v \in Uuids : Age(v) \/ NodeJoin(v)
      PROVE  UNCHANGED vmName
  BY <1>4 DEF GcStep, GcListVMs, GcInspect, GcResolve, GcListClaims, GcListNodes, GcCheck,
              GcPowerOff, GcDestroy, GcDeleteNode, GcFinish, GcAbort, Edit, Crash, Age, NodeJoin, vars
<1>5. QED
  BY <1>1, <1>2, <1>3, <1>4 DEF Next, ReconcileClaim, CallStep

\* Every further attempt of c fails at Clone.
LEMMA BlockedStays ==
  ASSUME TraceInv, [Next]_vars, NEW c \in Claims, NEW u \in Uuids, Blocked(c, u)
  PROVE  Blocked(c, u)'
<1>0. TypeOK /\ providerID[c] \notin Uuids /\ (pc[c] \in CreateSteps => cur[c] \notin Uuids)
  BY DEF TraceInv, Blocked
<1>1. Stuck(u)' /\ NamedFor(c, u)'
  BY StuckStays, NamesKept DEF Blocked, NamedFor, Stuck, Exists
<1> DEFINE Kept == providerID'[c] \notin Uuids /\ (pc'[c] \in CreateSteps => cur'[c] \notin Uuids)
<1>2. SUFFICES Kept
  BY <1>1 DEF Blocked
<1> USE DEF vsphereVars, providerVars, clusterVars, claimVars, gcVars, gcRest, Goto, Return
<1>3. CASE UNCHANGED <<pc, cur, providerID>>
  BY <1>0, <1>3
<1>4. ASSUME NEW d \in Claims, CallStep(d) PROVE Kept
  <2>1. UNCHANGED providerID
    BY <1>4 DEF CallStep
  <2>2. CASE d # c
    <3>1. pc'[c] = pc[c] /\ cur'[c] = cur[c]
      BY <1>0, <1>4, <2>2
      DEF CallStep, Clone, Tag, PowerOn, Report, ClaimPowerOff, ClaimDestroy, DeletePowerOff,
          DeleteDestroy, TypeOK
    <3>2. QED
      BY <1>0, <2>1, <3>1
  <2>3. CASE d = c /\ Clone(c)
    <3>1. NameTaken(GenerateVMName(ClusterName, c))
      BY DEF NameTaken, Blocked, NamedFor, Stuck, Exists
    <3>2. Return(c)
      BY <2>3, <3>1 DEF Clone, CloneVM
    <3>3. pc'[c] = "idle"
      BY <1>0, <3>2 DEF TypeOK
    <3>4. QED
      BY <1>0, <2>1, <3>3 DEF CreateSteps
  <2>4. CASE d = c /\ (Tag(c) \/ PowerOn(c) \/ Report(c))
    <3>1. pc[c] \in CreateSteps
      BY <2>4 DEF Tag, PowerOn, Report, CreateSteps
    <3>2. cur'[c] \in {cur[c], NoUuid, EmptyID}
      BY <1>0, <2>4 DEF Tag, PowerOn, Report, TypeOK
    <3>3. QED
      BY <1>0, <2>1, <3>1, <3>2, LifecycleConstants
  <2>5. CASE d = c /\ (ClaimPowerOff(c) \/ ClaimDestroy(c))
    BY <1>0, <2>1, <2>5
    DEF ClaimPowerOff, ClaimDestroy, DeletePowerOff, DeleteDestroy, TypeOK, CreateSteps
  <2>6. QED
    BY <1>4, <2>2, <2>3, <2>4, <2>5 DEF CallStep
<1>5. ASSUME NEW d \in Claims, StartCreate(d) \/ StartDelete(d) \/ Persist(d) \/ DropResult(d)
      PROVE  Kept
  <2>1. CASE d # c
    BY <1>0, <1>5, <2>1 DEF StartCreate, StartDelete, Persist, DropResult, TypeOK
  <2>2. CASE d = c /\ StartCreate(c)
    BY <1>0, <2>2, LifecycleConstants DEF StartCreate, TraceInv, CallShape
  <2>3. CASE d = c /\ StartDelete(c)
    BY <1>0, <2>3 DEF StartDelete
  <2>4. CASE d = c /\ (Persist(c) \/ DropResult(c))
    BY <1>0, <2>4 DEF Persist, DropResult, TypeOK, CreateSteps
  <2>5. QED
    BY <1>5, <2>1, <2>2, <2>3, <2>4
<1>6. CASE Crash
  BY <1>0, <1>6 DEF Crash, CreateSteps
<1>7. ASSUME NEW d \in Claims,
             \/ AddClaim(d) \/ DeleteClaim(d) \/ RefuseCreate(d) \/ FinalizeClaim(d)
             \/ FinalizeEmptyID(d) \/ CacheSync(d)
      PROVE  UNCHANGED <<pc, cur, providerID>>
  BY <1>7 DEF AddClaim, DeleteClaim, RefuseCreate, FinalizeClaim, FinalizeEmptyID, CacheSync
<1>8. ASSUME GcStep \/ GcAbort
      PROVE  UNCHANGED <<pc, cur, providerID>>
  BY <1>8 DEF GcStep, GcListVMs, GcInspect, GcResolve, GcListClaims, GcListNodes, GcCheck,
              GcPowerOff, GcDestroy, GcDeleteNode, GcFinish, GcAbort
<1>9. ASSUME Edit \/ UNCHANGED vars \/ \E v \in Uuids : Age(v) \/ NodeJoin(v)
      PROVE  UNCHANGED <<pc, cur, providerID>>
  BY <1>9 DEF Edit, vars, Age, NodeJoin
<1>10. QED
  BY <1>3, <1>4, <1>5, <1>6, <1>7, <1>8, <1>9 DEF Next, ReconcileClaim

\* Once a stopped, unattended machine holds a claim's name, no behaviour ever
\* gives the claim a machine: Create does not take the old one over.
THEOREM StuckNamesBlock == Spec => StuckNameBlocksLaunch
<1> SUFFICES ASSUME NEW c \in Claims, NEW u \in Uuids
             PROVE  Spec => []( Stuck(u) /\ NamedFor(c, u) /\ providerID[c] = NoUuid
                                => [](providerID[c] \notin Uuids) )
  BY DEF StuckNameBlocksLaunch
<1>1. TraceInv /\ Stuck(u) /\ NamedFor(c, u) /\ providerID[c] = NoUuid => Blocked(c, u)
  BY BlockedBegins
<1>2. TraceInv /\ [Next]_vars /\ Blocked(c, u) => Blocked(c, u)'
  BY BlockedStays
<1>3. Blocked(c, u) => providerID[c] \notin Uuids
  BY DEF Blocked
<1>4. QED
  BY <1>1, <1>2, <1>3, LifecycleTraces, PTL DEF Spec

(* Machines that List recognises -------------------------------------------*)

ListedPair == <<ListedTagKey, ClusterName>>

\* The class gives its machines this cluster's name under the key that List
\* reads.  Its tags are a map: one value for that key.
ClassTagsListed ==
  /\ ListedPair \in ClassTags
  /\ \A p \in ClassTags : p[1] = ListedTagKey => p[2] = ClusterName

\* No tag of an own machine says otherwise, and a machine that runs, or is
\* about to, has all its tags.
ListedInv ==
  /\ \A u \in Uuids :
       Own(u) =>
         /\ \A p \in vmTags[u] : p[1] = ListedTagKey => p[2] = ClusterName
         /\ power[u] = "on" => ListedPair \in vmTags[u]
  /\ \A c \in Claims : pc[c] = "poweron" => ListedPair \in vmTags[cur[c]]

\* Create's own tags do not use the key.
LEMMA InstanceTagsListed ==
  ASSUME ClassTagsListed, NEW c \in Claims
  PROVE  /\ ListedPair \in InstanceTags(c)
         /\ \A p \in InstanceTags(c) : p[1] = ListedTagKey => p[2] = ClusterName
BY DEF ClassTagsListed, InstanceTags, ListedTagKey, ClusterNameTagKey, NodePoolLabelKey,
       LabelInstanceSize

LEMMA ListedRead ==
  ASSUME ListedInv, NEW u \in Uuids, Own(u), power[u] = "on"
  PROVE  BelongsToCluster(u)
<1>1. /\ ListedPair \in vmTags[u] /\ ListedPair[1] = ListedTagKey
      /\ \A p \in vmTags[u] : p[1] = ListedTagKey => p[2] = ClusterName
  BY DEF ListedInv, ListedPair
<1>2. \E p \in vmTags[u] : p[1] = ListedTagKey
  BY <1>1
<1>3. (CHOOSE p \in vmTags[u] : p[1] = ListedTagKey)[2] = ClusterName
  BY <1>1, <1>2
<1>4. QED
  BY <1>2, <1>3 DEF BelongsToCluster, TagValue

\* Steps that attach no tags and start no machine keep the invariant.
LEMMA ListedQuiet ==
  ASSUME ListedInv, UNCHANGED vmTags,
         \A u \in Uuids : power'[u] = "on" => power[u] = "on",
         \A c \in Claims : pc'[c] = "poweron" => pc[c] = "poweron" /\ cur'[c] = cur[c]
  PROVE  ListedInv'
BY DEF ListedInv, Own

LEMMA ListedTag ==
  ASSUME ClassTagsListed, TraceInv, ListedInv, NEW c \in Claims, Tag(c)
  PROVE  ListedInv'
<1>0. TypeOK /\ pc[c] = "tag" /\ cur[c] \in Uuids /\ UNCHANGED power
  BY DEF TraceInv, CallShape, Tag
<1>1. PICK tags \in SUBSET InstanceTags(c) :
        /\ vmTags' = [vmTags EXCEPT ![cur[c]] = @ \cup tags]
        /\ \/ tags = InstanceTags(c) /\ Goto(c, "poweron") /\ UNCHANGED cur
           \/ Return(c)
  BY DEF Tag, AttachTags
<1>2. \A p \in tags : p[1] = ListedTagKey => p[2] = ClusterName
  BY <1>1, InstanceTagsListed
<1>3. \A u \in Uuids :
        vmTags'[u] = vmTags[u] \/ (u = cur[c] /\ vmTags'[u] = vmTags[u] \cup tags)
  BY <1>0, <1>1 DEF TypeOK
<1>4. ASSUME NEW d \in Claims, pc'[d] = "poweron" PROVE ListedPair \in vmTags'[cur'[d]]
  <2>1. CASE d = c
    <3>1. tags = InstanceTags(c) /\ cur'[c] = cur[c]
      BY <1>0, <1>1, <1>4, <2>1 DEF Return, Goto, TypeOK
    <3>2. vmTags'[cur[c]] = vmTags[cur[c]] \cup tags
      BY <1>0, <1>1 DEF TypeOK
    <3>3. QED
      BY <2>1, <3>1, <3>2, InstanceTagsListed
  <2>2. CASE d # c
    <3>1. pc[d] = "poweron" /\ cur'[d] = cur[d]
      BY <1>0, <1>1, <1>4, <2>2 DEF Return, Goto, TypeOK
    <3>2. cur[d] \in Uuids /\ ListedPair \in vmTags[cur[d]]
      BY <3>1 DEF TraceInv, CallShape, ListedInv
    <3>3. QED
      BY <1>3, <3>1, <3>2
  <2>3. QED
    BY <2>1, <2>2
<1>5. ASSUME NEW u \in Uuids, Own(u)
      PROVE  /\ \A p \in vmTags'[u] : p[1] = ListedTagKey => p[2] = ClusterName
             /\ power'[u] = "on" => ListedPair \in vmTags'[u]
  BY <1>0, <1>2, <1>3, <1>5 DEF ListedInv
<1>6. QED
  BY <1>4, <1>5 DEF ListedInv, Own

LEMMA ListedPowerOn ==
  ASSUME TraceInv, ListedInv, NEW c \in Claims, PowerOn(c)
  PROVE  ListedInv'
<1>0. TypeOK /\ cur[c] \in Uuids /\ UNCHANGED vmTags /\ ListedPair \in vmTags[cur[c]]
  BY DEF TraceInv, CallShape, PowerOn, ListedInv
<1>1. \A u \in Uuids : power'[u] = "on" => power[u] = "on" \/ u = cur[c]
  BY <1>0 DEF PowerOn, PowerOnVM, TypeOK
<1>2. \A d \in Claims : pc'[d] = "poweron" => pc[d] = "poweron" /\ cur'[d] = cur[d]
  BY <1>0 DEF PowerOn, Goto, Return, TypeOK
<1>3. QED
  BY <1>0, <1>1, <1>2 DEF ListedInv, Own

LEMMA ListedNext == ClassTagsListed /\ TraceInv /\ ListedInv /\ [Next]_vars => ListedInv'
<1> SUFFICES ASSUME ClassTagsListed, TraceInv, ListedInv, [Next]_vars PROVE ListedInv'
  OBVIOUS
<1>0. TypeOK
  BY DEF TraceInv
<1> USE DEF vsphereVars, providerVars, clusterVars, claimVars, gcVars, gcRest, Goto, Return
<1>1. ASSUME NEW c \in Claims, Clone(c) PROVE ListedInv'
  <2>1. UNCHANGED vmTags /\ \A u \in Uuids : power'[u] = "on" => power[u] = "on"
    BY <1>0, <1>1 DEF Clone, CloneVM, TypeOK
  <2>2. \A d \in Claims : pc'[d] = "poweron" => pc[d] = "poweron" /\ cur'[d] = cur[d]
    BY <1>0, <1>1 DEF Clone, TypeOK
  <2>3. QED
    BY <2>1, <2>2, ListedQuiet
<1>2. ASSUME NEW c \in Claims, Report(c) \/ ClaimPowerOff(c) \/ ClaimDestroy(c) PROVE ListedInv'
  <2>1. UNCHANGED vmTags /\ \A u \in Uuids : power'[u] = "on" => power[u] = "on"
    BY <1>0, <1>2
    DEF Report, ClaimPowerOff, ClaimDestroy, DeletePowerOff, DeleteDestroy, PowerOffVM, DestroyVM,
        TypeOK
  <2>2. \A d \in Claims : pc'[d] = "poweron" => pc[d] = "poweron" /\ cur'[d] = cur[d]
    BY <1>0, <1>2
    DEF Report, ClaimPowerOff, ClaimDestroy, DeletePowerOff, DeleteDestroy, TypeOK
  <2>3. QED
    BY <2>1, <2>2, ListedQuiet
<1>3. ASSUME NEW c \in Claims,
             \/ StartCreate(c) \/ StartDelete(c) \/ Persist(c) \/ DropResult(c)
      PROVE  ListedInv'
  <2>1. UNCHANGED <<vmTags, power>>
    BY <1>3 DEF StartCreate, StartDelete, Persist, DropResult
  <2>2. \A d \in Claims : pc'[d] = "poweron" => pc[d] = "poweron" /\ cur'[d] = cur[d]
    BY <1>0, <1>3 DEF StartCreate, StartDelete, Persist, DropResult, TypeOK
  <2>3. QED
    BY <2>1, <2>2, ListedQuiet
<1>4. ASSUME NEW c \in Claims,
             \/ AddClaim(c) \/ DeleteClaim(c) \/ RefuseCreate(c) \/ FinalizeClaim(c)
             \/ FinalizeEmptyID(c) \/ CacheSync(c)
      PROVE  ListedInv'
  BY <1>4, ListedQuiet
  DEF AddClaim, DeleteClaim, RefuseCreate, FinalizeClaim, FinalizeEmptyID, CacheSync
<1>5. CASE GcStep \/ GcAbort
  <2>1. UNCHANGED <<vmTags, pc, cur>>
    BY <1>5 DEF GcStep, GcListVMs, GcInspect, GcResolve, GcListClaims, GcListNodes, GcCheck, GcPowerOff,
                GcDestroy, GcDeleteNode, GcFinish, GcAbort
  <2>2. \A u \in Uuids : power'[u] = "on" => power[u] = "on"
    BY <1>0, <1>5
    DEF GcStep, GcListVMs, GcInspect, GcResolve, GcListClaims, GcListNodes, GcCheck, GcPowerOff, GcDestroy,
        GcDeleteNode, GcFinish, GcAbort, DeletePowerOff, DeleteDestroy, PowerOffVM, DestroyVM, TypeOK
  <2>3. QED
    BY <2>1, <2>2, ListedQuiet
<1>6. CASE Edit \/ UNCHANGED vars \/ \E v \in Uuids : Age(v) \/ NodeJoin(v)
  BY <1>6, ListedQuiet DEF Edit, vars, Age, NodeJoin
<1>7. CASE Crash
  BY <1>7, ListedQuiet DEF Crash
<1>8. QED
  BY <1>1, <1>2, <1>3, <1>4, <1>5, <1>6, <1>7, ListedTag, ListedPowerOn
  DEF Next, ReconcileClaim, CallStep

\* When the class carries the tag that List reads, every machine that Create
\* has started is recognised, whatever failed on the way.
THEOREM RunningVMsAreListed == ClassTagsListed => (Spec => []OwnRunningVMsListed)
<1> SUFFICES ASSUME ClassTagsListed PROVE Spec => []OwnRunningVMsListed
  OBVIOUS
<1>1. Init => ListedInv
  BY DEF Init, ListedInv, Own
<1>2. TraceInv /\ ListedInv /\ [Next]_vars => ListedInv'
  BY ListedNext
<1>3. ListedInv => OwnRunningVMsListed
  BY ListedRead DEF OwnRunningVMsListed
<1>4. QED
  BY <1>1, <1>2, <1>3, LifecycleTraces, PTL DEF Spec
=============================================================================
