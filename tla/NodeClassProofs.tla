-------------------------- MODULE NodeClassProofs ---------------------------
(***************************************************************************)
(* Theorems about NodeClassControllers, for any sets of claims and         *)
(* versions and any number of edits and faults.                            *)
(***************************************************************************)
EXTENDS NodeClassControllers, TLAPS

(* Types ------------------------------------------------------------------*)

\* The stored object stays well typed under every patch of a well typed one.
LEMMA StoreType ==
  ASSUME NEW obj \in ClassRecords, api \in ClassRecords, Store(obj)
  PROVE  api' \in ClassRecords /\ phase' \in {"absent", "present", "gone"}
BY DEF Store, ClassRecords

\* Failures and edits are counted up to their bounds.
LEMMA CounterType ==
  ASSUME faults \in 0 .. MaxFaults, edits \in 0 .. MaxEdits
  PROVE  /\ (faults' = faults \/ (faults < MaxFaults /\ faults' = faults + 1)) => faults' \in 0 .. MaxFaults
         /\ (edits' = edits \/ (edits < MaxEdits /\ edits' = edits + 1)) => edits' \in 0 .. MaxEdits
BY ClassConstants

\* Versions are numbers, 0 standing for none.
LEMMA VersionsAreNumbers ==
  ASSUME NEW v, v \in {0} \cup Versions
  PROVE  v \in Nat /\ v >= v
<1>1. CASE v = 0
  BY <1>1
<1>2. CASE v \in Versions
  BY <1>2, ClassConstants
<1>3. QED
  BY <1>1, <1>2

\* The new class and those of an earlier release are well typed.
LEMMA InitialClasses ==
  NewClass \in ClassRecords /\ \A v \in Versions : LegacyClass(v) \in ClassRecords
<1>1. NewClass \in ClassRecords
  BY DEF NewClass, ClassRecords, NoHash, NoVersion
<1>2. ASSUME NEW v \in Versions PROVE LegacyClass(v) \in ClassRecords
  <2>1. /\ {TerminationFinalizer} \in SUBSET {TerminationFinalizer, Foreign}
        /\ v \in {0} \cup Versions /\ OldHash \in Int
    BY <1>2 DEF OldHash
  <2>2. QED
    BY <1>1, <2>1 DEF LegacyClass, ClassRecords
<1>3. QED
  BY <1>1, <1>2

\* So are the claims.
LEMMA InitialClaims ==
  /\ AbsentClaim \in ClaimRecords /\ NewClaim \in ClaimRecords
  /\ LegacyClaim \in ClaimRecords
<1>1. AbsentClaim \in ClaimRecords
  BY DEF AbsentClaim, ClaimRecords, NoHash, NoVersion
<1>2. NewClaim \in ClaimRecords
  BY <1>1 DEF NewClaim, ClaimRecords
<1>3. LegacyClaim \in ClaimRecords
  <2>1. OldHash \in Int
    BY DEF OldHash
  <2>2. QED
    BY <1>2, <2>1 DEF LegacyClaim, ClaimRecords
<1>4. QED
  BY <1>1, <1>2, <1>3

\* Every initial state is well typed.
LEMMA InitType == Init => TypeOK
<1> SUFFICES ASSUME Init PROVE TypeOK
  OBVIOUS
<1>1. api \in ClassRecords /\ phase \in {"absent", "present", "gone"}
  BY InitialClasses DEF Init
<1>2. claim \in [Claims -> ClaimRecords] /\ outdated \subseteq Claims
  BY InitialClaims, ClassConstants DEF Init
<1>3. launched \subseteq Claims /\ hTodo \subseteq Claims \X BOOLEAN
  BY DEF Init
<1>4. edits \in 0 .. MaxEdits /\ faults \in 0 .. MaxFaults
  BY ClassConstants DEF Init
<1>5. cache \in ClassRecords /\ claimCache \in [Claims -> ClaimRecords] /\ cachePhase = phase
  BY <1>1, <1>2 DEF Init
<1>6. sCopy \in ClassRecords /\ hCopy \in ClassRecords /\ tCopy \in ClassRecords
  BY InitialClasses DEF Init
<1>7. poolUp \in BOOLEAN /\ hErr \in BOOLEAN /\ ~ hErr /\ hTodo = {}
  BY DEF Init
<1>8. QED
  BY <1>1, <1>2, <1>3, <1>4, <1>5, <1>6, <1>7 DEF TypeOK, Init

\* The status controller's steps keep the types.
LEMMA StatusType == TypeOK /\ StatusStep => TypeOK'
<1> SUFFICES ASSUME TypeOK, StatusStep PROVE TypeOK'
  OBVIOUS
<1> USE DEF objVars, cacheVars, poolVars, claimVars, statusVars, hashVars, termVars
<1>1. CASE StatusStart
  BY <1>1 DEF StatusStart, Dequeue, TypeOK
<1>2. CASE StatusAddFinalizer
  <2> DEFINE obj == [api EXCEPT !.fin = sCopy.fin \cup {TerminationFinalizer}]
  <2>1. obj \in ClassRecords
    BY DEF TypeOK, ClassRecords
  <2>2. api' \in ClassRecords /\ phase' \in {"absent", "present", "gone"}
    BY <1>2, <2>1, StoreType DEF StatusAddFinalizer, StoreIfChanged, TypeOK
  <2>3. /\ sPc' \in {"idle", "finalizer", "version"} /\ sCopy' \in ClassRecords
        /\ queue' \subseteq Controllers
    BY <1>2, <2>2, InitialClasses DEF StatusAddFinalizer, StatusReturn, Requeue, Controllers, TypeOK
  <2>4. QED
    BY <1>2, <2>2, <2>3 DEF StatusAddFinalizer, TypeOK
<1>3. CASE StatusPatch
  <2>1. \A v \in Versions : GoalVersion(sCopy, v) \in {0} \cup Versions
    BY DEF GoalVersion, TypeOK, ClassRecords
  <2>2. \A v \in Versions : [api EXCEPT !.ver = GoalVersion(sCopy, v), !.obs = sCopy.gen] \in ClassRecords
    BY <2>1 DEF TypeOK, ClassRecords
  <2>3. api' \in ClassRecords /\ phase' \in {"absent", "present", "gone"}
    BY <1>3, <2>2, StoreType DEF StatusPatch, KubeServerVersion, TypeOK
  <2>4. sPc' = "idle" /\ sCopy' \in ClassRecords /\ queue' \subseteq Controllers
    BY <1>3, InitialClasses DEF StatusPatch, StatusReturn, Requeue, Controllers, TypeOK
  <2>5. faults' \in 0 .. MaxFaults
    BY <1>3, CounterType DEF StatusPatch, TypeOK
  <2>6. QED
    BY <1>3, <2>3, <2>4, <2>5 DEF StatusPatch, TypeOK
<1>4. QED
  BY <1>1, <1>2, <1>3 DEF StatusStep

\* The hash controller's steps keep the types.
LEMMA HashType == TypeOK /\ HashStep => TypeOK'
<1> SUFFICES ASSUME TypeOK, HashStep PROVE TypeOK'
  OBVIOUS
<1> USE DEF objVars, cacheVars, poolVars, claimVars, statusVars, hashVars, termVars
<1>1. CASE HashStart
  BY <1>1 DEF HashStart, Dequeue, TypeOK
<1>2. CASE HashList
  <2>1. hTodo' \subseteq Claims \X BOOLEAN
    <3>1. \A d \in Claims : <<d, claimCache[d].drifted # NotDrifted>> \in Claims \X BOOLEAN
      OBVIOUS
    <3>2. QED
      BY <1>2, <3>1 DEF HashList
  <2>2. QED
    BY <1>2, <2>1 DEF HashList, TypeOK
<1>3. ASSUME NEW c \in Claims, NEW marked \in BOOLEAN, HashStamp(c, marked) PROVE TypeOK'
  <2>1. Hash(hCopy) \in Int
    BY DEF Hash, TypeOK, ClassRecords
  <2>2. claim' \in [Claims -> ClaimRecords]
    BY <1>3, <2>1 DEF HashStamp, TypeOK, ClaimRecords
  <2>3. faults' \in 0 .. MaxFaults
    BY <1>3, CounterType DEF HashStamp, TypeOK
  <2>4. hTodo' \subseteq Claims \X BOOLEAN /\ hErr' \in BOOLEAN /\ hPc' = "stamp"
    BY <1>3 DEF HashStamp, TypeOK
  <2>5. QED
    BY <1>3, <2>2, <2>3, <2>4 DEF HashStamp, TypeOK
<1>4. CASE HashStamped
  BY <1>4, InitialClasses DEF HashStamped, HashReturn, Requeue, Controllers, TypeOK
<1>5. CASE HashAnnotate
  <2> DEFINE obj == [api EXCEPT !.hash = IF hCopy.hash # Hash(hCopy) THEN Hash(hCopy) ELSE @, !.hv = "v1"]
  <2>1. obj \in ClassRecords
    <3>1. api \in ClassRecords /\ Hash(hCopy) \in Int /\ "v1" \in {NoVersion, "v0", "v1"}
      BY DEF Hash, TypeOK, ClassRecords
    <3>2. (IF hCopy.hash # Hash(hCopy) THEN Hash(hCopy) ELSE api.hash) \in Int
      BY <3>1 DEF ClassRecords
    <3>3. QED
      BY <3>1, <3>2 DEF ClassRecords
  <2>2. api' \in ClassRecords /\ phase' \in {"absent", "present", "gone"}
    BY <1>5, <2>1, StoreType DEF HashAnnotate, StoreIfChanged, TypeOK
  <2>3. hPc' = "idle" /\ hCopy' \in ClassRecords /\ queue' \subseteq Controllers
    BY <1>5, InitialClasses DEF HashAnnotate, HashReturn, Requeue, Controllers, TypeOK
  <2>4. ~ hErr /\ hTodo = {} /\ UNCHANGED <<hErr, hTodo>>
    BY <1>5 DEF HashAnnotate, TypeOK
  <2>5. QED
    BY <1>5, <2>2, <2>3, <2>4 DEF HashAnnotate, TypeOK
<1>6. QED
  BY <1>1, <1>2, <1>3, <1>4, <1>5 DEF HashStep

\* The termination controller's steps keep the types.
LEMMA TerminationType == TypeOK /\ TerminationStep => TypeOK'
<1> SUFFICES ASSUME TypeOK, TerminationStep PROVE TypeOK'
  OBVIOUS
<1> USE DEF objVars, cacheVars, poolVars, claimVars, statusVars, hashVars, termVars
<1>1. CASE TerminationStart
  BY <1>1 DEF TerminationStart, Dequeue, TypeOK
<1>2. CASE TerminationList
  BY <1>2, InitialClasses DEF TerminationList, TerminationReturn, Requeue, Controllers, TypeOK
<1>3. CASE TerminationPatch
  <2>1. [api EXCEPT !.fin = tCopy.fin \ {TerminationFinalizer}] \in ClassRecords
    BY DEF TypeOK, ClassRecords
  <2>2. api' \in ClassRecords /\ phase' \in {"absent", "present", "gone"}
    BY <1>3, <2>1, StoreType DEF TerminationPatch, TypeOK
  <2>3. tPc' = "idle" /\ tCopy' \in ClassRecords /\ queue' \subseteq Controllers
    BY <1>3, InitialClasses DEF TerminationPatch, TerminationReturn, Requeue, Controllers, TypeOK
  <2>4. QED
    BY <1>3, <2>2, <2>3 DEF TerminationPatch, TypeOK
<1>4. QED
  BY <1>1, <1>2, <1>3 DEF TerminationStep

\* So do the watches, core's steps for a claim and the edits of the pool.
LEMMA ClaimType ==
  ASSUME TypeOK, NEW c \in Claims,
         \/ ClaimSync(c) \/ Launch(c) \/ RefuseLaunch(c) \/ CheckDrift(c) \/ AddClaim(c) \/ RemoveClaim(c)
  PROVE  TypeOK'
<1> USE DEF objVars, cacheVars, poolVars, claimVars, statusVars, hashVars, termVars
<1>1. CASE ClaimSync(c)
  BY <1>1 DEF ClaimSync, Requeue, Controllers, TypeOK
<1>2. CASE Launch(c)
  BY <1>2 DEF Launch, TypeOK
<1>3. CASE RefuseLaunch(c) \/ RemoveClaim(c)
  <2>1. claim' \in [Claims -> ClaimRecords]
    <3>1. claim \in [Claims -> ClaimRecords] /\ claim' = [claim EXCEPT ![c].st = "gone"]
      BY <1>3 DEF RefuseLaunch, RemoveClaim, TypeOK
    <3>2. QED
      BY <3>1 DEF ClaimRecords
  <2>2. QED
    BY <1>3, <2>1 DEF RefuseLaunch, RemoveClaim, TypeOK
<1>4. CASE CheckDrift(c)
  <2> DEFINE reason == IF poolUp /\ c \in outdated THEN PoolDrift
                       ELSE IsDrifted(claimCache[c], poolUp, cachePhase = "present", cache)
  <2>1. reason # DriftError => reason \in {NotDrifted, NodeClassDrift, PoolDrift}
    BY DEF IsDrifted, IsNodeClassDrifted
  <2>2. claim' \in [Claims -> ClaimRecords]
    <3>1. claim \in [Claims -> ClaimRecords] /\ reason # DriftError
          /\ claim' = [claim EXCEPT ![c].drifted = reason]
      BY <1>4 DEF CheckDrift, TypeOK
    <3>2. QED
      BY <2>1, <3>1 DEF ClaimRecords
  <2>3. QED
    BY <1>4, <2>2 DEF CheckDrift, TypeOK
<1>5. CASE AddClaim(c)
  <2>1. edits' \in 0 .. MaxEdits
    BY <1>5, CounterType DEF AddClaim, TypeOK
  <2>2. QED
    BY <1>5, <2>1, InitialClaims DEF AddClaim, TypeOK
<1>6. QED
  BY <1>1, <1>2, <1>3, <1>4, <1>5

\* So do the steps of users and the restart of the process.
LEMMA EnvironmentType ==
  TypeOK /\ (ClassSync \/ UserStep \/ ChangePool \/ Restart) => TypeOK'
<1> SUFFICES ASSUME TypeOK, ClassSync \/ UserStep \/ ChangePool \/ Restart PROVE TypeOK'
  OBVIOUS
<1> USE DEF objVars, cacheVars, poolVars, claimVars, statusVars, hashVars, termVars
<1>1. CASE ClassSync
  BY <1>1 DEF ClassSync, TypeOK
<1>2. CASE UserStep
  <2>1. [api EXCEPT !.gen = @ + 1] \in ClassRecords
    BY DEF TypeOK, ClassRecords
  <2>5. [api EXCEPT !.deleting = TRUE] \in ClassRecords
    BY DEF TypeOK, ClassRecords
  <2>6. [api EXCEPT !.fin = @ \cup {Foreign}] \in ClassRecords
    BY DEF TypeOK, ClassRecords
  <2>7. [api EXCEPT !.fin = @ \ {Foreign}] \in ClassRecords
    BY DEF TypeOK, ClassRecords
  <2>2. api' \in ClassRecords /\ phase' \in {"absent", "present", "gone"}
    BY <1>2, <2>1, <2>5, <2>6, <2>7, StoreType
    DEF UserStep, CreateClass, EditClass, DeleteClass, AddForeignFinalizer, RemoveForeignFinalizer, TypeOK
  <2>3. edits' \in 0 .. MaxEdits
    BY <1>2, CounterType
    DEF UserStep, CreateClass, EditClass, DeleteClass, AddForeignFinalizer, RemoveForeignFinalizer, TypeOK
  <2>4. QED
    BY <1>2, <2>2, <2>3 DEF UserStep, ObjectRest, TypeOK
<1>3. CASE ChangePool
  <2>1. edits' \in 0 .. MaxEdits
    BY <1>3, CounterType DEF ChangePool, TypeOK
  <2>2. poolUp' \in BOOLEAN /\ outdated' \subseteq Claims
    BY <1>3 DEF ChangePool, TypeOK
  <2>3. QED
    BY <1>3, <2>1, <2>2 DEF ChangePool, TypeOK
<1>4. CASE Restart
  <2>1. faults' \in 0 .. MaxFaults
    BY <1>4, CounterType DEF Restart, TypeOK
  <2>2. sCopy' \in ClassRecords /\ hCopy' \in ClassRecords /\ tCopy' \in ClassRecords
    BY <1>4, InitialClasses DEF Restart, StatusReturn, HashReturn, TerminationReturn
  <2>3. hErr' \in BOOLEAN /\ ~ hErr' /\ hTodo' = {}
    BY <1>4 DEF Restart
  <2>4. QED
    BY <1>4, <2>1, <2>2, <2>3 DEF Restart, StatusReturn, HashReturn, TerminationReturn, TypeOK
<1>5. QED
  BY <1>1, <1>2, <1>3, <1>4

\* Every step keeps the types.
LEMMA ClassTypesStep == TypeOK /\ [Next]_vars => TypeOK'
<1> SUFFICES ASSUME TypeOK, [Next]_vars PROVE TypeOK'
  OBVIOUS
<1>1. CASE UNCHANGED vars
  BY <1>1
  DEF vars, objVars, cacheVars, poolVars, claimVars, statusVars, hashVars, termVars, TypeOK
<1>2. CASE Next
  BY <1>2, StatusType, HashType, TerminationType, ClaimType, EnvironmentType DEF Next
<1>3. QED
  BY <1>1, <1>2

\* Every state that the controllers, core and users can reach is well typed.
THEOREM ClassTypesCorrect == Spec => []TypeOK
BY InitType, ClassTypesStep, PTL DEF Spec

(* Versions and drift -----------------------------------------------------*)

\* A copy is the stored object while it has its resourceVersion.
Current(copy) ==
  /\ copy.rv <= api.rv
  /\ copy.rv = api.rv => copy = api

\* The copies that a status patch may be computed from are current or have an
\* older resourceVersion, by which the lock refuses them.
VersionInv ==
  /\ Current(cache) /\ (sPc # "idle" => Current(sCopy))
  /\ api.obs = 0 => api.ver = 0

\* What the code as it stands guarantees beyond DriftHasCause: isNodeClassDrifted
\* hands out its reason only together with an error, so an edited class marks no
\* claim.
DriftOnlyByDeletion ==
  \A c \in Claims : claim[c].drifted = NodeClassDrift => phase = "gone" \/ api.deleting

\* The cache lags behind the object, whose deletion is final, and a claim is
\* only launched once the class has been seen.
DriftInv ==
  /\ cachePhase = "gone" => phase = "gone"
  /\ cachePhase # "absent" => phase # "absent"
  /\ cache.deleting => api.deleting
  /\ launched # {} => cachePhase # "absent"
  /\ DriftOnlyByDeletion

\* How any step may change the object: under a new resourceVersion, and never
\* back from deletion.
ObjectMoves ==
  /\ api' = api \/ api'.rv = api.rv + 1
  /\ api.deleting => api'.deleting
  /\ phase = "gone" => phase' = "gone"
  /\ phase # "absent" => phase' # "absent"

KeepsVersion == api'.ver = api.ver /\ api'.obs = api.obs

\* How any step may change the cached copy and the status controller's copy.
CopiesMove ==
  /\ \/ UNCHANGED <<cachePhase, cache>>
     \/ cachePhase' = phase /\ cache' = api /\ UNCHANGED <<phase, api>>
  /\ \/ UNCHANGED <<sPc, sCopy>>
     \/ sPc' = "idle"
     \/ sCopy' = cache /\ UNCHANGED <<cachePhase, cache, phase, api>>
     \/ sCopy' = api'

\* Only the status patch sets the version.
LEMMA ObjectSteps ==
  ASSUME TypeOK, Next
  PROVE  ObjectMoves /\ (StatusPatch \/ KeepsVersion)
<1> USE DEF objVars, ObjectMoves, KeepsVersion
<1>0. api \in ClassRecords
  BY DEF TypeOK
<1>1. CASE StatusStep
  <2>1. CASE StatusStart
    BY <2>1 DEF StatusStart
  <2>2. CASE StatusAddFinalizer
    BY <1>0, <2>2 DEF StatusAddFinalizer, StoreIfChanged, Store, ClassRecords
  <2>3. CASE StatusPatch
    BY <1>0, <2>3 DEF StatusPatch, Store, ClassRecords
  <2>4. QED
    BY <1>1, <2>1, <2>2, <2>3 DEF StatusStep
<1>2. CASE HashStep
  <2>1. CASE HashStart \/ HashList \/ HashStamped \/ \E c \in Claims, marked \in BOOLEAN : HashStamp(c, marked)
    BY <2>1 DEF HashStart, HashList, HashStamped, HashStamp
  <2>2. CASE HashAnnotate
    BY <1>0, <2>2 DEF HashAnnotate, StoreIfChanged, Store, ClassRecords
  <2>3. QED
    BY <1>2, <2>1, <2>2 DEF HashStep
<1>3. CASE TerminationStep
  BY <1>0, <1>3 DEF TerminationStep, TerminationStart, TerminationList, TerminationPatch, Store, ClassRecords
<1>4. CASE ClassSync \/ ChangePool \/ Restart
  BY <1>4 DEF ClassSync, ChangePool, Restart
<1>5. CASE UserStep
  BY <1>0, <1>5 DEF UserStep, CreateClass, EditClass, DeleteClass, AddForeignFinalizer,
     RemoveForeignFinalizer, Store, ClassRecords
<1>6. CASE \E c \in Claims : ClaimSync(c) \/ Launch(c) \/ RefuseLaunch(c) \/ CheckDrift(c)
                            \/ AddClaim(c) \/ RemoveClaim(c)
  BY <1>6 DEF ClaimSync, Launch, RefuseLaunch, CheckDrift, AddClaim, RemoveClaim
<1>7. QED
  BY <1>1, <1>2, <1>3, <1>4, <1>5, <1>6 DEF Next

\* Copies are taken from the cache or from the API server's answer.
LEMMA CopySteps == Next => CopiesMove
<1> SUFFICES ASSUME Next PROVE CopiesMove
  OBVIOUS
<1> USE DEF objVars, cacheVars, statusVars, CopiesMove
<1>1. CASE StatusStep
  BY <1>1 DEF StatusStep, StatusStart, StatusAddFinalizer, StatusPatch, StatusReturn
<1>2. CASE HashStep
  BY <1>2 DEF HashStep, HashStart, HashList, HashStamped, HashStamp, HashAnnotate
<1>3. CASE TerminationStep
  BY <1>3 DEF TerminationStep, TerminationStart, TerminationList, TerminationPatch
<1>4. CASE ClassSync \/ ChangePool \/ Restart
  BY <1>4 DEF ClassSync, ChangePool, Restart, StatusReturn
<1>5. CASE UserStep
  BY <1>5 DEF UserStep, ObjectRest
<1>6. CASE \E c \in Claims : ClaimSync(c) \/ Launch(c) \/ RefuseLaunch(c) \/ CheckDrift(c)
                            \/ AddClaim(c) \/ RemoveClaim(c)
  BY <1>6 DEF ClaimSync, Launch, RefuseLaunch, CheckDrift, AddClaim, RemoveClaim
<1>7. QED
  BY <1>1, <1>2, <1>3, <1>4, <1>5, <1>6 DEF Next

\* A status patch that gets through is computed from the current object, so it
\* sets a version that is not lower.
LEMMA PatchNeverLowers ==
  ASSUME TypeOK, VersionInv, StatusPatch
  PROVE  api'.ver >= api.ver /\ (api'.obs = 0 => api'.ver = 0)
<1>0. api.ver \in Nat /\ sCopy.gen \in Nat \ {0}
  <2>1. api.ver \in {0} \cup Versions /\ sCopy.gen \in Nat \ {0}
    BY DEF TypeOK, ClassRecords
  <2>2. QED
    BY <2>1, VersionsAreNumbers
<1>1. CASE UNCHANGED api
  BY <1>0, <1>1 DEF VersionInv
<1>2. CASE ~ UNCHANGED api
  <2>1. PICK v \in Versions :
          /\ api.rv = sCopy.rv
          /\ Store([api EXCEPT !.ver = GoalVersion(sCopy, v), !.obs = sCopy.gen])
    BY <1>2 DEF StatusPatch, KubeServerVersion, objVars
  <2>2. sCopy.ver = api.ver /\ sCopy.obs = api.obs
    BY <2>1 DEF VersionInv, Current, StatusPatch
  <2>3. api'.ver = GoalVersion(sCopy, v) /\ api'.obs = sCopy.gen
    BY <2>1 DEF Store, TypeOK, ClassRecords
  <2>4. v \in Nat
    BY ClassConstants
  <2>5. GoalVersion(sCopy, v) >= api.ver
    BY <1>0, <2>2, <2>4 DEF GoalVersion, VersionInv
  <2>6. QED
    BY <1>0, <2>3, <2>5
<1>3. QED
  BY <1>1, <1>2

\* VersionInv is inductive.
LEMMA VersionStep ==
  ASSUME TypeOK, VersionInv, [Next]_vars
  PROVE  VersionInv' /\ api'.ver >= api.ver
<1>1. CASE UNCHANGED vars
  <2>1. api.ver \in {0} \cup Versions
    BY DEF TypeOK, ClassRecords
  <2>2. api.ver >= api.ver
    BY <2>1, VersionsAreNumbers
  <2>3. QED
    BY <1>1, <2>2 DEF vars, objVars, cacheVars, statusVars, VersionInv, Current
<1>2. CASE Next
  <2>1. ObjectMoves /\ (StatusPatch \/ KeepsVersion) /\ CopiesMove
    BY <1>2, ObjectSteps, CopySteps
  <2>2. api.rv \in Nat /\ cache.rv \in Nat /\ sCopy.rv \in Nat /\ api'.rv \in Nat
    BY <1>2, ClassTypesStep DEF TypeOK, ClassRecords
  <2>3. api'.ver >= api.ver /\ (api'.obs = 0 => api'.ver = 0)
    <3>1. CASE StatusPatch
      BY <3>1, PatchNeverLowers
    <3>2. CASE KeepsVersion
      <4>1. api.ver \in {0} \cup Versions
        BY DEF TypeOK, ClassRecords
      <4>2. api.ver >= api.ver
        BY <4>1, VersionsAreNumbers
      <4>3. QED
        BY <3>2, <4>2 DEF KeepsVersion, VersionInv
    <3>3. QED
      BY <2>1, <3>1, <3>2
  <2>4. ASSUME NEW copy \in ClassRecords, Current(copy)
        PROVE  copy.rv <= api'.rv /\ (copy.rv = api'.rv => copy = api')
    <3>1. copy.rv \in Nat
      BY DEF ClassRecords
    <3>2. QED
      BY <2>1, <2>2, <2>4, <3>1 DEF Current, ObjectMoves
  <2>5. Current(api)
    BY <2>2 DEF Current
  <2>6. Current(cache)'
    BY <2>1, <2>4, <2>5 DEF CopiesMove, VersionInv, Current, TypeOK
  <2>7. (sPc # "idle" => Current(sCopy))'
    BY <2>1, <2>2, <2>4 DEF CopiesMove, VersionInv, Current, TypeOK
  <2>8. QED
    BY <2>3, <2>6, <2>7 DEF VersionInv
<1>3. QED
  BY <1>1, <1>2

\* It holds initially.
LEMMA VersionInit ==
  ASSUME Init
  PROVE  VersionInv
<1>1. api.rv \in Nat
  BY InitType DEF TypeOK, ClassRecords
<1>2. cache = api /\ sPc = "idle"
  BY DEF Init
<1>3. api.obs = 0 => api.ver = 0
  <2>1. CASE api = NewClass
    BY <2>1 DEF NewClass
  <2>2. ASSUME NEW v \in Versions, api = LegacyClass(v) PROVE api.obs = 1
    BY <2>2 DEF LegacyClass, NewClass
  <2>3. QED
    BY <2>1, <2>2 DEF Init
<1>4. QED
  BY <1>1, <1>2, <1>3 DEF VersionInv, Current

\* "We do not currently support downgrading": the version in the status of a
\* class never falls, however stale the copies and whatever order the API
\* servers of an upgrade answer in.
THEOREM VersionsNeverFall == Spec => VersionNeverDowngraded
BY VersionInit, ClassTypesCorrect, VersionStep, PTL DEF Spec, VersionNeverDowngraded

\* A claim is marked by core's check or keeps its mark, and only the deletion
\* of the class, seen in the cache, makes the check answer NodeClassDrift.
LEMMA MarkedByDeletion ==
  ASSUME TypeOK, DriftInv, Next, NEW d \in Claims, claim'[d].drifted = NodeClassDrift
  PROVE  phase = "gone" \/ api.deleting
<1>1. CASE claim[d].drifted = NodeClassDrift
  BY <1>1 DEF DriftInv, DriftOnlyByDeletion
<1>2. CASE claim[d].drifted # NodeClassDrift
  <2>0. claim \in [Claims -> ClaimRecords]
    BY DEF TypeOK
  <2>1. PICK c \in Claims : CheckDrift(c)
    <3>1. claim' # claim
      BY <1>2
    <3>2. ~ (StatusStep \/ TerminationStep \/ ClassSync \/ UserStep \/ ChangePool \/ Restart)
      BY <3>1 DEF StatusStep, StatusStart, StatusAddFinalizer, StatusPatch, TerminationStep,
         TerminationStart, TerminationList, TerminationPatch, ClassSync, UserStep, ObjectRest,
         ChangePool, Restart, claimVars
    <3>3. ~ (HashStart \/ HashList \/ HashStamped \/ HashAnnotate)
      BY <3>1 DEF HashStart, HashList, HashStamped, HashAnnotate, claimVars
    <3>4. ASSUME NEW c \in Claims, NEW marked \in BOOLEAN, HashStamp(c, marked) PROVE FALSE
      BY <1>2, <2>0, <3>4 DEF HashStamp, ClaimRecords
    <3>5. ASSUME NEW c \in Claims, ClaimSync(c) \/ Launch(c) PROVE FALSE
      BY <3>1, <3>5 DEF ClaimSync, Launch, claimVars
    <3>6. ASSUME NEW c \in Claims, RefuseLaunch(c) \/ RemoveClaim(c) PROVE FALSE
      BY <1>2, <2>0, <3>6 DEF RefuseLaunch, RemoveClaim, ClaimRecords
    <3>7. ASSUME NEW c \in Claims, AddClaim(c) PROVE FALSE
      BY <1>2, <2>0, <3>7 DEF AddClaim, NewClaim, AbsentClaim, NotDrifted, NodeClassDrift
    <3>8. QED
      BY <3>2, <3>3, <3>4, <3>5, <3>6, <3>7 DEF Next, HashStep
  <2>2. c = d /\ c \in launched /\ poolUp
        /\ IsDrifted(claimCache[c], poolUp, cachePhase = "present", cache) = NodeClassDrift
    BY <1>2, <2>0, <2>1
    DEF CheckDrift, ClaimRecords, IsDrifted, PoolDrift, NodeClassDrift, NotDrifted
  <2>3. cachePhase # "present" \/ cache.deleting
    BY <2>2 DEF IsDrifted, IsNodeClassDrifted, ResolveNodeClassFromNodePool, NotDrifted,
       NodeClassDrift, DriftError
  <2>4. QED
    BY <2>2, <2>3 DEF DriftInv, TypeOK
<1>3. QED
  BY <1>1, <1>2

\* A launch happens after the class was seen.
LEMMA LaunchSeesClass ==
  ASSUME DriftInv, Next
  PROVE  launched' # {} => cachePhase # "absent"
<1> USE DEF claimVars, DriftInv
<1>1. CASE launched' = launched
  BY <1>1
<1>2. CASE \E c \in Claims : Launch(c)
  BY <1>2 DEF Launch, ResolveNodeClassFromNodeClaim
<1>3. CASE StatusStep \/ TerminationStep \/ ClassSync \/ UserStep \/ ChangePool \/ Restart
  BY <1>3 DEF StatusStep, StatusStart, StatusAddFinalizer, StatusPatch, TerminationStep,
     TerminationStart, TerminationList, TerminationPatch, ClassSync, UserStep, ObjectRest,
     ChangePool, Restart
<1>4. CASE HashStep
  BY <1>4 DEF HashStep, HashStart, HashList, HashStamped, HashStamp, HashAnnotate
<1>5. CASE \E c \in Claims : ClaimSync(c) \/ RefuseLaunch(c) \/ CheckDrift(c) \/ AddClaim(c)
                            \/ RemoveClaim(c)
  BY <1>5 DEF ClaimSync, RefuseLaunch, CheckDrift, AddClaim, RemoveClaim
<1>6. QED
  BY <1>2, <1>3, <1>4, <1>5 DEF Next

\* DriftInv is inductive.
LEMMA DriftStep ==
  ASSUME TypeOK, DriftInv, [Next]_vars
  PROVE  DriftInv'
<1>1. CASE UNCHANGED vars
  BY <1>1 DEF vars, objVars, cacheVars, claimVars, DriftInv, DriftOnlyByDeletion
<1>2. CASE Next
  <2>1. ObjectMoves /\ CopiesMove
    BY <1>2, ObjectSteps, CopySteps
  <2>2. DriftOnlyByDeletion'
    BY <1>2, <2>1, MarkedByDeletion DEF DriftOnlyByDeletion, ObjectMoves
  <2>3. /\ (cachePhase = "gone" => phase = "gone")'
        /\ (cachePhase # "absent" => phase # "absent")'
        /\ (cache.deleting => api.deleting)'
    BY <2>1 DEF ObjectMoves, CopiesMove, DriftInv
  <2>4. (launched # {} => cachePhase # "absent")'
    BY <1>2, <2>1, LaunchSeesClass DEF CopiesMove, DriftInv
  <2>5. QED
    BY <2>2, <2>3, <2>4 DEF DriftInv
<1>3. QED
  BY <1>1, <1>2

\* It holds initially.
LEMMA DriftInit ==
  ASSUME Init
  PROVE  DriftInv
<1>1. cachePhase = phase /\ cache = api
  BY DEF Init
<1>2. launched # {} => phase # "absent"
  BY DEF Init, AbsentClaim
<1>3. DriftOnlyByDeletion
  <2>1. AbsentClaim.drifted # NodeClassDrift
    BY DEF AbsentClaim, NotDrifted, NodeClassDrift
  <2>2. LegacyClaim.drifted # NodeClassDrift
    BY DEF LegacyClaim, NewClaim, AbsentClaim, NotDrifted, NodeClassDrift
  <2>3. \A c \in Claims : claim[c] \in {AbsentClaim, LegacyClaim}
    BY DEF Init
  <2>4. QED
    BY <2>1, <2>2, <2>3 DEF DriftOnlyByDeletion
<1>4. QED
  BY <1>1, <1>2, <1>3 DEF DriftInv

\* A claim is only marked for replacement on account of its class when that is
\* being deleted, is gone or has been edited: for any number of claims, neither
\* a pool that is gone, nor a hash that the migration has yet to stamp, nor a
\* cache that has not seen the class makes IsDrifted report it.
THEOREM NoFalseDrift == Spec => []DriftHasCause
<1>1. DriftInv => DriftHasCause
  BY DEF DriftInv, DriftOnlyByDeletion, DriftHasCause
<1>2. QED
  BY <1>1, DriftInit, ClassTypesCorrect, DriftStep, PTL DEF Spec

(* Hash migration ---------------------------------------------------------*)

Unstamped(c) == claim[c].st = "present" /\ claim[c].hv = "v0"
Stamped == \A c \in Claims : ~ Unstamped(c)

\* Whoever saw hash version v1 saw it after all claims were stamped; while the
\* migration runs without an error, what is left to stamp is in its list,
\* because the cache cannot miss a claim of the earlier release.
MigrationInv ==
  /\ api.hv = "v1" \/ cache.hv = "v1" \/ hPc = "annotate" => Stamped
  /\ hPc = "stamp" /\ ~ hErr =>
       \A c \in Claims : Unstamped(c) => \E marked \in BOOLEAN : <<c, marked>> \in hTodo
  /\ \A c \in Claims : Unstamped(c) => claimCache[c].st = "present" /\ claimCache[c].hv = "v0"

\* No step makes an unstamped claim.
LEMMA ClaimsMove ==
  ASSUME TypeOK, Next, NEW d \in Claims, Unstamped(d)'
  PROVE  Unstamped(d)
<1>0. claim \in [Claims -> ClaimRecords]
  BY DEF TypeOK
<1> USE <1>0 DEF claimVars, Unstamped
<1>1. CASE UNCHANGED claim
  BY <1>1
<1>2. CASE StatusStep \/ TerminationStep \/ ClassSync \/ UserStep \/ ChangePool \/ Restart
  BY <1>1, <1>2 DEF StatusStep, StatusStart, StatusAddFinalizer, StatusPatch, TerminationStep,
     TerminationStart, TerminationList, TerminationPatch, ClassSync, UserStep, ObjectRest,
     ChangePool, Restart
<1>3. CASE HashStart \/ HashList \/ HashStamped \/ HashAnnotate
  BY <1>1, <1>3 DEF HashStart, HashList, HashStamped, HashAnnotate
<1>4. ASSUME NEW c \in Claims, NEW marked \in BOOLEAN, HashStamp(c, marked) PROVE Unstamped(d)
  BY <1>4 DEF HashStamp, ClaimRecords
<1>5. ASSUME NEW c \in Claims, ClaimSync(c) \/ Launch(c) PROVE Unstamped(d)
  BY <1>1, <1>5 DEF ClaimSync, Launch
<1>6. ASSUME NEW c \in Claims, RefuseLaunch(c) \/ RemoveClaim(c) PROVE Unstamped(d)
  BY <1>6 DEF RefuseLaunch, RemoveClaim, ClaimRecords
<1>7. ASSUME NEW c \in Claims, CheckDrift(c) PROVE Unstamped(d)
  BY <1>7 DEF CheckDrift, ClaimRecords
<1>8. ASSUME NEW c \in Claims, AddClaim(c) PROVE Unstamped(d)
  BY <1>8 DEF AddClaim, NewClaim, AbsentClaim, NoVersion
<1>9. QED
  BY <1>2, <1>3, <1>4, <1>5, <1>6, <1>7, <1>8 DEF Next, HashStep

\* The class gets its hash version from HashAnnotate only.
LEMMA HashVersionMoves ==
  ASSUME TypeOK, Next
  PROVE  api'.hv = api.hv \/ hPc = "annotate"
<1> USE DEF objVars
<1>0. api \in ClassRecords
  BY DEF TypeOK
<1>1. CASE StatusStep
  BY <1>0, <1>1 DEF StatusStep, StatusStart, StatusAddFinalizer, StatusPatch, StoreIfChanged, Store,
     ClassRecords
<1>2. CASE HashStep
  BY <1>2 DEF HashStep, HashStart, HashList, HashStamped, HashStamp, HashAnnotate
<1>3. CASE TerminationStep
  BY <1>0, <1>3 DEF TerminationStep, TerminationStart, TerminationList, TerminationPatch, Store, ClassRecords
<1>4. CASE ClassSync \/ ChangePool \/ Restart
  BY <1>4 DEF ClassSync, ChangePool, Restart
<1>5. CASE UserStep
  BY <1>0, <1>5 DEF UserStep, CreateClass, EditClass, DeleteClass, AddForeignFinalizer,
     RemoveForeignFinalizer, Store, ClassRecords
<1>6. CASE \E c \in Claims : ClaimSync(c) \/ Launch(c) \/ RefuseLaunch(c) \/ CheckDrift(c)
                            \/ AddClaim(c) \/ RemoveClaim(c)
  BY <1>6 DEF ClaimSync, Launch, RefuseLaunch, CheckDrift, AddClaim, RemoveClaim
<1>7. QED
  BY <1>1, <1>2, <1>3, <1>4, <1>5, <1>6 DEF Next

\* The copies of a claim come from the claim.
LEMMA ClaimCacheMoves ==
  ASSUME TypeOK, Next, NEW d \in Claims
  PROVE  claimCache'[d] = claimCache[d] \/ (claimCache'[d] = claim[d] /\ claim'[d] = claim[d])
<1> USE DEF cacheVars, claimVars
<1>1. CASE StatusStep
  BY <1>1 DEF StatusStep, StatusStart, StatusAddFinalizer, StatusPatch
<1>2. CASE HashStep
  BY <1>2 DEF HashStep, HashStart, HashList, HashStamped, HashStamp, HashAnnotate
<1>3. CASE TerminationStep
  BY <1>3 DEF TerminationStep, TerminationStart, TerminationList, TerminationPatch
<1>4. CASE ClassSync \/ ChangePool \/ Restart
  BY <1>4 DEF ClassSync, ChangePool, Restart
<1>5. CASE UserStep
  BY <1>5 DEF UserStep, ObjectRest
<1>6. ASSUME NEW c \in Claims, ClaimSync(c)
      PROVE  claimCache'[d] = claimCache[d] \/ (claimCache'[d] = claim[d] /\ claim'[d] = claim[d])
  BY <1>6 DEF ClaimSync, TypeOK
<1>7. CASE \E c \in Claims : Launch(c) \/ RefuseLaunch(c) \/ CheckDrift(c) \/ AddClaim(c) \/ RemoveClaim(c)
  BY <1>7 DEF Launch, RefuseLaunch, CheckDrift, AddClaim, RemoveClaim
<1>8. QED
  BY <1>1, <1>2, <1>3, <1>4, <1>5, <1>6, <1>7 DEF Next

\* What is not in the migration's list is stamped, or an error is remembered.
LEMMA ListComplete ==
  ASSUME TypeOK, MigrationInv, Next, hPc' = "stamp", ~ hErr', NEW d \in Claims, Unstamped(d)'
  PROVE  \E marked \in BOOLEAN : <<d, marked>> \in hTodo'
<1>0. Unstamped(d)
  BY ClaimsMove
<1>1. CASE HashList
  <2>1. claimCache[d].st = "present" /\ claimCache[d].hv # "v1"
    BY <1>0 DEF MigrationInv
  <2>2. (claimCache[d].drifted # NotDrifted) \in BOOLEAN
    OBVIOUS
  <2>3. QED
    BY <1>1, <2>1, <2>2 DEF HashList
<1>2. ASSUME NEW c \in Claims, NEW marked \in BOOLEAN, HashStamp(c, marked)
      PROVE  \E m \in BOOLEAN : <<d, m>> \in hTodo'
  <2>1. PICK m \in BOOLEAN : <<d, m>> \in hTodo
    BY <1>0, <1>2 DEF MigrationInv, HashStamp
  <2>2. c # d
    <3>1. claim \in [Claims -> ClaimRecords]
      BY DEF TypeOK
    <3>2. SUFFICES ASSUME c = d PROVE FALSE
      OBVIOUS
    <3>3. claim'[d].hv = "v1"
      BY <1>0, <1>2, <3>1, <3>2 DEF HashStamp, Unstamped, ClaimRecords
    <3>4. QED
      BY <3>3 DEF Unstamped
  <2>3. QED
    BY <1>2, <2>1, <2>2 DEF HashStamp
<1>3. CASE UNCHANGED hashVars
  BY <1>0, <1>3 DEF MigrationInv, hashVars
<1>4. CASE HashStart \/ HashStamped \/ HashAnnotate \/ Restart
  BY <1>0, <1>4 DEF HashStart, HashStamped, HashAnnotate, HashReturn, Restart, MigrationInv
<1>5. CASE StatusStep \/ TerminationStep \/ ClassSync \/ UserStep \/ ChangePool
  BY <1>3, <1>5 DEF StatusStep, StatusStart, StatusAddFinalizer, StatusPatch, TerminationStep,
     TerminationStart, TerminationList, TerminationPatch, ClassSync, UserStep, ObjectRest, ChangePool
<1>6. CASE \E c \in Claims : ClaimSync(c) \/ Launch(c) \/ RefuseLaunch(c) \/ CheckDrift(c)
                            \/ AddClaim(c) \/ RemoveClaim(c)
  BY <1>3, <1>6 DEF ClaimSync, Launch, RefuseLaunch, CheckDrift, AddClaim, RemoveClaim
<1>7. QED
  BY <1>1, <1>2, <1>4, <1>5, <1>6 DEF Next, HashStep

\* The class is annotated only when the list is empty and no error occurred,
\* or when the copy already had hash version v1.
LEMMA AnnotateAfterStamps ==
  ASSUME TypeOK, MigrationInv, Next, hPc' = "annotate"
  PROVE  Stamped
<1>1. CASE HashStart
  BY <1>1 DEF HashStart, MigrationInv
<1>2. CASE HashStamped
  BY <1>2 DEF HashStamped, HashReturn, MigrationInv, Stamped
<1>3. CASE hPc' = hPc
  BY <1>3 DEF MigrationInv
<1>4. CASE HashList \/ HashAnnotate \/ Restart \/ \E c \in Claims, m \in BOOLEAN : HashStamp(c, m)
  BY <1>4 DEF HashList, HashAnnotate, HashReturn, Restart, HashStamp
<1>5. CASE StatusStep \/ TerminationStep \/ ClassSync \/ UserStep \/ ChangePool
  BY <1>3, <1>5 DEF StatusStep, StatusStart, StatusAddFinalizer, StatusPatch, TerminationStep,
     TerminationStart, TerminationList, TerminationPatch, ClassSync, UserStep, ObjectRest, ChangePool,
     hashVars
<1>6. CASE \E c \in Claims : ClaimSync(c) \/ Launch(c) \/ RefuseLaunch(c) \/ CheckDrift(c)
                            \/ AddClaim(c) \/ RemoveClaim(c)
  BY <1>3, <1>6 DEF ClaimSync, Launch, RefuseLaunch, CheckDrift, AddClaim, RemoveClaim, hashVars
<1>7. QED
  BY <1>1, <1>2, <1>4, <1>5, <1>6 DEF Next, HashStep

\* MigrationInv is inductive.
LEMMA MigrationStep ==
  ASSUME TypeOK, MigrationInv, [Next]_vars
  PROVE  MigrationInv'
<1>1. CASE UNCHANGED vars
  BY <1>1 DEF vars, objVars, cacheVars, claimVars, hashVars, MigrationInv, Stamped, Unstamped
<1>2. CASE Next
  <2>1. Stamped => Stamped'
    BY <1>2, ClaimsMove DEF Stamped
  <2>2. (api.hv = "v1" \/ cache.hv = "v1" \/ hPc = "annotate" => Stamped)'
    BY <1>2, <2>1, HashVersionMoves, CopySteps, AnnotateAfterStamps DEF CopiesMove, MigrationInv
  <2>3. (hPc = "stamp" /\ ~ hErr =>
           \A c \in Claims : Unstamped(c) => \E marked \in BOOLEAN : <<c, marked>> \in hTodo)'
    BY <1>2, ListComplete
  <2>4. ASSUME NEW c \in Claims, Unstamped(c)'
        PROVE  claimCache'[c].st = "present" /\ claimCache'[c].hv = "v0"
    BY <1>2, <2>4, ClaimsMove, ClaimCacheMoves DEF MigrationInv, Unstamped
  <2>5. QED
    BY <2>2, <2>3, <2>4 DEF MigrationInv
<1>3. QED
  BY <1>1, <1>2

\* A class with hash version v1 has no claim of the earlier release that is
\* not stamped, for any number of claims, failed patches and restarts.
THEOREM MigrationComplete == Spec => []MigrationBeforeAnnouncement
<1>1. ASSUME Init PROVE MigrationInv
  <2>1. cache = api /\ claimCache = claim /\ hPc = "idle"
    BY <1>1 DEF Init
  <2>2. api.hv # "v1"
    <3>1. NewClass.hv # "v1"
      BY DEF NewClass, NoVersion
    <3>2. \A v \in Versions : LegacyClass(v).hv # "v1"
      BY DEF LegacyClass, NewClass
    <3>3. QED
      BY <1>1, <3>1, <3>2 DEF Init
  <2>3. QED
    BY <2>1, <2>2 DEF MigrationInv, Unstamped
<1>2. MigrationInv => MigrationBeforeAnnouncement
  BY DEF MigrationInv, MigrationBeforeAnnouncement, Stamped, Unstamped
<1>3. QED
  BY <1>1, <1>2, ClassTypesCorrect, MigrationStep, PTL DEF Spec

(* Classes outlive their launches -----------------------------------------*)

InUse(c) == c \in launched /\ claim[c].st = "present"

\* A class in use is stored with its finalizer.  A class with a version loses
\* the finalizer only after its deletion has been seen in the cache, and then
\* nothing is launched any more; the claims that the cache still showed were
\* waited for.
OutliveInv ==
  /\ \A c \in Claims : InUse(c) => phase = "present" /\ TerminationFinalizer \in api.fin
  /\ phase = "gone" => api.fin = {}
  /\ cache.ver # 0 => api.ver # 0
  /\ api.ver # 0 /\ TerminationFinalizer \notin api.fin => cache.deleting
  /\ sPc = "version" => TerminationFinalizer \in sCopy.fin
  /\ tPc # "idle" => cache.deleting
  /\ tPc = "patch" => \A c \in Claims : ~ InUse(c)
  /\ \A c \in Claims :
       /\ c \in launched => claimCache[c].st # "absent"
       /\ claimCache[c].st = "gone" => claim[c].st = "gone"
       /\ claimCache[c].st # "absent" => claim[c].st # "absent"

\* The finalizer is only taken away by a termination patch, and an object that
\* is gone has none.
LEMMA FinalizerMoves ==
  ASSUME TypeOK, Next
  PROVE  /\ TerminationFinalizer \in api.fin /\ TerminationFinalizer \notin api'.fin => TerminationPatch
         /\ phase' = "gone" => (phase = "gone" /\ api' = api) \/ api'.fin = {}
<1> USE DEF objVars
<1>0. api \in ClassRecords
  BY DEF TypeOK
<1>1. CASE StatusStep
  <2>1. CASE StatusStart
    BY <2>1 DEF StatusStart
  <2>2. CASE StatusAddFinalizer
    <3> DEFINE obj == [api EXCEPT !.fin = sCopy.fin \cup {TerminationFinalizer}]
    <3>1. obj \in ClassRecords /\ TerminationFinalizer \in obj.fin
      BY <1>0 DEF TypeOK, ClassRecords
    <3>2. UNCHANGED objVars \/ Store(obj)
      BY <2>2 DEF StatusAddFinalizer, StoreIfChanged
    <3> HIDE DEF obj
    <3>3. CASE UNCHANGED objVars
      BY <2>2, <3>3 DEF StatusAddFinalizer
    <3>4. CASE Store(obj)
      BY <3>1, <3>4 DEF Store, ClassRecords
    <3>5. QED
      BY <3>2, <3>3, <3>4
  <2>3. CASE StatusPatch
    BY <1>0, <2>3 DEF StatusPatch, Store, ClassRecords
  <2>4. QED
    BY <1>1, <2>1, <2>2, <2>3 DEF StatusStep
<1>2. CASE HashStep
  BY <1>0, <1>2 DEF HashStep, HashStart, HashList, HashStamped, HashStamp, HashAnnotate,
     StoreIfChanged, Store, ClassRecords
<1>3. CASE TerminationStep
  BY <1>0, <1>3 DEF TerminationStep, TerminationStart, TerminationList, TerminationPatch, Store, ClassRecords
<1>4. CASE ClassSync \/ ChangePool \/ Restart
  BY <1>4 DEF ClassSync, ChangePool, Restart
<1>5. CASE UserStep
  <2>1. CASE CreateClass \/ EditClass
    BY <1>0, <2>1 DEF CreateClass, EditClass, Store, ClassRecords
  <2>2. CASE DeleteClass
    BY <1>0, <2>2 DEF DeleteClass, Store, ClassRecords
  <2>3. CASE AddForeignFinalizer
    BY <1>0, <2>3 DEF AddForeignFinalizer, Store, ClassRecords
  <2>4. CASE RemoveForeignFinalizer
    BY <1>0, <2>4 DEF RemoveForeignFinalizer, Store, ClassRecords, TerminationFinalizer, Foreign
  <2>5. QED
    BY <1>5, <2>1, <2>2, <2>3, <2>4 DEF UserStep
<1>6. CASE \E c \in Claims : ClaimSync(c) \/ Launch(c) \/ RefuseLaunch(c) \/ CheckDrift(c)
                            \/ AddClaim(c) \/ RemoveClaim(c)
  BY <1>6 DEF ClaimSync, Launch, RefuseLaunch, CheckDrift, AddClaim, RemoveClaim
<1>7. QED
  BY <1>1, <1>2, <1>3, <1>4, <1>5, <1>6 DEF Next

\* A claim is launched by Launch only, and a claim that is not absent never
\* comes back.
LEMMA LaunchesMove ==
  ASSUME TypeOK, Next, NEW d \in Claims
  PROVE  /\ d \in launched' => d \in launched \/ Launch(d)
         /\ claim'[d].st = claim[d].st \/ claim[d].st = "absent" \/ claim'[d].st = "gone"
         /\ claim'[d].st = "absent" => claim[d].st = "absent"
         /\ claim[d].st = "gone" => claim'[d].st = "gone"
<1>0. claim \in [Claims -> ClaimRecords]
  BY DEF TypeOK
<1> USE <1>0 DEF claimVars
<1>2. CASE StatusStep \/ TerminationStep \/ ClassSync \/ UserStep \/ ChangePool \/ Restart
  BY <1>2 DEF StatusStep, StatusStart, StatusAddFinalizer, StatusPatch, TerminationStep,
     TerminationStart, TerminationList, TerminationPatch, ClassSync, UserStep, ObjectRest,
     ChangePool, Restart
<1>3. CASE HashStart \/ HashList \/ HashStamped \/ HashAnnotate
  BY <1>3 DEF HashStart, HashList, HashStamped, HashAnnotate
<1>4. CASE \E c \in Claims, marked \in BOOLEAN : HashStamp(c, marked)
  BY <1>4 DEF HashStamp, ClaimRecords
<1>5. CASE \E c \in Claims : ClaimSync(c) \/ Launch(c)
  BY <1>5 DEF ClaimSync, Launch
<1>6. CASE \E c \in Claims : RefuseLaunch(c) \/ RemoveClaim(c)
  BY <1>6 DEF RefuseLaunch, RemoveClaim, ClaimRecords
<1>7. CASE \E c \in Claims : CheckDrift(c)
  BY <1>7 DEF CheckDrift, ClaimRecords
<1>8. CASE \E c \in Claims : AddClaim(c)
  BY <1>8 DEF AddClaim, NewClaim, AbsentClaim
<1>9. QED
  BY <1>2, <1>3, <1>4, <1>5, <1>6, <1>7, <1>8 DEF Next, HashStep

\* A status reconcile reaches its patch with a copy that has the finalizer; a
\* finalization starts from a copy that is being deleted, and reaches its patch
\* when the cache shows no claim.
LEMMA ReconcilesMove ==
  ASSUME TypeOK, Next
  PROVE  /\ sPc' = "version" =>
              (sPc = "version" /\ sCopy' = sCopy) \/ TerminationFinalizer \in sCopy'.fin
         /\ tPc' # "idle" => tPc # "idle" \/ cache.deleting
         /\ tPc' = "patch" => tPc = "patch" \/ TerminationList
<1> USE DEF statusVars, termVars
<1>0. api \in ClassRecords
  BY DEF TypeOK
<1>1. CASE StatusStep
  <2>1. CASE StatusStart
    BY <2>1 DEF StatusStart
  <2>2. CASE StatusAddFinalizer
    <3>1. UNCHANGED termVars
      BY <2>2 DEF StatusAddFinalizer
    <3>2. sPc' = "version" => TerminationFinalizer \in sCopy'.fin
      <4>1. SUFFICES ASSUME sPc' = "version" PROVE TerminationFinalizer \in sCopy'.fin
        OBVIOUS
      <4> DEFINE obj == [api EXCEPT !.fin = sCopy.fin \cup {TerminationFinalizer}]
      <4>2. StoreIfChanged(obj) /\ sCopy' = api'
        BY <2>2, <4>1 DEF StatusAddFinalizer, StatusReturn
      <4>3. TerminationFinalizer \in obj.fin
        BY <1>0 DEF ClassRecords
      <4> HIDE DEF obj
      <4>4. CASE obj = api
        BY <4>2, <4>3, <4>4 DEF StoreIfChanged, objVars
      <4>5. CASE api' = [obj EXCEPT !.rv = api.rv + 1]
        <5>1. obj \in ClassRecords
          BY DEF obj, TypeOK, ClassRecords
        <5>2. QED
          BY <4>2, <4>3, <4>5, <5>1 DEF ClassRecords
      <4>6. QED
        BY <4>2, <4>4, <4>5 DEF StoreIfChanged, Store
    <3>3. QED
      BY <3>1, <3>2
  <2>3. CASE StatusPatch
    BY <2>3 DEF StatusPatch, StatusReturn
  <2>4. QED
    BY <1>1, <2>1, <2>2, <2>3 DEF StatusStep
<1>2. CASE HashStep
  BY <1>2 DEF HashStep, HashStart, HashList, HashStamped, HashStamp, HashAnnotate
<1>3. CASE TerminationStep
  BY <1>3 DEF TerminationStep, TerminationStart, TerminationList, TerminationPatch, TerminationReturn
<1>4. CASE ClassSync \/ ChangePool \/ Restart \/ UserStep
  BY <1>4 DEF ClassSync, ChangePool, Restart, StatusReturn, TerminationReturn, UserStep, ObjectRest
<1>5. CASE \E c \in Claims : ClaimSync(c) \/ Launch(c) \/ RefuseLaunch(c) \/ CheckDrift(c)
                            \/ AddClaim(c) \/ RemoveClaim(c)
  BY <1>5 DEF ClaimSync, Launch, RefuseLaunch, CheckDrift, AddClaim, RemoveClaim
<1>6. QED
  BY <1>1, <1>2, <1>3, <1>4, <1>5 DEF Next

\* A class gets its first version while it has the finalizer: the copy of a
\* patch that gets through is the stored object.
LEMMA VersionAfterFinalizer ==
  ASSUME TypeOK, VersionInv, OutliveInv, StatusPatch, api' # api
  PROVE  TerminationFinalizer \in api.fin /\ api'.fin = api.fin
<1>1. api.rv = sCopy.rv /\ api'.fin = api.fin
  <2>1. PICK v \in Versions :
          /\ api.rv = sCopy.rv
          /\ Store([api EXCEPT !.ver = GoalVersion(sCopy, v), !.obs = sCopy.gen])
    BY DEF StatusPatch, KubeServerVersion, objVars
  <2>2. QED
    BY <2>1 DEF Store, TypeOK, ClassRecords
<1>2. sCopy = api /\ TerminationFinalizer \in sCopy.fin
  BY <1>1 DEF StatusPatch, VersionInv, Current, OutliveInv
<1>3. QED
  BY <1>1, <1>2

\* A claim that comes into use is launched, with a class whose finalizer is in
\* place.
LEMMA UseStarts ==
  ASSUME TypeOK, DriftInv, OutliveInv, Next, NEW c \in Claims, InUse(c)', ~ InUse(c)
  PROVE  /\ ~ cache.deleting /\ phase = "present" /\ TerminationFinalizer \in api.fin
         /\ UNCHANGED <<phase, api, tPc>>
<1>1. Launch(c)
  BY LaunchesMove DEF InUse, OutliveInv
<1>2. /\ cachePhase = "present" /\ ~ cache.deleting /\ cache.ver # 0
      /\ UNCHANGED <<phase, api, tPc>>
  BY <1>1 DEF Launch, ResolveNodeClassFromNodeClaim, KubernetesVersionReady, objVars, termVars
<1>3. TerminationFinalizer \in api.fin
  BY <1>2 DEF OutliveInv
<1>4. phase = "present"
  BY <1>2, <1>3 DEF OutliveInv, DriftInv, TypeOK
<1>5. QED
  BY <1>2, <1>3, <1>4

\* OutliveInv is inductive.
LEMMA OutliveStep ==
  ASSUME TypeOK, VersionInv, DriftInv, OutliveInv, [Next]_vars
  PROVE  OutliveInv'
<1>1. CASE UNCHANGED vars
  BY <1>1 DEF vars, objVars, cacheVars, claimVars, statusVars, termVars, OutliveInv, InUse
<1>2. CASE Next
  <2>0. TypeOK' /\ ObjectMoves /\ (StatusPatch \/ KeepsVersion) /\ CopiesMove
    BY <1>2, ClassTypesStep, ObjectSteps, CopySteps
  <2>1. cache.deleting => cache'.deleting
    BY <2>0 DEF CopiesMove, DriftInv
  <2>2. api.ver # 0 => api'.ver # 0
    <3>1. api.ver \in Nat /\ api'.ver \in Nat
      BY <2>0, VersionsAreNumbers DEF TypeOK, ClassRecords
    <3>2. QED
      BY <1>2, <3>1, VersionStep
  <2>3. (phase = "gone" => api.fin = {})'
    BY <1>2, FinalizerMoves DEF OutliveInv
  <2>4. (cache.ver # 0 => api.ver # 0)'
    BY <2>0, <2>2 DEF CopiesMove, OutliveInv
  <2>5. (api.ver # 0 /\ TerminationFinalizer \notin api.fin => cache.deleting)'
    <3>1. CASE TerminationFinalizer \in api.fin
      BY <1>2, <2>1, <3>1, FinalizerMoves DEF TerminationPatch, OutliveInv
    <3>2. CASE TerminationFinalizer \notin api.fin
      BY <2>0, <2>1, <3>2, VersionAfterFinalizer DEF KeepsVersion, OutliveInv
    <3>3. QED
      BY <3>1, <3>2
  <2>6. (sPc = "version" => TerminationFinalizer \in sCopy.fin)'
    BY <1>2, ReconcilesMove DEF OutliveInv
  <2>7. (tPc # "idle" => cache.deleting)'
    BY <1>2, <2>1, ReconcilesMove DEF OutliveInv
  <2>8. ASSUME NEW c \in Claims, InUse(c)'
        PROVE  (phase = "present" /\ TerminationFinalizer \in api.fin)' /\ tPc' # "patch"
    <3>1. CASE InUse(c)
      <4>1. TerminationFinalizer \in api'.fin
        BY <1>2, <3>1, FinalizerMoves DEF TerminationPatch, OutliveInv
      <4>2. phase' = "present"
        BY <2>0, <2>3, <3>1, <4>1 DEF ObjectMoves, OutliveInv, TypeOK
      <4>3. ~ TerminationList \/ tPc' # "patch"
        <5>1. claimCache[c].st \in {"absent", "present", "gone"}
          BY DEF TypeOK, ClaimRecords
        <5>2. claimCache[c].st = "present"
          BY <3>1, <5>1 DEF OutliveInv, InUse
        <5>3. QED
          BY <5>2 DEF TerminationList, TerminationReturn
      <4>4. QED
        BY <1>2, <3>1, <4>1, <4>2, <4>3, ReconcilesMove DEF OutliveInv
    <3>2. CASE ~ InUse(c)
      BY <1>2, <2>8, <3>2, UseStarts DEF OutliveInv
    <3>3. QED
      BY <3>1, <3>2
  <2>9. ASSUME NEW c \in Claims
        PROVE  /\ c \in launched' => claimCache'[c].st # "absent"
               /\ claimCache'[c].st = "gone" => claim'[c].st = "gone"
               /\ claimCache'[c].st # "absent" => claim'[c].st # "absent"
    <3>1. c \in launched' => claimCache[c].st # "absent"
      BY <1>2, LaunchesMove DEF Launch, OutliveInv
    <3>2. QED
      BY <1>2, <3>1, LaunchesMove, ClaimCacheMoves DEF OutliveInv
  <2>10. QED
    BY <2>3, <2>4, <2>5, <2>6, <2>7, <2>8, <2>9 DEF OutliveInv
<1>3. QED
  BY <1>1, <1>2

\* It holds initially.
LEMMA OutliveInit ==
  ASSUME Init
  PROVE  OutliveInv
<1>1. cache = api /\ claimCache = claim /\ sPc = "idle" /\ tPc = "idle"
      /\ launched = { c \in Claims : claim[c].st = "present" }
  BY DEF Init
<1>2. CASE phase = "absent" /\ api = NewClass /\ claim = [c \in Claims |-> AbsentClaim]
  BY <1>1, <1>2 DEF OutliveInv, InUse, NewClass, AbsentClaim
<1>3. ASSUME NEW v \in Versions, phase = "present", api = LegacyClass(v)
      PROVE  OutliveInv
  <2>1. TerminationFinalizer \in api.fin
    BY <1>3 DEF LegacyClass, NewClass
  <2>2. QED
    BY <1>1, <1>3, <2>1 DEF OutliveInv, InUse
<1>4. QED
  BY <1>2, <1>3 DEF Init

\* No claim that CloudProvider.Create launched loses its class before it is
\* gone itself, for any number of claims and however stale the caches are:
\* finalize sees every claim that was accepted before it saw the deletion.
THEOREM ClassesOutliveLaunches == Spec => []ClassOutlivesLaunches
<1>1. TypeOK /\ OutliveInv => ClassOutlivesLaunches
  BY DEF OutliveInv, InUse, ClassOutlivesLaunches, TypeOK
<1>2. Init /\ [][Next]_vars => []OutliveInv
  BY ClassTypesCorrect, VersionInit, VersionStep, DriftInit, DriftStep, OutliveInit, OutliveStep, PTL
  DEF Spec
<1>3. QED
  BY <1>1, <1>2, ClassTypesCorrect, PTL DEF Spec
=============================================================================
