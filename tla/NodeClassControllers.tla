------------------------ MODULE NodeClassControllers ------------------------
(***************************************************************************)
(* pkg/controllers/nodeclass: the status, hash and termination controllers *)
(* of one VsphereNodeClass, with the launches and the drift of the claims  *)
(* that depend on it.  They run concurrently; each reconcile starts from   *)
(* the copy of the object in the process's informer cache, which may be    *)
(* stale, and patches the API server.  A patch is either plain             *)
(* (client.MergeFrom: it carries only the fields that differ from the      *)
(* copy, a list counting as one field) or locked                           *)
(* (MergeFromWithOptimisticLock: it fails when the resourceVersion has     *)
(* moved on).                                                              *)
(***************************************************************************)
EXTENDS Drift

CONSTANTS
  Claims,      \* NodeClaims that reference the class
  Legacy,      \* those of them that an earlier release may have made, with the class
  Versions,    \* Kubernetes versions that the API servers may report
  MaxEdits,    \* bound: edits of class and pool, finalizers and claims added
  MaxFaults    \* bound: failed calls and restarts

ASSUME ClassConstants ==
  /\ Legacy \subseteq Claims
  /\ Versions \subseteq Nat \ {0}
  /\ MaxEdits \in Nat /\ MaxFaults \in Nat

VARIABLES
  phase,       \* of the object: "absent", "present" or "gone"
  api,         \* the object in the API server
  cachePhase, cache,         \* the same two in the informer cache
  claim, claimCache,         \* NodeClaims in the API server and in the cache
  poolUp, outdated,          \* whether their NodePool exists; claims made before its last edit
  launched,    \* claims for which CloudProvider.Create accepted the class
  queue,       \* controllers with a request for the class in their queue
  sPc, sCopy,                \* status controller
  hPc, hCopy, hTodo, hErr,   \* hash controller
  tPc, tCopy,                \* termination controller
  edits, faults

objVars    == <<phase, api>>
cacheVars  == <<cachePhase, cache, claimCache>>
poolVars   == <<poolUp, outdated>>
claimVars  == <<claim, poolVars, launched>>
statusVars == <<sPc, sCopy>>
hashVars   == <<hPc, hCopy, hTodo, hErr>>
termVars   == <<tPc, tCopy>>
vars == <<objVars, cacheVars, claimVars, queue, statusVars, hashVars, termVars, edits, faults>>

Controllers == {"status", "hash", "termination"}

\* v1alpha1.TerminationFinalizer, and one of some other component.
TerminationFinalizer == "termination"
Foreign == "foreign"

\* A reason of core's own: the NodePool has changed.
PoolDrift == "pool"

(* The object.  gen is metadata.generation and stands for the spec; ver is *)
(* status.kubernetesVersion, 0 for ""; obs is the ObservedGeneration of    *)
(* the condition KubernetesVersionReady, 0 while that is not True.         *)
NewClass ==
  [rv |-> 1, gen |-> 1, deleting |-> FALSE, fin |-> {}, ver |-> 0, obs |-> 0,
   hash |-> NoHash, hv |-> NoVersion]

\* Another spec has another hash, unless it only has its lists in another order.
Hash(obj) == obj.gen

\* What an earlier hash version made of the first spec.
OldHash == -1

\* A class that an earlier release of the controllers has reconciled.
LegacyClass(v) ==
  [NewClass EXCEPT !.fin = {TerminationFinalizer}, !.ver = v, !.obs = 1,
                   !.hash = OldHash, !.hv = "v0"]

(* A claim: the same annotations, and the reason of its condition Drifted. *)
AbsentClaim == [st |-> "absent", hash |-> NoHash, hv |-> NoVersion, drifted |-> NotDrifted]
NewClaim == [AbsentClaim EXCEPT !.st = "present"]
LegacyClaim == [NewClaim EXCEPT !.hash = OldHash, !.hv = "v0"]

Init ==
  /\ \/ /\ phase = "absent" /\ api = NewClass
        /\ claim = [c \in Claims |-> AbsentClaim]
     \/ /\ phase = "present" /\ \E v \in Versions : api = LegacyClass(v)
        /\ claim = [c \in Claims |-> IF c \in Legacy THEN LegacyClaim ELSE AbsentClaim]
  /\ cachePhase = phase /\ cache = api /\ claimCache = claim
  /\ poolUp = TRUE /\ outdated = {} /\ launched = { c \in Claims : claim[c].st = "present" }
  /\ queue = Controllers
  /\ sPc = "idle" /\ sCopy = NewClass
  /\ hPc = "idle" /\ hCopy = NewClass /\ hTodo = {} /\ hErr = FALSE
  /\ tPc = "idle" /\ tCopy = NewClass
  /\ edits = 0 /\ faults = 0

\* The API server stores the object; one that is being deleted disappears
\* with its last finalizer.
Store(obj) ==
  /\ api' = [obj EXCEPT !.rv = api.rv + 1]
  /\ phase' = IF obj.deleting /\ obj.fin = {} THEN "gone" ELSE "present"

StoreIfChanged(obj) == IF obj = api THEN UNCHANGED objVars ELSE Store(obj)

\* The reconcile returns and its copy is gone.
StatusReturn == sPc' = "idle" /\ sCopy' = NewClass
HashReturn == hPc' = "idle" /\ hCopy' = NewClass
TerminationReturn == tPc' = "idle" /\ tCopy' = NewClass

Dequeue(k) == queue' = queue \ {k}
Requeue(k) == queue' = queue \cup {k}

(* status.Controller ------------------------------------------------------*)

StatusStart ==
  /\ "status" \in queue /\ sPc = "idle"
  /\ Dequeue("status")
  /\ IF cachePhase = "present"
     THEN /\ sCopy' = cache
          /\ sPc' = IF TerminationFinalizer \in cache.fin THEN "version" ELSE "finalizer"
     ELSE UNCHANGED statusVars
  /\ UNCHANGED <<objVars, cacheVars, claimVars, hashVars, termVars, edits, faults>>

\* A plain patch: it replaces the whole finalizer list by that of the copy
\* plus the new one.  The API server refuses new finalizers on an object that
\* is being deleted.  On success the copy becomes the stored object.
StatusAddFinalizer ==
  LET fin == sCopy.fin \cup {TerminationFinalizer}
      accepted == phase = "present" /\ (api.deleting => fin \subseteq api.fin)
  IN
  /\ sPc = "finalizer"
  /\ \/ /\ accepted
        /\ StoreIfChanged([api EXCEPT !.fin = fin])
        /\ sCopy' = api' /\ sPc' = "version"
        /\ UNCHANGED queue
     \/ /\ ~ accepted
        /\ StatusReturn /\ Requeue("status")
        /\ UNCHANGED objVars
  /\ UNCHANGED <<cacheVars, claimVars, hashVars, termVars, edits, faults>>

\* The answer of any API server, up to fifteen minutes old: it is cached.
KubeServerVersion == Versions

\* KubernetesVersionReconciler: the version only moves up once it is set.
GoalVersion(obj, discovered) ==
  IF obj.obs = 0 \/ obj.ver = 0 THEN discovered
  ELSE IF discovered > obj.ver THEN discovered ELSE obj.ver

\* Mutant: the status patch without its optimistic lock.
MutantStatusUnlocked ==
  /\ sPc = "version"
  /\ \E v \in KubeServerVersion :
       IF phase = "present"
       THEN Store([api EXCEPT !.ver = GoalVersion(sCopy, v), !.obs = sCopy.gen])
       ELSE UNCHANGED objVars
  /\ StatusReturn /\ Requeue("status")
  /\ UNCHANGED <<cacheVars, claimVars, hashVars, termVars, edits, faults>>

\* A locked patch of the status.  The discovery of the version may fail.  An
\* error or a conflict is retried, and so, fifteen minutes later, is a success.
StatusPatch ==
  /\ sPc = "version"
  /\ \/ /\ \E v \in KubeServerVersion :
             LET ver == GoalVersion(sCopy, v) IN
             IF phase = "present" /\ api.rv = sCopy.rv /\ (ver # sCopy.ver \/ sCopy.obs # sCopy.gen)
             THEN Store([api EXCEPT !.ver = ver, !.obs = sCopy.gen])
             ELSE UNCHANGED objVars
        /\ UNCHANGED faults
     \/ /\ faults < MaxFaults /\ faults' = faults + 1
        /\ UNCHANGED objVars
  /\ StatusReturn /\ Requeue("status")
  /\ UNCHANGED <<cacheVars, claimVars, hashVars, termVars, edits>>

(* hash.Controller --------------------------------------------------------*)

HashStart ==
  /\ "hash" \in queue /\ hPc = "idle"
  /\ Dequeue("hash")
  /\ IF cachePhase = "present"
     THEN /\ hCopy' = cache
          /\ hPc' = IF cache.hv # "v1" THEN "list" ELSE "annotate"
     ELSE UNCHANGED <<hPc, hCopy>>
  /\ UNCHANGED <<hTodo, hErr, objVars, cacheVars, claimVars, statusVars, termVars, edits, faults>>

\* updateNodeClaimHash lists the claims in the cache; those of another hash
\* version are patched, according to what the list says of their drift.
HashList ==
  /\ hPc = "list"
  /\ hTodo' = { <<c, claimCache[c].drifted # NotDrifted>> :
                 c \in { d \in Claims : claimCache[d].st = "present" /\ claimCache[d].hv # "v1" } }
  /\ hPc' = "stamp"
  /\ UNCHANGED <<hCopy, hErr, queue, objVars, cacheVars, claimVars, statusVars, termVars, edits, faults>>

\* One claim gets the version, and the hash unless the list showed it
\* drifted.  A claim that is gone is no error; another failure is remembered.
HashStamp(c, marked) ==
  /\ hPc = "stamp" /\ <<c, marked>> \in hTodo
  /\ hTodo' = hTodo \ {<<c, marked>>}
  /\ \/ /\ claim[c].st = "present"
        /\ claim' = [claim EXCEPT ![c].hv = "v1", ![c].hash = IF marked THEN @ ELSE Hash(hCopy)]
        /\ UNCHANGED <<hErr, faults>>
     \/ /\ claim[c].st # "present"
        /\ UNCHANGED <<claim, hErr, faults>>
     \/ /\ faults < MaxFaults /\ faults' = faults + 1
        /\ hErr' = TRUE
        /\ UNCHANGED claim
  /\ UNCHANGED <<hPc, hCopy, queue, objVars, cacheVars, poolVars, launched, statusVars, termVars, edits>>

\* Mutant: the class is annotated although a claim patch failed.
MutantStampedRegardless ==
  /\ hPc = "stamp" /\ hTodo = {}
  /\ hErr' = FALSE /\ hPc' = "annotate"
  /\ UNCHANGED <<hCopy, queue, hTodo, objVars, cacheVars, claimVars, statusVars, termVars,
                 edits, faults>>

\* Mutant: the errors of one reconcile are still there in the next.
MutantStampedKeepsErrors ==
  /\ hPc = "stamp" /\ hTodo = {}
  /\ IF hErr THEN HashReturn /\ Requeue("hash")
     ELSE hPc' = "annotate" /\ UNCHANGED <<hCopy, queue>>
  /\ UNCHANGED <<hErr, hTodo, objVars, cacheVars, claimVars, statusVars, termVars, edits,
                 faults>>

\* An error ends the reconcile before the class is annotated.
HashStamped ==
  /\ hPc = "stamp" /\ hTodo = {}
  /\ hErr' = FALSE
  /\ IF hErr THEN HashReturn /\ Requeue("hash")
     ELSE hPc' = "annotate" /\ UNCHANGED <<hCopy, queue>>
  /\ UNCHANGED <<hTodo, objVars, cacheVars, claimVars, statusVars, termVars, edits,
                 faults>>

\* Mutant: only a class of an earlier hash version is annotated.
MutantAnnotateOnce ==
  /\ hPc = "annotate"
  /\ HashReturn
  /\ IF hCopy.hv # "v1" /\ phase = "present"
     THEN StoreIfChanged([api EXCEPT !.hash = Hash(hCopy), !.hv = "v1"])
     ELSE UNCHANGED objVars
  /\ UNCHANGED <<queue, hTodo, hErr, cacheVars, claimVars, statusVars, termVars, edits, faults>>

\* A plain patch of the annotations that differ from the copy's.
HashAnnotate ==
  LET differs == hCopy.hash # Hash(hCopy) \/ hCopy.hv # "v1" IN
  /\ hPc = "annotate"
  /\ HashReturn
  /\ IF differs /\ phase # "present" THEN Requeue("hash") ELSE UNCHANGED queue
  /\ IF differs /\ phase = "present"
     THEN StoreIfChanged(
            [api EXCEPT !.hash = IF hCopy.hash # Hash(hCopy) THEN Hash(hCopy) ELSE @, !.hv = "v1"])
     ELSE UNCHANGED objVars
  /\ UNCHANGED <<hTodo, hErr, cacheVars, claimVars, statusVars, termVars, edits, faults>>

(* termination.Controller -------------------------------------------------*)

TerminationStart ==
  /\ "termination" \in queue /\ tPc = "idle"
  /\ Dequeue("termination")
  /\ IF cachePhase = "present" /\ cache.deleting /\ TerminationFinalizer \in cache.fin
     THEN tCopy' = cache /\ tPc' = "list"
     ELSE UNCHANGED termVars
  /\ UNCHANGED <<objVars, cacheVars, claimVars, statusVars, hashVars, edits, faults>>

\* Mutant: finalize waits for drifted claims only.
MutantListSkipsClaims ==
  /\ tPc = "list"
  /\ IF \E c \in Claims : claimCache[c].st = "present" /\ claimCache[c].drifted # NotDrifted
     THEN TerminationReturn /\ Requeue("termination")
     ELSE tPc' = "patch" /\ UNCHANGED <<tCopy, queue>>
  /\ UNCHANGED <<objVars, cacheVars, claimVars, statusVars, hashVars, edits, faults>>

\* finalize waits for the claims that the cache still shows.
TerminationList ==
  /\ tPc = "list"
  /\ IF \E c \in Claims : claimCache[c].st = "present"
     THEN TerminationReturn /\ Requeue("termination")
     ELSE tPc' = "patch" /\ UNCHANGED <<tCopy, queue>>
  /\ UNCHANGED <<objVars, cacheVars, claimVars, statusVars, hashVars, edits, faults>>

\* A locked patch removes the finalizer; a conflict requeues.
TerminationPatch ==
  /\ tPc = "patch" /\ TerminationReturn
  /\ IF phase = "present" /\ api.rv # tCopy.rv THEN Requeue("termination") ELSE UNCHANGED queue
  /\ IF phase = "present" /\ api.rv = tCopy.rv
     THEN Store([api EXCEPT !.fin = tCopy.fin \ {TerminationFinalizer}])
     ELSE UNCHANGED objVars
  /\ UNCHANGED <<cacheVars, claimVars, statusVars, hashVars, edits, faults>>

(* Caches, core and users -------------------------------------------------*)

\* A watch event of the class reaches the cache and all three queues.
ClassSync ==
  /\ <<cachePhase, cache>> # <<phase, api>>
  /\ cachePhase' = phase /\ cache' = api
  /\ queue' = Controllers
  /\ UNCHANGED <<claimCache, objVars, claimVars, statusVars, hashVars, termVars, edits, faults>>

\* A watch event of a claim; its deletion also wakes the termination
\* controller.
ClaimSync(c) ==
  /\ claimCache[c] # claim[c]
  /\ claimCache' = [claimCache EXCEPT ![c] = claim[c]]
  /\ IF claim[c].st = "gone" THEN Requeue("termination") ELSE UNCHANGED queue
  /\ UNCHANGED <<cachePhase, cache, objVars, claimVars, statusVars, hashVars, termVars, edits,
                 faults>>

\* GetKubernetesVersion gives no error: the condition is True, for the current
\* generation, and there is a version.
KubernetesVersionReady(obj) == obj.ver # 0 /\ obj.obs = obj.gen

\* resolveNodeClassFromNodeClaim finds the class.
ResolveNodeClassFromNodeClaim == cachePhase = "present" /\ ~ cache.deleting

\* CloudProvider.Create accepts the class: found, not terminating, ready and
\* with a valid version.
Launch(c) ==
  /\ claimCache[c].st = "present" /\ c \notin launched
  /\ ResolveNodeClassFromNodeClaim /\ KubernetesVersionReady(cache)
  /\ launched' = launched \cup {c}
  /\ UNCHANGED <<objVars, cacheVars, claim, poolVars, queue, statusVars, hashVars, termVars, edits, faults>>

\* Create answers InsufficientCapacityError for a class that is missing or
\* terminating; core then deletes the claim, which has no machine.
RefuseLaunch(c) ==
  /\ claimCache[c].st = "present" /\ c \notin launched /\ claim[c].st = "present"
  /\ ~ ResolveNodeClassFromNodeClaim
  /\ claim' = [claim EXCEPT ![c].st = "gone"]
  /\ UNCHANGED <<objVars, cacheVars, poolVars, launched, queue, statusVars, hashVars, termVars, edits, faults>>

\* Core asks for the drift of a launched claim and stores the answer, if it is
\* no error, with a locked patch; drift from its pool comes first.
CheckDrift(c) ==
  /\ c \in launched /\ claim[c].st = "present" /\ claimCache[c] = claim[c]
  /\ LET reason == IF poolUp /\ c \in outdated THEN PoolDrift
                   ELSE IsDrifted(claimCache[c], poolUp, cachePhase = "present", cache)
     IN /\ reason # DriftError
        /\ claim' = [claim EXCEPT ![c].drifted = reason]
  /\ UNCHANGED <<objVars, cacheVars, poolVars, launched, queue, statusVars, hashVars, termVars, edits, faults>>

AddClaim(c) ==
  /\ c \notin Legacy /\ claim[c].st = "absent" /\ poolUp
  /\ edits < MaxEdits /\ edits' = edits + 1
  /\ claim' = [claim EXCEPT ![c] = NewClaim]
  /\ UNCHANGED <<objVars, cacheVars, poolVars, launched, queue, statusVars, hashVars, termVars, faults>>

RemoveClaim(c) ==
  /\ claim[c].st = "present"
  /\ claim' = [claim EXCEPT ![c].st = "gone"]
  /\ UNCHANGED <<objVars, cacheVars, poolVars, launched, queue, statusVars, hashVars, termVars, edits, faults>>

\* What core does about a claim that is drifted or whose pool is deleted.
ReplaceClaim(c) == (claim[c].drifted # NotDrifted \/ ~ poolUp) /\ RemoveClaim(c)

\* A user edits or deletes the pool.
ChangePool ==
  /\ poolUp /\ edits < MaxEdits /\ edits' = edits + 1
  /\ \/ outdated' = { c \in Claims : claim[c].st = "present" } /\ UNCHANGED poolUp
     \/ poolUp' = FALSE /\ UNCHANGED outdated
  /\ UNCHANGED <<objVars, cacheVars, claim, launched, queue, statusVars, hashVars, termVars, faults>>

CreateClass ==
  /\ phase = "absent" /\ phase' = "present" /\ UNCHANGED <<api, edits>>

EditClass ==
  /\ phase = "present" /\ edits < MaxEdits /\ edits' = edits + 1
  /\ Store([api EXCEPT !.gen = @ + 1])

DeleteClass ==
  /\ phase = "present" /\ ~ api.deleting
  /\ Store([api EXCEPT !.deleting = TRUE]) /\ UNCHANGED edits

AddForeignFinalizer ==
  /\ phase = "present" /\ ~ api.deleting /\ Foreign \notin api.fin
  /\ edits < MaxEdits /\ edits' = edits + 1
  /\ Store([api EXCEPT !.fin = @ \cup {Foreign}])

\* Its owner keeps the finalizer until the class is being deleted.
RemoveForeignFinalizer ==
  /\ phase = "present" /\ api.deleting /\ Foreign \in api.fin
  /\ Store([api EXCEPT !.fin = @ \ {Foreign}]) /\ UNCHANGED edits

ObjectRest == UNCHANGED <<cacheVars, claimVars, queue, statusVars, hashVars, termVars, faults>>

UserStep ==
  /\ CreateClass \/ EditClass \/ DeleteClass \/ AddForeignFinalizer \/ RemoveForeignFinalizer
  /\ ObjectRest

\* The process restarts with fresh caches; every object is queued again.
Restart ==
  /\ faults < MaxFaults /\ faults' = faults + 1
  /\ StatusReturn /\ HashReturn /\ hTodo' = {} /\ hErr' = FALSE /\ TerminationReturn
  /\ cachePhase' = phase /\ cache' = api /\ claimCache' = claim
  /\ queue' = Controllers
  /\ UNCHANGED <<objVars, claimVars, edits>>

StatusStep == StatusStart \/ StatusAddFinalizer \/ StatusPatch
HashStep == HashStart \/ HashList \/ HashStamped \/ HashAnnotate
            \/ \E c \in Claims, marked \in BOOLEAN : HashStamp(c, marked)
TerminationStep == TerminationStart \/ TerminationList \/ TerminationPatch

Next ==
  \/ StatusStep \/ HashStep \/ TerminationStep \/ ClassSync \/ UserStep \/ ChangePool \/ Restart
  \/ \E c \in Claims : ClaimSync(c) \/ Launch(c) \/ RefuseLaunch(c) \/ CheckDrift(c)
                       \/ AddClaim(c) \/ RemoveClaim(c)

Spec == Init /\ [][Next]_vars

\* Work queues are served and watches deliver; core retries launches, asks for
\* drift and replaces claims; the owner of the foreign finalizer removes it
\* from a class that is being deleted.  Users owe nothing.
Fairness ==
  /\ WF_vars(StatusStep) /\ WF_vars(HashStep) /\ WF_vars(TerminationStep)
  /\ WF_vars(ClassSync)
  /\ \A c \in Claims : /\ WF_vars(ClaimSync(c)) /\ WF_vars(RefuseLaunch(c))
                       /\ WF_vars(CheckDrift(c)) /\ WF_vars(ReplaceClaim(c))
  /\ WF_vars(RemoveForeignFinalizer /\ ObjectRest)

FairSpec == Spec /\ Fairness

(* Properties -------------------------------------------------------------*)

ClassRecords ==
  [rv : Nat, gen : Nat \ {0}, deleting : BOOLEAN, fin : SUBSET {TerminationFinalizer, Foreign},
   ver : {0} \cup Versions, obs : Nat, hash : Int, hv : {NoVersion, "v0", "v1"}]
ClaimRecords ==
  [st : {"absent", "present", "gone"}, hash : Int, hv : {NoVersion, "v0", "v1"},
   drifted : {NotDrifted, NodeClassDrift, PoolDrift}]

\* Every variable stays within its type, the version is one that was
\* discovered, and what updateNodeClaimHash collects is local to one call.
TypeOK ==
  /\ phase \in {"absent", "present", "gone"} /\ cachePhase \in {"absent", "present", "gone"}
  /\ api \in ClassRecords /\ cache \in ClassRecords
  /\ claim \in [Claims -> ClaimRecords] /\ claimCache \in [Claims -> ClaimRecords]
  /\ poolUp \in BOOLEAN /\ outdated \subseteq Claims /\ launched \subseteq Claims /\ queue \subseteq Controllers
  /\ sPc \in {"idle", "finalizer", "version"} /\ sCopy \in ClassRecords
  /\ hPc \in {"idle", "list", "stamp", "annotate"} /\ hCopy \in ClassRecords
  /\ hTodo \subseteq Claims \X BOOLEAN /\ hErr \in BOOLEAN
  /\ (hErr \/ hTodo # {}) => hPc = "stamp"
  /\ tPc \in {"idle", "list", "patch"} /\ tCopy \in ClassRecords
  /\ edits \in 0 .. MaxEdits /\ faults \in 0 .. MaxFaults

\* A launched claim never loses its class: Create reads the class, and
\* finalize lists the claims, from one process's caches, so a claim that was
\* accepted before the deletion was seen is seen by finalize; and the class
\* is accepted only after it has the finalizer.
ClassOutlivesLaunches ==
  \A c \in launched : claim[c].st = "present" => phase = "present"

\* "We do not currently support downgrading": the version of a class never
\* falls, although copies are stale and API servers disagree during an
\* upgrade; the lock of the status patch is what makes the comparison hold.
VersionNeverDowngraded == [][ api'.ver >= api.ver ]_vars

\* The class announces hash version v1 only after every claim of the earlier
\* release has been stamped, also when a claim patch failed or the process
\* restarted half-way.
MigrationBeforeAnnouncement ==
  api.hv = "v1" => \A c \in Claims : claim[c].st = "present" => claim[c].hv # "v0"

\* A claim is marked for replacement on account of its class only for a cause:
\* the class is being deleted or gone, or its spec has been edited.  IsDrifted
\* takes a class that it does not find for a deleted one, and neither a pool
\* that is gone, nor a cache that has not seen the class yet, nor a hash that
\* the migration has not stamped yet may look like that.
DriftHasCause ==
  \A c \in Claims : claim[c].drifted = NodeClassDrift => phase = "gone" \/ api.deleting \/ api.gen > 1

\* A deleted class empties itself and goes away: every claim still there, old
\* or added meanwhile, is refused a launch or reported drifted, although Create
\* and IsDrifted read stale copies, and the finalization comes back until none
\* is left.  This rests on core replacing the claims that are drifted and
\* removing those of a deleted pool (Fairness).
DeletedClassDrains == (phase = "present" /\ api.deleting) ~> phase = "gone"

\* The controllers converge: a class that stays gets its finalizer, its hash
\* annotation follows the last spec, and its version is confirmed for it.
ClassConverges ==
  <>[]( phase = "present" /\ ~ api.deleting =>
        /\ TerminationFinalizer \in api.fin
        /\ api.hash = Hash(api) /\ api.hv = "v1"
        /\ KubernetesVersionReady(api) )

\* No controller takes another component's finalizer away: the comment on the
\* finalizer patch of finalize explains the lock by the races of "patching a
\* list with a JSON merge patch".
ForeignFinalizerKept ==
  [][ (Foreign \in api.fin /\ Foreign \notin api'.fin) => RemoveForeignFinalizer ]_vars
=============================================================================
