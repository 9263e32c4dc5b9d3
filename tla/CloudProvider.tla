--------------------------- MODULE CloudProvider ---------------------------
(***************************************************************************)
(* pkg/cloudprovider: what the adapter between Karpenter core and the      *)
(* instance provider reads from the cluster, the node class and the node   *)
(* pools, and the decisions it takes from it.  One VsphereNodeClass serves *)
(* all pools.                                                              *)
(***************************************************************************)
EXTENDS InstanceProvider

CONSTANTS
  Pools,            \* NodePool names of this cluster
  ClassConditions   \* bound: the states of the class that a run visits

ASSUME ClassBound ==
  ClassConditions \subseteq {"ready", "unknown", "notready", "terminating"}

VARIABLES
  class,     \* readiness of the VsphereNodeClass; "terminating" once deleted
  offered,   \* the instance types its spec lists
  poolUp     \* whether each NodePool exists

clusterVars == <<class, offered, poolUp>>

\* Create goes ahead: the class is found, not terminating, ready, has its
\* Kubernetes version, and offers a type that fits the claim.
MayLaunch(t) == class = "ready" /\ t \in offered

\* Mutant of LaunchRefused: a terminating class is an error to retry.
MutantTerminatingRetried == class = "notready" \/ (class = "ready" /\ offered = {})

\* InsufficientCapacityError or NodeClassNotReadyError.  Readiness Unknown is
\* a CreateError instead: the call is retried and nothing changes.
LaunchRefused ==
  \/ class \in {"terminating", "notready"}
  \/ class = "ready" /\ offered = {}

\* resolveInstanceTypeFromInstance succeeds.  A NodePool that is not found is
\* no error; an unlabelled machine, a missing or terminating class, and a
\* type that the class does not list are.
InstanceTypeResolves(tags) ==
  LET pool == TagValue(tags, NodePoolLabelKey) IN
  /\ pool # ""
  /\ pool \in Pools /\ poolUp[pool] =>
       class # "terminating" /\ TagValue(tags, LabelInstanceSize) \in offered

(* Edits by users and by the node class controllers -----------------------*)

SetClass ==
  /\ class # "terminating"
  /\ class' \in ClassConditions \ {class}
  /\ UNCHANGED <<offered, poolUp>>

EditTypes == offered' \in SUBSET Types /\ UNCHANGED <<class, poolUp>>

DeletePool(p) ==
  /\ poolUp[p]
  /\ poolUp' = [poolUp EXCEPT ![p] = FALSE]
  /\ UNCHANGED <<class, offered>>
=============================================================================
