------------------------------- MODULE Drift -------------------------------
(***************************************************************************)
(* pkg/cloudprovider/drift.go and CloudProvider.IsDrifted, as operators on *)
(* the annotations of a claim and of its class: hash is the class hash,    *)
(* hv the hash version under which it was computed.                        *)
(***************************************************************************)
EXTENDS Integers

\* An annotation that is missing.
NoHash == 0
NoVersion == "none"

\* Answers: no reason, the reason, or an error, which core only retries.
NotDrifted == "no"
NodeClassDrift == "class"
DriftError == "error"

\* staticFieldsDrifted: hashes are compared only when both sides have one,
\* of the same version.
StaticFieldsDrifted(nodeClaim, nodeClass) ==
  /\ nodeClass.hash # NoHash /\ nodeClaim.hash # NoHash
  /\ nodeClass.hv # NoVersion /\ nodeClaim.hv # NoVersion
  /\ nodeClass.hv = nodeClaim.hv
  /\ nodeClass.hash # nodeClaim.hash

\* isNodeClassDrifted returns the reason together with an error, and so its
\* caller returns the error only.
IsNodeClassDrifted(nodeClaim, nodeClass) ==
  IF StaticFieldsDrifted(nodeClaim, nodeClass) THEN DriftError ELSE NotDrifted

\* resolveNodeClassFromNodePool finds it; a terminating class counts as not found.
ResolveNodeClassFromNodePool(classExists, nodeClass) == classExists /\ ~ nodeClass.deleting

\* Mutant of IsDrifted: a terminating class is left to its finalizer.
MutantTerminatingIgnored(nodeClaim, poolLeadsToClass, classExists, nodeClass) ==
  IF ~ poolLeadsToClass \/ (classExists /\ nodeClass.deleting) THEN NotDrifted
  ELSE IF ~ classExists THEN NodeClassDrift
  ELSE IsNodeClassDrifted(nodeClaim, nodeClass)

\* Mutant of IsDrifted: a pool that is not found is treated as its class is.
MutantNoPoolIsDrift(nodeClaim, poolLeadsToClass, classExists, nodeClass) ==
  IF ~ poolLeadsToClass \/ ~ ResolveNodeClassFromNodePool(classExists, nodeClass) THEN NodeClassDrift
  ELSE IsNodeClassDrifted(nodeClaim, nodeClass)

\* IsDrifted: a claim without pool label, a pool that is not found or has no
\* class reference say nothing; a class that is gone or terminating is drift.
IsDrifted(nodeClaim, poolLeadsToClass, classExists, nodeClass) ==
  IF ~ poolLeadsToClass THEN NotDrifted
  ELSE IF ~ ResolveNodeClassFromNodePool(classExists, nodeClass) THEN NodeClassDrift
  ELSE IsNodeClassDrifted(nodeClaim, nodeClass)
=============================================================================
