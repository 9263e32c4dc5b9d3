------------------------------ MODULE Vsphere ------------------------------
(***************************************************************************)
(* The vCenter inventory as the provider drives it through govmomi.  This  *)
(* is external to the repository: each operator says what the task or the  *)
(* property read that the provider waits for does, and nothing more.       *)
(*                                                                         *)
(* A virtual machine is identified by its BIOS UUID, the value that        *)
(* becomes a NodeClaim's providerID.  The set Uuids bounds how many        *)
(* machines can ever be cloned.                                            *)
(***************************************************************************)
CONSTANT Uuids

VARIABLES
  power,    \* "free" (not cloned yet), "off", "on" or "destroyed"
  vmName,   \* inventory name: <<cluster, owner>>, or <<>> before the clone
  vmTags,   \* attached tags: a set of <<category, tag>> pairs
  old       \* config.createDate lies more than five minutes in the past

vsphereVars == <<power, vmName, vmTags, old>>

PowerStates == {"free", "off", "on", "destroyed"}

Exists(u) == power[u] \in {"off", "on"}

\* vCenter refuses a second machine with the same name in one folder.
NameTaken(name) == \E u \in Uuids : Exists(u) /\ vmName[u] = name

CloneVM(u, name) ==
  /\ power[u] = "free"
  /\ ~ NameTaken(name)
  /\ power'  = [power EXCEPT ![u] = "off"]
  /\ vmName' = [vmName EXCEPT ![u] = name]

PowerOnVM(u) == power[u] = "off" /\ power' = [power EXCEPT ![u] = "on"]

\* PowerOffVM_Task fails with InvalidPowerState unless the machine runs.
PowerOffVM(u) == power[u] = "on" /\ power' = [power EXCEPT ![u] = "off"]

\* Destroy_Task fails with InvalidPowerState while the machine runs.
DestroyVM(u) == power[u] = "off" /\ power' = [power EXCEPT ![u] = "destroyed"]

\* TagInstance: categories and tags are created as needed, then attached.  The
\* key of the zone label is renamed here and back again when tags are read.
AttachTags(u, tags) == vmTags' = [vmTags EXCEPT ![u] = @ \cup tags]

\* The value of one tag category; a map read gives "" for a missing key.
TagValue(tags, key) ==
  IF \E p \in tags : p[1] = key THEN (CHOOSE p \in tags : p[1] = key)[2] ELSE ""
=============================================================================
