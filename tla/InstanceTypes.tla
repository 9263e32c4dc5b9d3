---------------------------- MODULE InstanceTypes ---------------------------
(***************************************************************************)
(* The instance types of a class: how CloudProvider parses them, chooses   *)
(* one for a claim, and how GenerateVMSpec sizes the machine by it.        *)
(* A quantity is [n, unit], the text of the spec.  CPU and pods are in     *)
(* thousandths, memory and storage in units of 64 bytes: TLC's integers    *)
(* have 32 bits.                                                           *)
(***************************************************************************)
EXTENDS Integers, Sequences

Bytes64InGi == 16777216
Bytes64InMB == 15625       \* 10^6 bytes
Bytes64InMiB == 16384
Bytes64InKiB == 16

CeilDiv(a, b) == (a + b - 1) \div b

\* Multiples of 64 bytes; exponents and other units are left out.
SizeUnits ==
  [Ki |-> Bytes64InKiB, Mi |-> Bytes64InMiB, Gi |-> Bytes64InGi,
   M |-> Bytes64InMB, G |-> 1000 * Bytes64InMB]

\* resource.ParseQuantity.
Parses(q) == q.unit \in {"", "m"} \cup DOMAIN SizeUnits
Milli(q) ==
  IF q.unit \in DOMAIN SizeUnits THEN q.n * SizeUnits[q.unit] * 64000
  ELSE IF q.unit = "m" THEN q.n
  ELSE q.n * 1000
Bytes64(q) ==
  IF q.unit \in DOMAIN SizeUnits THEN q.n * SizeUnits[q.unit]
  ELSE IF q.unit = "m" THEN CeilDiv(q.n, 64000)
  ELSE CeilDiv(q.n, 64)

ToLower(os) == IF os = "Linux" THEN "linux" ELSE os

\* The unit "Gi" is cut off, so "16" and "16Gi" give the same name.
ToCPITypeFormat(cpu, mem, os) ==
  <<cpu.n, cpu.unit, mem.n, IF mem.unit = "Gi" THEN "" ELSE mem.unit, os>>

\* resource.MustParse of a malformed or missing quantity panics.
Panics(types) ==
  \E i \in DOMAIN types : \E f \in {"cpu", "memory", "maxPods"} : ~ Parses(types[i][f])

GiToByte(size) == size * Bytes64InGi

\* The types as core sees them.  Arch and region of the spec are not used.
InstanceTypesFromNodeClass(types, diskSize) ==
  [i \in DOMAIN types |->
     LET t == types[i]
         os == ToLower(t.os)
         name == ToCPITypeFormat(t.cpu, t.memory, os)
     IN [name |-> name,
         requirements |-> [type |-> {name}, arch |-> {"amd64"}, os |-> {os}],
         capacity |-> [cpu |-> Milli(t.cpu), memory |-> Bytes64(t.memory),
                       pods |-> Milli(t.maxPods), storage |-> GiToByte(diskSize)],
         offering |-> [zone |-> {t.zone}]]]

\* Requirements map keys to the values they admit; only common keys count.
Compatible(reqs, other) ==
  \A k \in DOMAIN reqs \cap DOMAIN other : reqs[k] \cap other[k] # {}

\* resources.Fits: a negative capacity holds nothing, a missing one is zero.
Fits(requests, capacity) ==
  /\ \A r \in DOMAIN capacity : capacity[r] >= 0
  /\ \A r \in DOMAIN requests : requests[r] <= IF r \in DOMAIN capacity THEN capacity[r] ELSE 0

\* resolveInstanceTypes: the places of the suitable ones in the list.
ResolveInstanceTypes(claim, types) ==
  { i \in DOMAIN types :
      /\ Compatible(claim.reqs, types[i].requirements)
      /\ Compatible(claim.reqs, types[i].offering)
      /\ Fits(claim.requests, types[i].capacity) }

\* Mutant of NumCPUs: the fraction is cut off.
MutantWholeCPUs(instanceType) == instanceType.capacity.cpu \div 1000

\* Quantity.Value and Quantity.ScaledValue round up.
NumCPUs(instanceType) == CeilDiv(instanceType.capacity.cpu, 1000)

\* Decimal megabytes, which vSphere takes as MiB.
MemoryMB(instanceType) == CeilDiv(instanceType.capacity.memory, Bytes64InMB)
=============================================================================
