-------------------------- MODULE AbstractProvider --------------------------
(***************************************************************************)
(* What Karpenter core may rely on: the contract of a cloud provider for   *)
(* one claim, without caches, collectors, tasks or crashes.  A launched    *)
(* claim has exactly one machine; the machine is stopped and destroyed     *)
(* only after the claim was deleted, in that order; and the claim is       *)
(* forgotten only when nothing recorded for it is left.                    *)
(***************************************************************************)
CONSTANT Claims

VARIABLES
  claim,    \* "absent", "live", "deleting" or "gone"
  machine   \* of the claim: "none", "running", "stopped", "destroyed", or
            \* "unknown" when the launch recorded no usable identity

avars == <<claim, machine>>

AInit ==
  /\ claim = [c \in Claims |-> "absent"]
  /\ machine = [c \in Claims |-> "none"]

ClaimMoves(c, from, to) ==
  claim[c] = from /\ claim' = [claim EXCEPT ![c] = to] /\ UNCHANGED machine

MachineMoves(c, from, to) ==
  machine[c] = from /\ machine' = [machine EXCEPT ![c] = to] /\ UNCHANGED claim

AAdd(c) == ClaimMoves(c, "absent", "live")
ADelete(c) == ClaimMoves(c, "live", "deleting")

ALaunch(c) ==
  /\ claim[c] \in {"live", "deleting"}
  /\ MachineMoves(c, "none", "running") \/ MachineMoves(c, "none", "unknown")

AStop(c) == claim[c] = "deleting" /\ MachineMoves(c, "running", "stopped")
ADestroy(c) == claim[c] = "deleting" /\ MachineMoves(c, "stopped", "destroyed")

AForget(c) ==
  /\ machine[c] \in {"none", "unknown", "destroyed"}
  /\ ClaimMoves(c, "deleting", "gone")

ANext == \E c \in Claims :
  AAdd(c) \/ ADelete(c) \/ ALaunch(c) \/ AStop(c) \/ ADestroy(c) \/ AForget(c)

ASpec == AInit /\ [][ANext]_avars
=============================================================================
