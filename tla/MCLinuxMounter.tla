---------------------------- MODULE MCLinuxMounter ----------------------------
(* TLC instances of the node mounter; all PVs hash to one staging mutex.   *)
EXTENDS LinuxMounter

CONSTANT s1

MCStripe == [v \in PVs |-> s1]
=============================================================================
