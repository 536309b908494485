---------------------------- MODULE MCVmManager ----------------------------
(* Instances of VmManager for TLC.  The TAP of a VM id is named by the id  *)
(* itself: distinct ids have distinct names.                               *)
EXTENDS VmManager

MCTapName == [v \in VmIds |-> v]
=============================================================================
