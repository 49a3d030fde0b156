---------------------------- MODULE MCFaultRelay ----------------------------
(* Instances of FaultRelay.                                                *)
EXTENDS FaultRelay
=============================================================================
