---------------------------- MODULE MCSaLifecycle ----------------------------
(* Instances of SaLifecycle for TLC.                                       *)
EXTENDS SaLifecycle

=============================================================================
