---------------------------- MODULE MCViciClient ----------------------------
(***************************************************************************)
(* Instances of ViciClient for TLC: every constant is given by the cfg.    *)
(***************************************************************************)
EXTENDS ViciClient

=============================================================================
