--------------------------- MODULE MCAlgorithmRun ---------------------------
(* Instances of AlgorithmRun for TLC.                                      *)
EXTENDS AlgorithmRun

=============================================================================
