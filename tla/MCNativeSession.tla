--------------------------- MODULE MCNativeSession ---------------------------
(* Instances of NativeSession for TLC.                                     *)
EXTENDS NativeSession, TLC

PeerSymmetry == Permutations(Names \ {Base})

=============================================================================
