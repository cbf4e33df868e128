------------------------- MODULE MCPeerRegistration -------------------------
(* Instances of PeerRegistration for TLC.                                  *)
EXTENDS PeerRegistration

=============================================================================
