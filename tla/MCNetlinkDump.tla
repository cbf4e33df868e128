---------------------------- MODULE MCNetlinkDump ----------------------------
(* Three positions, one of them of another family, in datagrams of up to two. *)
EXTENDS NetlinkDump

McEntries == 1 .. 3
McOtherFamily == {2}

=============================================================================
