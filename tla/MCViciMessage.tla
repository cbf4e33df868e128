---------------------------- MODULE MCViciMessage ----------------------------
(* Instances of ViciMessage for TLC.                                       *)
EXTENDS ViciMessage

\* One event of every small length and one that holds two SAs; or two events, each
\* long enough for one.
MCPackets == {<<n>> : n \in 0 .. 12 \cup {25}} \cup {<<16, 9>>, <<9, 16>>, <<>>}

=============================================================================
