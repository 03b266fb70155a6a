---------------------------- MODULE MCPeerRead -----------------------------
(* Model-checking instance of PeerRead: two read commands, one other peer. *)
EXTENDS PeerRead, TLC

CONSTANTS c1, c2, p1, p2

MCCmds == {c1, c2}
MCOthers == {p2}

\* Read commands are interchangeable: no action tells one from another.
CmdSymmetry == Permutations(MCCmds)

\* One read command, for the liveness runs (symmetry is not used there).
MCOneCmd == {c1}
\* The state without the linearizability ghosts acked and startAcked,
\* which no action reads: runs whose properties do not mention them tell
\* states apart by this view.
MCViewNoGhosts ==
    <<peerVars, storeVars, raftVars,
      <<status, done, now, destroyed, panicked, suspectAt, ackAt>>>>
====
