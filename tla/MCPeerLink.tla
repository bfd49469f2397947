----------------------------- MODULE MCPeerLink -----------------------------
EXTENDS PeerLink

CONSTANTS f1, f2, f3

Frames == {f1, f2, f3}

\* One from the start, and one for each of the attempts.
Conns == 1..7
=============================================================================
