---------------------------- MODULE MCFizzServer ----------------------------
(* Model-checking instance of FizzServer: two peers (so a second           *)
(* connection can queue behind a live one and reconnect after it), two     *)
(* key-log labels and one collected-only label.                            *)
EXTENDS FizzServer, TLC

CONSTANTS p1, p2, chts, sts, rms

MCPeers == {p1, p2}
MCLogLabels == {chts, sts}
MCOtherLabels == {rms}

\* Peers are interchangeable: nothing in the handler orders them.
PeerSymmetry == Permutations(MCPeers)

=============================================================================
