---------------------------- MODULE MCPeerTable ----------------------------
(***************************************************************************)
(* One node, and what another one makes of its table.                      *)
(***************************************************************************)
EXTENDS PeerTable

CONSTANTS self, a, e, c1, c2

OneOther == {a}
SelfAndOther == {self, a}
OneInbound == {e}
Nobody == {}
OneConn == {c1}
TwoConns == {c1, c2}
============================================================================
