---------------------------- MODULE MCLifecycle ----------------------------
(***************************************************************************)
(* The loop that dials and one that does not, one connection at a time,    *)
(* discovery turned on twice.                                              *)
(***************************************************************************)
EXTENDS Lifecycle

CONSTANTS c1, i1, i2

OneConn == {c1}
TwoInstances == {i1, i2}
OneInstance == {i1}
TwoTickers == {"probePeers", "reconnectToKnownPeers"}
OneTicker == {"reconnectToKnownPeers"}
============================================================================
