---------------------------- MODULE MCChainSync ----------------------------
(***************************************************************************)
(* Small networks for ChainSync.  Nonces are 0 and 1 and a digest's zeros  *)
(* are its nonce, so that with Difficulty 1 the miner has to search.       *)
(***************************************************************************)
EXTENDS ChainSync

CONSTANTS n1, n2, n3, m1, m2, m3

MCLeadingZeros(hash) == hash[3]
MCNonce == 0..1

TwoNodes == {n1, n2}
ThreeNodes == {n1, n2, n3}
OneMessage == {m1}
TwoMessages == {m1, m2}
ThreeMessages == {m1, m2, m3}
NoNode == {}

PairDial == {<<n2, n1>>}
MeshDial == {<<n2, n1>>, <<n3, n1>>, <<n3, n2>>}
StarDial == {<<n2, n1>>, <<n3, n1>>}
NoDial == {}
============================================================================
