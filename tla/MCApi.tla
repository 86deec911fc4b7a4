------------------------------- MODULE MCApi -------------------------------
(***************************************************************************)
(* A caller of a node behind its rate limiter.                             *)
(***************************************************************************)
EXTENDS Api, TLC

CONSTANTS a, u1, k1, proxy

OneCaller == {a}
OneName == {u1}
OneKey == {k1}
OneClient == {proxy}
============================================================================
