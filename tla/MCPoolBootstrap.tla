-------------------------- MODULE MCPoolBootstrap --------------------------
(* Small instances of PoolBootstrap for TLC.                                 *)
EXTENDS PoolBootstrap, TLC

CONSTANTS s1, s2, c1, c2
=============================================================================
