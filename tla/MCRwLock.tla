------------------------------- MODULE MCRwLock -------------------------------
(* Instances of RwLock for TLC.                                              *)
EXTENDS RwLock, TLC

CONSTANTS c1, c2, c3
=============================================================================
