----------------------------- MODULE MCVLifecycle -----------------------------
(* Instances of VLifecycle for TLC.                                          *)
EXTENDS VLifecycle, TLC

CONSTANTS r1, r2, p1, p2

\* Three vcpus, two of them on one cpu.
ThreeOnTwo == <<p1, p1, p2>>
\* Two vcpus on a cpu each.
TwoOnTwo == <<p1, p2>>
=============================================================================
