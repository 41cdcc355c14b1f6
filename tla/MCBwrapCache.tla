---------------------------- MODULE MCBwrapCache ----------------------------
(* Small instances of BwrapCache for TLC.                                  *)
EXTENDS BwrapCache

CONSTANTS l1, l2, l3, p1, p2

\* l2 has the pid of l1.
TwoPids == [l \in Launchers |-> IF l = l3 THEN p2 ELSE p1]
=============================================================================
