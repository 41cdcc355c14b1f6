----------------------------- MODULE SharedTool -----------------------------
(***************************************************************************)
(* What the launchers of a host want from the cache of the embedded bwrap: *)
(* the tool appears in it once, in one piece and for good, and a launcher  *)
(* is handed its path only then.  BwrapCache implements this.              *)
(***************************************************************************)
CONSTANT Launchers

VARIABLES
    usable,    \* the cache holds a bwrap that execve accepts
    holders    \* the launchers that have its path, or became it

vars == <<usable, holders>>

Init == usable = FALSE /\ holders = {}

\* The launcher that provides the tool has it.
Publish(l) ==
    /\ ~usable /\ usable' = TRUE
    /\ holders' = holders \cup {l}

Obtain(l) ==
    /\ usable /\ l \notin holders
    /\ holders' = holders \cup {l}
    /\ UNCHANGED usable

\* l was killed.
Drop(l) ==
    /\ l \in holders
    /\ holders' = holders \ {l}
    /\ UNCHANGED usable

Next == \E l \in Launchers : Publish(l) \/ Obtain(l) \/ Drop(l)

Spec == Init /\ [][Next]_vars
=============================================================================
