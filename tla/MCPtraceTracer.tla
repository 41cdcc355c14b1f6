--------------------------- MODULE MCPtraceTracer ---------------------------
(* Small instances of PtraceTracer for TLC.                                *)
EXTENDS PtraceTracer, TLC

\* No process but Root is told from another.
Siblings == Permutations(Procs \ {Root})
=============================================================================
