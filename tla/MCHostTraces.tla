----------------------------- MODULE MCHostTraces -----------------------------
(* A small instance of HostTraces for TLC: two traces of which a later one  *)
(* meets what an earlier one left, and a combined trace on the host and in  *)
(* an image.                                                                *)
EXTENDS HostTraces

OnHost(kind)  == [kind |-> kind, inImage |-> FALSE]
InImage(kind) == [kind |-> kind, inImage |-> TRUE]

MCPlans == { <<OnHost("ptrace"), OnHost("ptrace")>>,
             <<OnHost("fanotify"), OnHost("ptrace")>>,
             <<OnHost("combined")>>,
             <<InImage("combined")>> }
=============================================================================
