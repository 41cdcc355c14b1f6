------------------------------- MODULE Tracees -------------------------------
(***************************************************************************)
(* The processes that sidebundle traces, and what ptrace(2) and wait(2) do *)
(* to them: sidebundle-closure/src/trace/linux.rs uses that kernel         *)
(* interface, PtraceTracer models the code on the other side of it.        *)
(*                                                                         *)
(* A traced process runs, stops and waits to be resumed.  Its stops are    *)
(*   sigstop   the SIGSTOP a new tracee starts with;                       *)
(*   enter     syscall-enter,  leave  syscall-exit (TRACESYSGOOD);         *)
(*   ev_fork   PTRACE_EVENT_FORK, VFORK or CLONE: forked[p] is the message;*)
(*   ev_exec   PTRACE_EVENT_EXEC,  ev_exit  PTRACE_EVENT_EXIT;             *)
(*   signal    a signal on its way to the process.                         *)
(* SIGKILL overrides all of them.  A child created by a tracee is traced   *)
(* from its first instruction (PTRACE_O_TRACEFORK and its relatives) and   *)
(* the kernel promises no order between the child's SIGSTOP and the        *)
(* parent's event.                                                         *)
(***************************************************************************)
EXTENDS Naturals

CONSTANTS
    Procs,      \* process and thread ids
    Root,       \* the process run_ptrace forks
    Paths,      \* path arguments of system calls
    Command,    \* the path of the program to trace
    NoPath,     \* the path of a call that takes none
    NoProc,     \* no process
    Kinds,      \* the kinds of call the traced programs make
    ExitCodes,  \* the statuses a traced program exits with
    MaxCalls,   \* bound: calls per process besides exec at launch and exit
    MaxKills,   \* bound: SIGKILLs in a behaviour
    MaxSignals  \* bound: other signals in a behaviour

ASSUME RootIsProc == Root \in Procs /\ NoProc \notin Procs
ASSUME CommandIsPath == Command \in Paths /\ NoPath \notin Paths
ASSUME KindsKnown == Kinds \subseteq {"probe", "dirprobe", "exec", "fork", "await"}
ASSUME CodesKnown == ExitCodes \subseteq {"0", "40", "41", "42"}
ASSUME BoundsAreNat == MaxCalls \in Nat /\ MaxKills \in Nat /\ MaxSignals \in Nat

VARIABLES
    at,         \* at[p]: where process p is
    call,       \* call[p]: its current or last system call
    ok,         \* ok[p]: that call returned a value that is not negative
    code,       \* code[p]: its exit status, once it has one
    forked,     \* forked[p]: the child its last fork created
    launch,     \* how far Root is in running the command
    budget,     \* budget[p], kills, signals: what is left of the bounds
    kills,
    signals,
    touched     \* touched[p]: history of what a perfect trace would report of p

traceeVars == <<at, call, ok, code, forked, launch, budget, kills, signals, touched>>

Stops   == {"sigstop", "enter", "leave", "ev_fork", "ev_exec", "ev_exit", "signal"}
Running == {"setup", "born", "user", "kernel", "return", "dying", "exiting"}
Gone    == {"unborn", "zombie", "reaped"}
Places  == Stops \cup Running \cup Gone \cup {"free"}
Killing == {"sigkill", "signal"}          \* the endings WIFSIGNALED tells
Codes   == Killing \cup {"none", "0", "40", "41", "42"}

\* dirprobe: a probe whose path is relative to a directory descriptor.
Probes  == [kind : {"probe", "dirprobe"}, path : Paths]
Execs   == [kind : {"exec"}, path : Paths]
Others  == [kind : {"fork", "await", "exit"}, path : {NoPath}]
Call    == Probes \cup Execs \cup Others
ExitCall == [kind |-> "exit", path |-> NoPath]
Access  == Paths \X {"open", "exec"}

Alive(p) == at[p] \in Stops \cup Running

\* waitpid has something to say of p: it is stopped, or dead and not reaped.
Reportable(p) == at[p] \in Stops \cup {"zombie"}

\* Where ptrace(PTRACE_SYSCALL) lets a stopped process go on.
Resumed == [sigstop |-> "user",   enter   |-> "kernel", leave  |-> "user",
            ev_fork |-> "return", ev_exec |-> "return", ev_exit |-> "exiting",
            signal  |-> "user"]

TraceesTypeOK ==
    /\ at \in [Procs -> Places]
    /\ call \in [Procs -> Call]
    /\ ok \in [Procs -> BOOLEAN]
    /\ code \in [Procs -> Codes]
    /\ forked \in [Procs -> Procs \cup {NoProc}]
    /\ launch \in {"starting", "failed", "running"}
    /\ budget \in [Procs -> 0..MaxCalls]
    /\ kills \in 0..MaxKills
    /\ signals \in 0..MaxSignals
    /\ touched \in [Procs -> SUBSET Access]

TraceesInit ==
    /\ at = [p \in Procs |-> IF p = Root THEN "setup" ELSE "unborn"]
    /\ call = [p \in Procs |-> ExitCall]
    /\ ok = [p \in Procs |-> FALSE]
    /\ code = [p \in Procs |-> "none"]
    /\ forked = [p \in Procs |-> NoProc]
    /\ launch = "starting"
    /\ budget = [p \in Procs |-> MaxCalls]
    /\ kills = MaxKills
    /\ signals = MaxSignals
    /\ touched = [p \in Procs |-> {}]

-----------------------------------------------------------------------------
(* ptrace_child_main: chroot, PTRACE_TRACEME, SIGSTOP, execve.             *)

SetupDone ==
    /\ at[Root] = "setup"
    /\ at' = [at EXCEPT ![Root] = "sigstop"]
    /\ UNCHANGED <<call, ok, code, forked, launch, budget, kills, signals, touched>>

\* chroot fails (40) or PTRACE_TRACEME is refused (41): an untraced exit.
SetupFails ==
    /\ at[Root] = "setup"
    /\ \E c \in {"40", "41"} : code' = [code EXCEPT ![Root] = c]
    /\ at' = [at EXCEPT ![Root] = "zombie"]
    /\ UNCHANGED <<call, ok, forked, launch, budget, kills, signals, touched>>

\* The calls p can make next.  Root execs the command before anything else,
\* and only exits (42) when that failed.
NextCalls(p) ==
    IF p = Root /\ launch = "starting" THEN {[kind |-> "exec", path |-> Command]}
    ELSE IF (p = Root /\ launch = "failed") \/ budget[p] = 0 THEN {ExitCall}
    ELSE {ExitCall} \cup {c \in Call : c.kind \in Kinds}

-----------------------------------------------------------------------------
(* The life of a traced process.                                           *)

StopAtBirth(p) ==
    /\ at[p] = "born"
    /\ at' = [at EXCEPT ![p] = "sigstop"]
    /\ UNCHANGED <<call, ok, code, forked, launch, budget, kills, signals, touched>>

\* p makes a system call and stops at its entry.  An execve counts as
\* touched from here on: the report names commands that were only attempted.
EnterCall(p) ==
    /\ at[p] = "user"
    /\ \E c \in NextCalls(p) :
         /\ call' = [call EXCEPT ![p] = c]
         /\ touched' = IF c.kind = "exec"
                       THEN [touched EXCEPT ![p] = @ \cup {<<c.path, "exec">>}]
                       ELSE touched
         /\ budget' = IF c.kind = "exit" \/ (p = Root /\ launch = "starting") THEN budget
                      ELSE [budget EXCEPT ![p] = @ - 1]
    /\ at' = [at EXCEPT ![p] = "enter"]
    /\ UNCHANGED <<ok, code, forked, launch, kills, signals>>

\* open, stat, readlink and their relatives.
Probe(p) ==
    /\ at[p] = "kernel"
    /\ call[p].kind \in {"probe", "dirprobe"}
    /\ \E r \in BOOLEAN :
         /\ ok' = [ok EXCEPT ![p] = r]
         /\ touched' = IF r /\ call[p].kind = "probe"
                       THEN [touched EXCEPT ![p] = @ \cup {<<call[p].path, "open">>}]
                       ELSE touched
    /\ at' = [at EXCEPT ![p] = "leave"]
    /\ UNCHANGED <<call, code, forked, launch, budget, kills, signals>>

\* fork, vfork or clone: the child c can run at once.
Fork(p) ==
    /\ at[p] = "kernel"
    /\ call[p].kind = "fork"
    /\ \/ \E c \in {q \in Procs : at[q] = "unborn"} :
            /\ at' = [at EXCEPT ![p] = "ev_fork", ![c] = "born"]
            /\ forked' = [forked EXCEPT ![p] = c]
            /\ UNCHANGED ok
       \/ /\ at' = [at EXCEPT ![p] = "leave"]
          /\ ok' = [ok EXCEPT ![p] = FALSE]
          /\ UNCHANGED forked
    /\ UNCHANGED <<call, code, launch, budget, kills, signals, touched>>

Exec(p) ==
    /\ at[p] = "kernel"
    /\ call[p].kind = "exec"
    /\ \/ /\ at' = [at EXCEPT ![p] = "ev_exec"]
          /\ launch' = IF p = Root /\ launch = "starting" THEN "running" ELSE launch
          /\ UNCHANGED ok
       \/ /\ at' = [at EXCEPT ![p] = "leave"]
          /\ ok' = [ok EXCEPT ![p] = FALSE]
          /\ launch' = IF p = Root /\ launch = "starting" THEN "failed" ELSE launch
    /\ UNCHANGED <<call, code, forked, budget, kills, signals, touched>>

\* A call that waits for what the parent does after its fork has returned:
\* a read from its pipe, a futex it holds.
Await(p) ==
    /\ at[p] = "kernel"
    /\ call[p].kind = "await"
    /\ \A q \in Procs : ~(at[q] = "ev_fork" /\ forked[q] = p)
    /\ at' = [at EXCEPT ![p] = "leave"]
    /\ ok' = [ok EXCEPT ![p] = TRUE]
    /\ UNCHANGED <<call, code, forked, launch, budget, kills, signals, touched>>

Exit(p) ==
    /\ at[p] = "kernel"
    /\ call[p].kind = "exit"
    /\ \E c \in IF p = Root /\ launch = "failed" THEN {"42"} ELSE ExitCodes :
         code' = [code EXCEPT ![p] = c]
    /\ at' = [at EXCEPT ![p] = "ev_exit"]
    /\ UNCHANGED <<call, ok, forked, launch, budget, kills, signals, touched>>

\* The exit stop of a fork or execve that succeeded.
Return(p) ==
    /\ at[p] = "return"
    /\ at' = [at EXCEPT ![p] = "leave"]
    /\ ok' = [ok EXCEPT ![p] = TRUE]
    /\ UNCHANGED <<call, code, forked, launch, budget, kills, signals, touched>>

\* A forwarded signal's default action ends the process.
Die(p) ==
    /\ at[p] = "dying"
    /\ at' = [at EXCEPT ![p] = "ev_exit"]
    /\ code' = [code EXCEPT ![p] = "signal"]
    /\ UNCHANGED <<call, ok, forked, launch, budget, kills, signals, touched>>

Finish(p) ==
    /\ at[p] = "exiting"
    /\ at' = [at EXCEPT ![p] = "zombie"]
    /\ UNCHANGED <<call, ok, code, forked, launch, budget, kills, signals, touched>>

\* Steps a process that is not stopped takes sooner or later by itself.
TraceeStep(p) ==
    \/ StopAtBirth(p) \/ EnterCall(p) \/ Probe(p) \/ Fork(p) \/ Exec(p) \/ Await(p)
    \/ Exit(p) \/ Return(p) \/ Die(p) \/ Finish(p)

Signal(p) ==
    /\ at[p] = "user" /\ signals > 0
    /\ at' = [at EXCEPT ![p] = "signal"]
    /\ signals' = signals - 1
    /\ UNCHANGED <<call, ok, code, forked, launch, budget, kills, touched>>

\* SIGKILL: no stop, and a stop the tracer has not read yet is forgotten.
Kill(p) ==
    /\ Alive(p) /\ kills > 0
    /\ at' = [at EXCEPT ![p] = "zombie"]
    /\ code' = [code EXCEPT ![p] = "sigkill"]
    /\ kills' = kills - 1
    /\ UNCHANGED <<call, ok, forked, launch, budget, signals, touched>>

TraceesNext ==
    \/ SetupDone \/ SetupFails
    \/ \E p \in Procs : TraceeStep(p) \/ Signal(p) \/ Kill(p)
=============================================================================
