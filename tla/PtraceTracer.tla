----------------------------- MODULE PtraceTracer -----------------------------
(***************************************************************************)
(* parent_trace, the ptrace backend of sidebundle's runtime tracing        *)
(* (sidebundle-closure/src/trace/linux.rs): one loop that waits for any    *)
(* tracee, handles the status it gets and resumes the tracee, until no     *)
(* tracee is left.  What the loop keeps per process (entering, pending)    *)
(* has to agree with where the process is (Tracees), although statuses of  *)
(* different processes arrive in any order.                                *)
(***************************************************************************)
EXTENDS Tracees

CONSTANT BadPaths   \* paths read_string cannot turn into a String
ASSUME BadPathsArePaths == BadPaths \subseteq Paths /\ Command \notin BadPaths

VARIABLES
    tpc,         \* the loop: "wait", "handle", "attach" or "done"
    got,         \* the status waitpid returned: a process and its stop
    tracked,     \* tracker.tracees
    rootStatus,  \* tracker.root_status
    entering,    \* entering[p]: the next syscall stop of p is taken as an entry
    pending,     \* pending[p]: the probe whose result is awaited
    report,      \* TraceReport.files
    outcome,     \* what parent_trace returned
    dropped,     \* history: the status resume_new_tracee dropped of a process
    untold       \* history: the children whose fork event it dropped

tracerVars == <<tpc, got, tracked, rootStatus, entering, pending, report, outcome, dropped, untold>>
vars == <<traceeVars, tracerVars>>

NoCall == ExitCall      \* the absence of a pending probe: never pending itself

\* entering.entry(pid).or_insert(true)
FirstIsExit  == FALSE   \* mutant: a new tracee is taken to be inside a call
FirstIsEntry == TRUE

Failures == {"chroot", "denied", "exec", "unexpected", "nix"}

TypeOK ==
    /\ TraceesTypeOK
    /\ tpc \in {"wait", "handle", "attach", "done"}
    /\ got \in [pid : Procs, st : Stops \cup {"zombie"}]
    /\ tracked \subseteq Procs
    /\ rootStatus \in Codes \ Killing
    /\ entering \in [Procs -> BOOLEAN]
    /\ pending \in [Procs -> Probes \cup {NoCall}]
    /\ report \subseteq Access
    /\ outcome \in {"running", "ok"} \cup Failures
    /\ dropped \in [Procs -> Stops \cup {"none", "zombie", "reaped"}]
    /\ untold \subseteq Procs

Init ==
    /\ TraceesInit
    /\ tpc = "wait"
    /\ got = [pid |-> Root, st |-> "sigstop"]
    /\ tracked = {Root}
    /\ rootStatus = "none"
    /\ entering = [p \in Procs |-> FirstIsEntry]
    /\ pending = [p \in Procs |-> NoCall]
    /\ report = {}
    /\ outcome = "running"
    /\ dropped = [p \in Procs |-> "none"]
    /\ untold = {}

-----------------------------------------------------------------------------
Finished(result) == tpc' = "done" /\ outcome' = result
Loop             == tpc' = "wait" /\ UNCHANGED outcome

\* The status in hand still describes its process: no SIGKILL came since.
Held == at[got.pid] = got.st

\* ptrace::syscall(pid, None), with ptrace's other effects on p left out.
Resume(p) == at' = [at EXCEPT ![p] = Resumed[at[p]]]

KeepTracees ==
    UNCHANGED <<call, ok, code, forked, launch, budget, kills, signals, touched>>

\* waitpid(None) returns a status; a zombie is reaped by it.
Wait(p) ==
    /\ tpc = "wait" /\ Reportable(p)
    /\ tpc' = "handle"
    /\ got' = [pid |-> p, st |-> at[p]]
    /\ at' = IF at[p] = "zombie" THEN [at EXCEPT ![p] = "reaped"] ELSE at
    /\ KeepTracees
    /\ UNCHANGED <<tracked, rootStatus, entering, pending, report, outcome, dropped, untold>>

\* The result of a trace whose tracees are gone, by the root's exit status.
\* "none": the root was ended by a signal, or never reported an exit.
FinalResultNoExec(status) ==                      \* mutant: 42 is forgotten
    CASE status = "40" -> "chroot"
      [] status = "41" -> "denied"
      [] OTHER -> "ok"
FinalResult(status) ==
    CASE status = "40" -> "chroot"
      [] status = "41" -> "denied"
      [] status = "42" -> "exec"
      [] OTHER -> "ok"

\* waitpid(None) fails with ECHILD.
NoChildIgnored == FALSE                           \* mutant: the loop goes on waiting
NoChild ==
    /\ tpc = "wait"
    /\ \A p \in Procs : at[p] \in {"unborn", "reaped", "free"}
    /\ Finished(FinalResult(rootStatus))
    /\ UNCHANGED <<traceeVars, got, tracked, rootStatus, entering, pending, report, dropped, untold>>

Handling(stops) == tpc = "handle" /\ got.st \in stops

\* A tracee killed after its stop was read: ptrace::getregs or
\* ptrace::syscall fails with ESRCH and ends the whole trace.
HandleLost ==
    /\ Handling(Stops) /\ ~Held
    /\ Finished("nix")
    /\ UNCHANGED <<traceeVars, got, tracked, rootStatus, entering, pending, report, dropped, untold>>

\* Stopped(pid, SIGSTOP), and the events that need no more than a resume.
HandleStop ==
    /\ Handling({"sigstop", "ev_exec", "ev_exit"}) /\ Held
    /\ tracked' = tracked \cup {got.pid}
    /\ Resume(got.pid)
    /\ Loop
    /\ KeepTracees
    /\ UNCHANGED <<got, rootStatus, entering, pending, report, dropped, untold>>

\* Stopped(pid, sig): the signal is forwarded, and may end the process.
HandleSignal ==
    /\ Handling({"signal"}) /\ Held
    /\ tracked' = tracked \cup {got.pid}
    /\ \E next \in {"user", "dying"} : at' = [at EXCEPT ![got.pid] = next]
    /\ Loop
    /\ KeepTracees
    /\ UNCHANGED <<got, rootStatus, entering, pending, report, dropped, untold>>

\* The path argument handle_syscall_regs takes from the registers.  A
\* successful execve has cleared them by the time of its exit stop.
PathArg(p) ==
    IF call[p].kind = "exec" /\ got.st = "leave" /\ ok[p] THEN NoPath ELSE call[p].path

\* PtraceSyscall(pid) taken as an entry: record an execve, note a probe.
HandleEntry ==
    LET p == got.pid IN
    /\ Handling({"enter", "leave"}) /\ Held
    /\ entering[p] /\ PathArg(p) \notin BadPaths
    /\ report' = IF PathArg(p) # NoPath /\ call[p].kind = "exec"
                 THEN report \cup {<<call[p].path, "exec">>} ELSE report
    /\ pending' = IF call[p].kind = "probe" THEN [pending EXCEPT ![p] = call[p]] ELSE pending
    /\ entering' = [entering EXCEPT ![p] = FALSE]
    /\ tracked' = tracked \cup {p}
    /\ Resume(p)
    /\ Loop
    /\ KeepTracees
    /\ UNCHANGED <<got, rootStatus, dropped, untold>>

\* rax at the stop in hand is not negative: -ENOSYS at every entry.
Unchecked == TRUE                                 \* mutant: the result is not looked at
Succeeded == got.st = "leave" /\ ok[got.pid]

\* PtraceSyscall(pid) taken as an exit: record the pending probe on success.
HandleReturn ==
    LET p == got.pid IN
    /\ Handling({"enter", "leave"}) /\ Held
    /\ ~entering[p]
    /\ report' = IF pending[p] # NoCall /\ Succeeded
                 THEN report \cup {<<pending[p].path, "open">>} ELSE report
    /\ pending' = [pending EXCEPT ![p] = NoCall]
    /\ entering' = [entering EXCEPT ![p] = TRUE]
    /\ tracked' = tracked \cup {p}
    /\ Resume(p)
    /\ Loop
    /\ KeepTracees
    /\ UNCHANGED <<got, rootStatus, dropped, untold>>

\* read_string fails: the tracee is detached and the trace ends.
HandleUnreadable ==
    LET p == got.pid IN
    /\ Handling({"enter", "leave"}) /\ Held
    /\ entering[p] /\ PathArg(p) \in BadPaths
    /\ tracked' = tracked \cup {p}
    /\ at' = [at EXCEPT ![p] = "free"]
    /\ Finished("nix")
    /\ KeepTracees
    /\ UNCHANGED <<got, rootStatus, entering, pending, report, dropped, untold>>

\* PTRACE_EVENT_FORK, VFORK, CLONE: the child becomes known.  ptrace::attach
\* on it fails (EPERM, ESRCH): the kernel attached it when it was created.
HandleForkUntracked ==                            \* mutant: no ensure_tracee(new_pid)
    /\ Handling({"ev_fork"}) /\ Held
    /\ tracked' = tracked \cup {got.pid}
    /\ tpc' = "attach"
    /\ UNCHANGED <<traceeVars, got, rootStatus, entering, pending, report, outcome, dropped, untold>>
HandleFork ==
    /\ Handling({"ev_fork"}) /\ Held
    /\ tracked' = tracked \cup {got.pid, forked[got.pid]}
    /\ tpc' = "attach"
    /\ UNCHANGED <<traceeVars, got, rootStatus, entering, pending, report, outcome, dropped, untold>>

\* resume_new_tracee(child), then ptrace::syscall on the parent.  waitpid
\* blocks until the child has a status and drops it, whatever it is; it
\* fails at once when the child has been reaped already.
ResumeNewTracee ==
    LET child == forked[got.pid] IN
    /\ tpc = "attach"
    /\ Reportable(child) \/ at[child] = "reaped"
    /\ LET next == IF at[child] \in Stops THEN Resumed[at[child]] ELSE "reaped" IN
       IF at[got.pid] = "ev_fork"
       THEN at' = [at EXCEPT ![child] = next, ![got.pid] = "return"] /\ Loop
       ELSE at' = [at EXCEPT ![child] = next] /\ Finished("nix")
    /\ dropped' = [dropped EXCEPT ![child] = at[child]]
    /\ untold' = IF at[child] = "ev_fork" THEN untold \cup {forked[child]} ELSE untold
    /\ KeepTracees
    /\ UNCHANGED <<got, tracked, rootStatus, entering, pending, report>>

\* tracker.on_exit, entering.remove, pending.remove
Forget(p, status) ==
    /\ tracked' = tracked \ {p}
    /\ rootStatus' = IF p = Root THEN status ELSE rootStatus
    /\ entering' = [entering EXCEPT ![p] = FirstIsEntry]
    /\ pending' = [pending EXCEPT ![p] = NoCall]

\* tracker.is_done()
IsDoneWithRoot(tracees) == Root \notin tracees    \* mutant: the root's end is the end
IsDone(tracees) == tracees = {}

\* What on_exit keeps of an end: a status, or None for a signal.
StatusOfAnyEnd(p) == code[p]                      \* mutant: a signal counts as a status
StatusOf(p) == IF code[p] \in Killing THEN "none" ELSE code[p]

HandleExited ==
    /\ Handling({"zombie"}) /\ code[got.pid] \notin Killing
    /\ Forget(got.pid, StatusOf(got.pid))
    /\ IF IsDone(tracked') THEN Finished(FinalResult(rootStatus')) ELSE Loop
    /\ UNCHANGED <<traceeVars, got, report, dropped, untold>>

HandleSignaled ==
    /\ Handling({"zombie"}) /\ code[got.pid] \in Killing
    /\ Forget(got.pid, StatusOf(got.pid))
    /\ IF IsDone(tracked') THEN Finished(IF got.pid = Root THEN "unexpected" ELSE "ok") ELSE Loop
    /\ UNCHANGED <<traceeVars, got, report, dropped, untold>>

TracerStep ==
    \/ \E p \in Procs : Wait(p)
    \/ NoChild \/ HandleLost \/ HandleStop \/ HandleSignal \/ HandleEntry \/ HandleReturn
    \/ HandleUnreadable \/ HandleFork \/ ResumeNewTracee \/ HandleExited \/ HandleSignaled

Next ==
    \/ TracerStep
    \/ TraceesNext /\ UNCHANGED tracerVars

Spec == Init /\ [][Next]_vars

\* The kernel schedules every process and the tracer's thread; a traced
\* program that never exits is outside what the loop can promise.
Fairness ==
    /\ WF_vars(TracerStep)
    /\ WF_vars((SetupDone \/ SetupFails) /\ UNCHANGED tracerVars)
    /\ \A p \in Procs : WF_vars(TraceeStep(p) /\ UNCHANGED tracerVars)

FairSpec == Spec /\ Fairness

-----------------------------------------------------------------------------
(* What the trace promises.                                                *)

\* The processes one of whose syscall stops the loop never saw.
Skewed == {p \in Procs : dropped[p] \in {"enter", "leave"}}

\* The children the loop was never told of: the fork event was dropped by
\* resume_new_tracee, or a SIGKILL came before it was read.
Unannounced == untold \cup {forked[q] : q \in {p \in Procs : code[p] = "sigkill"}}

\* Whatever the report names, some tracee probed successfully or tried to
\* execute: a result is never paired with another process's path, with an
\* earlier call of the same process, or with a failed probe.
ReportSound == report \subseteq UNION {touched[p] : p \in Procs}

\* entering[p] says what the next syscall stop of p is, for every process
\* that did not lose a syscall stop in resume_new_tracee.
PhaseInStep ==
    \A p \in Procs \ Skewed :
        /\ at[p] \in {"user", "enter"} => entering[p]
        /\ at[p] \in {"kernel", "return", "ev_fork", "ev_exec", "leave"} => ~entering[p]

\* A trace that succeeds reports all that its processes touched, except for
\* those that were SIGKILLed or lost a syscall stop in resume_new_tracee.
CompleteUnlessSkewed ==
    outcome = "ok" =>
        \A p \in Procs \ Skewed : code[p] # "sigkill" => touched[p] \subseteq report

\* A trace that succeeds leaves no tracee stopped or running, but for children
\* it was never told of.
NobodyLeftBehind ==
    outcome = "ok" => \A p \in Procs : Alive(p) => p \in Unannounced

\* A command that could not be started never yields a report, whichever of
\* chroot, PTRACE_TRACEME and execve failed.
NoReportWithoutLaunch == outcome = "ok" => launch = "running"

\* resume_new_tracee waits for a child that was resumed before its parent's
\* event was read and that now waits for its parent, which nobody resumes.
CrossWait ==
    LET child == forked[got.pid] IN
    tpc = "attach" /\ at[child] = "kernel" /\ call[child].kind = "await"

\* The loop ends once its tracees do, with a tracee that forks, dies by a
\* signal or is reaped early; the one thing that can hold it is a CrossWait.
Termination == <>(tpc = "done" \/ CrossWait)

-----------------------------------------------------------------------------
(* What the docs say of the trace, and the code refutes.                   *)

\* docs/tracing.md:67: what a trace captures is the files this execution
\* touched.  A successful trace misses none of them.
EveryCallReported ==
    outcome = "ok" => \A p \in Procs : touched[p] \subseteq report
=============================================================================
