------------------------------ MODULE HostTraces ------------------------------
(***************************************************************************)
(* The traces that one run of sidebundle makes, one after the other:       *)
(* TraceCollector.run in the loop of ClosureBuilder::build, with the       *)
(* backends ptrace, fanotify and combined (sidebundle-closure/src/trace.rs *)
(* and trace/linux.rs).  The error of a trace is only logged; the next     *)
(* trace finds whatever processes the failed one left.                     *)
(*                                                                         *)
(* The ptrace loop is PtraceTracer, with the stop of a call and its        *)
(* handling as one step.  fanotify_parent is here in full: it watches a    *)
(* whole file system, polls its queue and its child in turn, and ends once *)
(* the child is gone and the queue was empty often enough.                 *)
(*                                                                         *)
(* Each process has one file of its own to open, so that a report is the   *)
(* set of the processes whose file it names.                               *)
(***************************************************************************)
EXTENDS Naturals, Sequences, SequencesExt, FiniteSets

CONSTANTS
    Plans,       \* the sequences of traces a build may make
    MaxTraces,   \* the length of the longest of them
    IdleLoops,   \* empty reads after the child's end that do not end the loop: 5
    QueueSize,   \* events fanotify keeps until they are read
    MaxFaults,    \* bound: processes killed, and failures of the ptrace loop
    Other,       \* the processes of the machine that belong to no trace
    Failed       \* the result of a trace that returned an error

Backends == {"ptrace", "fanotify", "combined"}
Traces   == 1..MaxTraces
Procs    == [trace : Traces, run : {"ptrace", "fanotify"}, kin : {"root", "child"}]
Root(t, run) == [trace |-> t, run |-> run, kin |-> "root"]
Child(p)     == [p EXCEPT !.kin = "child"]

ASSUME CountsAreNats ==
    MaxTraces \in Nat /\ IdleLoops \in Nat /\ QueueSize \in Nat \ {0} /\ MaxFaults \in Nat
ASSUME PlansAreTraces ==
    Plans \subseteq {p \in Seq([kind : Backends, inImage : BOOLEAN]) : Len(p) \in Traces}
ASSUME OthersAreNew ==
    Other \notin Procs /\ \A result \in SUBSET (Procs \cup {Other}) : result # Failed

VARIABLES
    plan,        \* plan[t]: the backend of trace t; is its command chrooted into an image?
    ignoring,    \* SIGCHLD is ignored, by inheritance: children leave no zombie
    now,         \* the trace that runs
    stage,       \* where it is
    st,          \* st[p]: where p is; of a zombie, how it ended
    tracees,     \* TraceeTracker.tracees
    rootStatus,  \* TraceeTracker.root_status
    report,      \* the report of the backend that runs
    kept,        \* combined: what ptrace reported
    queue,       \* fanotify's events
    childDone,   \* child_done
    idle,        \* idle_loops
    traced,      \* traced[t]: what build has of trace t
    opened,      \* history: processes that opened their file
    early,       \* history: those that did before the root of their trace was reaped
    overflown,   \* history: traces in which an event found the queue full
    untold,      \* history: tracees whose fork event never reached the loop
    faults        \* bound: the faults so far

loop    == <<tracees, rootStatus, report, kept, queue, childDone, idle>>
turn    == <<now, stage, traced>>
history == <<opened, early, overflown, untold, faults>>
vars    == <<plan, ignoring, turn, st, loop, history>>

Watching == {"read", "wait"}
Stages   == {"start", "ptrace", "mark", "end"} \cup Watching
Ends     == {"fine", "setup", "signal"}       \* "setup": 40, 41 or 42
Places   == {"none", "traced", "free", "gone"} \cup Ends

TypeOK ==
    /\ plan \in Plans /\ ignoring \in BOOLEAN
    /\ now \in DOMAIN plan /\ stage \in Stages
    /\ st \in [Procs -> Places]
    /\ tracees \subseteq Procs /\ rootStatus \in Ends \cup {"none"}
    /\ report \subseteq Procs \cup {Other} /\ kept \subseteq Procs
    /\ queue \in Seq(Procs \cup {Other}) /\ Len(queue) <= QueueSize
    /\ childDone \in BOOLEAN /\ idle \in 0..IdleLoops + 1
    /\ traced \in [Traces -> {Failed} \cup SUBSET (Procs \cup {Other})]
    /\ early \subseteq opened /\ opened \subseteq Procs /\ untold \subseteq Procs
    /\ overflown \subseteq Traces /\ faults \in 0..MaxFaults

Init ==
    /\ plan \in Plans /\ ignoring \in BOOLEAN
    /\ now = 1 /\ stage = "start"
    /\ st = [p \in Procs |-> "none"]
    /\ tracees = {} /\ rootStatus = "none" /\ report = {} /\ kept = {}
    /\ queue = <<>> /\ childDone = FALSE /\ idle = 0
    /\ traced = [t \in Traces |-> {}]
    /\ opened = {} /\ early = {} /\ untold = {} /\ overflown = {} /\ faults = 0

-----------------------------------------------------------------------------
(* The results of a trace.                                                 *)

\* TraceCollector.run and make_trace_artifact: the paths of a report are
\* taken as paths inside the image.  Those fanotify gives are what
\* /proc/self/fd shows outside, and lead nowhere from inside.
Artifacts(viaPtrace, viaFanotify) ==
    viaPtrace \cup (IF plan[now].inImage THEN {} ELSE viaFanotify)

\* The locals of a backend at its start, and of nobody at its end.
FreshLoop ==
    /\ tracees' = {} /\ rootStatus' = "none" /\ report' = {} /\ kept' = {}
    /\ queue' = <<>> /\ childDone' = FALSE /\ idle' = 0

\* build goes on with the next entry, whatever the trace returned.
EndTrace(result) ==
    /\ traced' = [traced EXCEPT ![now] = result]
    /\ IF now = Len(plan) THEN stage' = "end" /\ UNCHANGED now
                          ELSE stage' = "start" /\ now' = now + 1
    /\ FreshLoop

-----------------------------------------------------------------------------
(* The ptrace backend: run_ptrace and parent_trace.                        *)

OwnRoot == Root(now, "ptrace")

StartPtrace ==
    /\ stage = "start" /\ plan[now].kind \in {"ptrace", "combined"}
    /\ stage' = "ptrace"
    /\ st' = [st EXCEPT ![OwnRoot] = "traced"]
    /\ tracees' = {OwnRoot}
    /\ UNCHANGED <<plan, ignoring, now, traced, rootStatus, report, kept, queue, childDone,
                   idle, history>>

\* The loop sees p open its file.  That p is none of its own makes no
\* difference; a process whose first stop the loop did not see may have its
\* stops mixed up, and then goes unreported.
TraceeOpens(p) ==
    /\ stage = "ptrace" /\ st[p] = "traced" /\ p \notin opened
    /\ opened' = opened \cup {p}
    /\ tracees' = tracees \cup {p}
    /\ \/ report' = report \cup {p}
       \/ p # OwnRoot /\ UNCHANGED report
    /\ UNCHANGED <<plan, ignoring, turn, st, rootStatus, kept, queue, childDone, idle,
                   early, overflown, untold, faults>>

\* A root forks.  "child" is any process below it: the loop may be told of it
\* or not (PtraceTracer's Unannounced).
TraceeForks(p) ==
    /\ stage = "ptrace" /\ st[p] = "traced" /\ p.kin = "root" /\ st[Child(p)] = "none"
    /\ st' = [st EXCEPT ![Child(p)] = "traced"]
    /\ \/ tracees' = tracees \cup {p, Child(p)} /\ UNCHANGED untold
       \/ tracees' = tracees \cup {p} /\ untold' = untold \cup {Child(p)}
    /\ UNCHANGED <<plan, ignoring, turn, rootStatus, report, kept, queue, childDone, idle,
                   opened, early, overflown, faults>>

\* tracker.is_done()
IsDoneWithRoot(left) == OwnRoot \notin left   \* mutant: the root's end is the end
IsDone(left) == left = {}

\* on_exit, with the status of a process that exited.
StatusAfter(p) == IF p = OwnRoot /\ st[p] # "signal" THEN st[p] ELSE rootStatus

\* waitpid(None) reaps a process, a child of whichever trace it was.
ReapTracee(p) ==
    LET left == tracees \ {p} IN
    /\ stage = "ptrace" /\ st[p] \in Ends
    /\ st' = [st EXCEPT ![p] = "gone"]
    /\ CASE ~IsDone(left) ->
              /\ tracees' = left /\ rootStatus' = StatusAfter(p)
              /\ UNCHANGED <<turn, report, kept, queue, childDone, idle>>
         [] IsDone(left) /\ IF st[p] = "signal" THEN p = OwnRoot ELSE StatusAfter(p) = "setup" ->
              EndTrace(Failed)
         [] OTHER ->
              IF plan[now].kind = "combined"
              THEN /\ stage' = "mark" /\ kept' = report /\ report' = {}
                   /\ tracees' = {} /\ rootStatus' = "none"
                   /\ UNCHANGED <<now, traced, queue, childDone, idle>>
              ELSE EndTrace(Artifacts(report, {}))
    /\ UNCHANGED <<plan, ignoring, history>>

\* A path that cannot be read, of a tracee that is then detached, or ESRCH for
\* a tracee that was killed between two requests: the trace is over, and the
\* other tracees stay as they are.
PtraceFails ==
    /\ stage = "ptrace" /\ faults < MaxFaults
    /\ faults' = faults + 1
    /\ \E p \in Procs :
         /\ st[p] = "traced"
         /\ \/ p \notin opened /\ st' = [st EXCEPT ![p] = "free"]
            \/ st' = [st EXCEPT ![p] = "signal"]
    /\ EndTrace(Failed)
    /\ UNCHANGED <<plan, ignoring, opened, early, overflown, untold>>

-----------------------------------------------------------------------------
(* The fanotify backend: run_fanotify and fanotify_parent.                 *)

\* Fanotify::init and mark, which may not be permitted, and fork.
StartFanotify ==
    /\ stage = "mark" \/ (stage = "start" /\ plan[now].kind = "fanotify")
    /\ \/ EndTrace(Failed) /\ UNCHANGED st
       \/ /\ stage' = "read" /\ st' = [st EXCEPT ![Root(now, "fanotify")] = "free"]
          /\ UNCHANGED <<now, traced, loop>>
    /\ UNCHANGED <<plan, ignoring, history>>

\* An empty read counts once the child is gone.
CountAlways == idle + 1                    \* mutant: an empty read always counts
CountIdle == IF childDone THEN idle + 1 ELSE idle

\* read_events takes as many events as fit into its buffer.
ReadEvents ==
    /\ stage = "read"
    /\ \/ queue = <<>> /\ idle' = CountIdle /\ UNCHANGED <<report, queue>>
       \/ \E n \in 1..Len(queue) :
            /\ idle' = 0
            /\ report' = report \cup ToSet(SubSeq(queue, 1, n))
            /\ queue' = SubSeq(queue, n + 1, Len(queue))
    /\ stage' = "wait"
    /\ UNCHANGED <<plan, ignoring, now, traced, st, tracees, rootStatus, kept, childDone,
                   history>>

\* read_events fails: the files of events cannot be opened.  The child is
\* left running, and nobody waits for it.
ReadFails ==
    /\ stage = "read" /\ queue # <<>>
    /\ EndTrace(Failed)
    /\ UNCHANGED <<plan, ignoring, st, history>>

\* The end of an iteration: child_done && idle_loops > 5
WithChild(done) == done                                    \* mutant: the end of the child is enough
IsOver(done) == done /\ idle > IdleLoops

EndIteration(done) ==
    IF IsOver(done) THEN EndTrace(Artifacts(kept, report))
    ELSE /\ stage' = "read" /\ childDone' = done
         /\ UNCHANGED <<now, traced, tracees, rootStatus, report, kept, queue, idle>>

NeverDone == FALSE                         \* mutant: the end of the child is not noted
SeenEnd == TRUE

\* waitpid(child, WNOHANG) while the child is not known to be gone.  "gone"
\* is ECHILD.
PollChild ==
    LET root == Root(now, "fanotify") IN
    /\ stage = "wait"
    /\ IF ~childDone /\ st[root] \in Ends THEN st' = [st EXCEPT ![root] = "gone"]
                                          ELSE UNCHANGED st
    /\ IF childDone THEN EndIteration(TRUE)
       ELSE IF st[root] = "free" THEN EndIteration(FALSE)
       ELSE IF st[root] \in {"fine", "gone"} THEN EndIteration(SeenEnd)
       ELSE EndTrace(Failed)
    /\ UNCHANGED <<plan, ignoring, history>>

-----------------------------------------------------------------------------
(* Processes that nobody stops.                                            *)

\* fanotify sees every process of the machine.
Enqueue(who) ==
    IF Len(queue) < QueueSize THEN queue' = Append(queue, who) /\ UNCHANGED overflown
                              ELSE overflown' = overflown \cup {now} /\ UNCHANGED queue

\* (What is opened while nobody watches is not told apart.)
FreeOpens(p) ==
    /\ stage \in Watching /\ st[p] = "free" /\ p \notin opened
    /\ opened' = opened \cup {p}
    /\ early' = IF st[Root(p.trace, "fanotify")] \in {"free"} \cup Ends
                THEN early \cup {p} ELSE early
    /\ Enqueue(p)
    /\ UNCHANGED <<plan, ignoring, turn, st, tracees, rootStatus, report, kept, childDone,
                   idle, untold, faults>>

FreeForks(p) ==
    /\ st[p] = "free" /\ p.kin = "root" /\ st[Child(p)] = "none"
    /\ st' = [st EXCEPT ![Child(p)] = "free"]
    /\ UNCHANGED <<plan, ignoring, turn, loop, history>>

OtherOpens ==
    /\ stage \in Watching
    /\ Enqueue(Other)
    /\ UNCHANGED <<plan, ignoring, turn, st, tracees, rootStatus, report, kept, childDone,
                   idle, opened, early, untold, faults>>

\* What is left of p: its tracer or its parent can wait for it.
Remains(p, how) ==
    IF st[p] = "traced" \/ (p.kin = "root" /\ ~ignoring) THEN how ELSE "gone"

\* exit, of a tracee with the tracer's help.
Exits(p) ==
    /\ st[p] = "free" \/ (st[p] = "traced" /\ stage = "ptrace")
    /\ \E how \in {"fine", "setup"} : st' = [st EXCEPT ![p] = Remains(p, how)]
    /\ UNCHANGED <<plan, ignoring, turn, loop, history>>

Killed(p) ==
    /\ st[p] \in {"free", "traced"} /\ faults < MaxFaults
    /\ faults' = faults + 1
    /\ st' = [st EXCEPT ![p] = Remains(p, "signal")]
    /\ UNCHANGED <<plan, ignoring, turn, loop, opened, early, overflown, untold>>

-----------------------------------------------------------------------------
Backend ==
    \/ StartPtrace \/ PtraceFails \/ (\E p \in Procs : ReapTracee(p))
    \/ StartFanotify \/ ReadEvents \/ ReadFails \/ PollChild

Next ==
    \/ Backend
    \/ \E p \in Procs :
         \/ TraceeOpens(p) \/ TraceeForks(p) \/ FreeOpens(p) \/ FreeForks(p)
         \/ Exits(p) \/ Killed(p)
    \/ OtherOpens

Spec == Init /\ [][Next]_vars

\* The backend's thread runs, and the commands end: a command that does not
\* end is traced for ever.
Fairness == WF_vars(Backend) /\ \A p \in Procs : WF_vars(Exits(p))

FairSpec == Spec /\ Fairness

-----------------------------------------------------------------------------
Succeeded(t) == t \in DOMAIN plan /\ (t < now \/ stage = "end") /\ traced[t] # Failed

\* A ptrace report names files of the processes of its own command only,
\* unless an earlier trace failed and left processes that this trace took
\* over, or left one it was never told of.
OwnFilesOnly ==
    \A t \in Traces : Succeeded(t) /\ plan[t].kind = "ptrace" =>
        \A p \in traced[t] : p.trace = t \/ traced[p.trace] = Failed \/ p \in untold

\* A trace that succeeds has the file of its command: of the run under ptrace,
\* whatever else the loop waited for, and of the run under fanotify, with the files
\* that the command's children opened while it was there, however its end, the reads and
\* the polls were interleaved.  The exceptions are an event queue that overflowed,
\* and images: there, what fanotify reports is lost.
CommandsAreTraced ==
    \A t \in Traces : Succeeded(t) =>
        /\ plan[t].kind # "fanotify" /\ Root(t, "ptrace") \in opened
               => Root(t, "ptrace") \in traced[t]
        /\ plan[t].kind # "ptrace" /\ ~plan[t].inImage /\ t \notin overflown =>
               \A p \in early : p.trace = t /\ p.run = "fanotify" => p \in traced[t]

\* When no trace failed, the run leaves no process stopped and none unreaped,
\* but for tracees it was never told of.
NothingLeft ==
    stage = "end" /\ (\A t \in DOMAIN plan : traced[t] # Failed) =>
        \A p \in Procs : st[p] \in {"traced"} \cup Ends \/ (st[p] = "free" /\ p.kin = "root")
                             => p \in untold

\* The traces come to an end, with the processes that earlier ones left, if
\* the file system falls silent at last: fanotify waits for silence
\* everywhere, not for its own command's.
EndsInSilence == <>[](queue = <<>>) => <>(stage = "end")
=============================================================================
