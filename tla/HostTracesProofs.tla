--------------------------- MODULE HostTracesProofs ---------------------------
(***************************************************************************)
(* What the traces of a run report and leave, for any number of traces     *)
(* with any backends: a ptrace report names no file of another trace's     *)
(* processes, but for those that failed traces left and those the loop was *)
(* never told of; a trace that succeeds reports what it has to; a run in   *)
(* which none failed leaves nothing stopped and nothing unreaped.          *)
(***************************************************************************)
EXTENDS HostTraces, TLAPS

(***************************************************************************)
(* The argument: a process that is traced is one the loop counts, or the   *)
(* loop was never told of it, or its trace failed.  When the loop ends     *)
(* with nothing left to count, all that are still traced are untold; when  *)
(* it ends otherwise, the trace has failed.                                *)
(***************************************************************************)
Types ==
    /\ plan \in Plans /\ now \in DOMAIN plan /\ stage \in Stages
    /\ st \in [Procs -> Places]
    /\ traced \in [Traces -> {Failed} \cup SUBSET (Procs \cup {Other})]
    /\ report \subseteq Procs \cup {Other} /\ kept \subseteq Procs \cup {Other}
    /\ queue \in Seq(Procs \cup {Other})
    /\ tracees \subseteq Procs /\ untold \subseteq Procs

Over(t) == t < now \/ stage = "end"
Excused(p) == p \in untold \/ traced[p.trace] = Failed

\* What is traced is known.
Known(p) ==
    \/ p \in untold
    \/ traced[p.trace] = Failed
    \/ p.trace = now /\ stage = "ptrace" /\ p \in tracees

TracedKnown == \A p \in Procs : st[p] = "traced" => Known(p)
ReportOwn == stage = "ptrace" => \A p \in report : p.trace = now \/ Excused(p)
Untraced == \A t \in Traces : ~Over(t) => traced[t] = {}
Stagewise ==
    /\ stage = "start" => report = {}
    /\ stage \in {"mark"} \cup Watching => plan[now].kind # "ptrace"
UntoldAreChildren == \A p \in untold : p.kin = "child"

IInv ==
    /\ Types /\ TracedKnown /\ ReportOwn /\ Untraced /\ Stagewise /\ UntoldAreChildren
    /\ OwnFilesOnly

LEMMA PlanFacts ==
  \A p \in Plans : p \in Seq([kind : Backends, inImage : BOOLEAN]) /\ Len(p) \in 1..MaxTraces
  BY PlansAreTraces DEF Traces

LEMMA FailedIsNew == \A r \in SUBSET (Procs \cup {Other}) : r # Failed
  BY OthersAreNew

LEMMA InitInv == Init => IInv
<1> SUFFICES ASSUME Init PROVE IInv
  OBVIOUS
<1> USE PlanFacts, FailedIsNew, CountsAreNats DEF Init
<1>1. Types
  BY DEF Types, Stages, Places, Traces
<1>2. TracedKnown /\ ReportOwn /\ Untraced /\ Stagewise /\ UntoldAreChildren
  BY DEF TracedKnown, ReportOwn, Untraced, Stagewise, UntoldAreChildren, Over, Watching
<1>3. OwnFilesOnly
  BY DEF OwnFilesOnly, Succeeded, Traces
<1> QED
  BY <1>1, <1>2, <1>3 DEF IInv

-----------------------------------------------------------------------------
\* The types, step by step.

LEMMA EndTraceTypes ==
  ASSUME Types, NEW result \in {Failed} \cup SUBSET (Procs \cup {Other}), EndTrace(result),
         plan' = plan, st' \in [Procs -> Places], untold' \subseteq Procs
  PROVE  Types'
<1>1. now' \in DOMAIN plan /\ stage' \in Stages
  BY PlanFacts DEF Types, EndTrace, Stages
<1>2. traced' \in [Traces -> {Failed} \cup SUBSET (Procs \cup {Other})]
  BY PlanFacts DEF Types, EndTrace
<1> QED
  BY <1>1, <1>2 DEF Types, EndTrace, FreshLoop

LEMMA ReportTypes ==
  ASSUME Types
  PROVE  Artifacts(report, {}) \subseteq Procs \cup {Other}
         /\ Artifacts(kept, report) \subseteq Procs \cup {Other}
  BY DEF Types, Artifacts

LEMMA QueueTypes ==
  ASSUME NEW q \in Seq(Procs \cup {Other}), NEW n \in 1..Len(q)
  PROVE  /\ SubSeq(q, n + 1, Len(q)) \in Seq(Procs \cup {Other})
         /\ ToSet(SubSeq(q, 1, n)) \subseteq Procs \cup {Other}
  BY DEF ToSet

LEMMA StepTypes == Types /\ [Next]_vars => Types'
<1> SUFFICES ASSUME Types, [Next]_vars PROVE Types'
  OBVIOUS
<1>r. \A t \in Traces, run \in {"ptrace", "fanotify"} : Root(t, run) \in Procs
  BY DEF Root, Procs
<1>c. \A p \in Procs : Child(p) \in Procs
  BY DEF Child, Procs
<1>n. now \in Traces
  BY PlanFacts, CountsAreNats DEF Types, Traces
<1>o. OwnRoot \in Procs
  BY <1>r, <1>n DEF OwnRoot
<1> USE DEF turn, loop, history
<1>1. ASSUME StartPtrace PROVE Types'
  BY <1>1, <1>o DEF StartPtrace, Types, Stages, Places
<1>2. ASSUME PtraceFails PROVE Types'
  <2>1. st' \in [Procs -> Places] /\ untold' \subseteq Procs
    BY <1>2 DEF PtraceFails, Types, Places, Ends
  <2> QED
    BY <1>2, <2>1, EndTraceTypes DEF PtraceFails
<1>3. ASSUME NEW p \in Procs, ReapTracee(p) PROVE Types'
  <2>1. st' \in [Procs -> Places] /\ untold' \subseteq Procs /\ plan' = plan
    BY <1>3 DEF ReapTracee, Types, Places
  <2>2. CASE EndTrace(Failed)
    BY <2>1, <2>2, EndTraceTypes
  <2>3. CASE EndTrace(Artifacts(report, {}))
    BY <2>1, <2>3, EndTraceTypes, ReportTypes
  <2>4. CASE /\ tracees' = tracees \ {p}
             /\ UNCHANGED <<turn, report, kept, queue>>
    BY <2>1, <2>4 DEF Types
  <2>5. CASE /\ stage' = "mark" /\ kept' = report /\ report' = {} /\ tracees' = {}
             /\ UNCHANGED <<now, traced, queue>> /\ stage = "ptrace"
    BY <2>1, <2>5 DEF Types, Stages
  <2> QED
    BY <1>3, <2>2, <2>3, <2>4, <2>5 DEF ReapTracee
<1>4. ASSUME StartFanotify PROVE Types'
  <2>1. Root(now, "fanotify") \in Procs
    BY <1>r, <1>n
  <2>2. CASE EndTrace(Failed) /\ UNCHANGED st
    BY <1>4, <2>2, EndTraceTypes DEF StartFanotify, Types
  <2>3. CASE /\ stage' = "read" /\ st' = [st EXCEPT ![Root(now, "fanotify")] = "free"]
             /\ UNCHANGED <<now, traced, loop>>
    BY <1>4, <2>1, <2>3 DEF StartFanotify, Types, Stages, Places, Watching
  <2> QED
    BY <1>4, <2>2, <2>3 DEF StartFanotify
<1>5. ASSUME ReadEvents PROVE Types'
  <2>1. stage' \in Stages
    BY <1>5 DEF ReadEvents, Stages, Watching
  <2>2. report' \subseteq Procs \cup {Other} /\ queue' \in Seq(Procs \cup {Other})
    <3>1. CASE UNCHANGED <<report, queue>>
      BY <3>1 DEF Types
    <3>2. ASSUME NEW n \in 1..Len(queue),
                 report' = report \cup ToSet(SubSeq(queue, 1, n)),
                 queue' = SubSeq(queue, n + 1, Len(queue))
          PROVE  report' \subseteq Procs \cup {Other} /\ queue' \in Seq(Procs \cup {Other})
      BY <3>2, QueueTypes DEF Types
    <3> QED
      BY <1>5, <3>1, <3>2 DEF ReadEvents
  <2> QED
    BY <1>5, <2>1, <2>2 DEF ReadEvents, Types
<1>6. ASSUME ReadFails PROVE Types'
  BY <1>6, EndTraceTypes DEF ReadFails, Types
<1>7. ASSUME PollChild PROVE Types'
  <2>1. st' \in [Procs -> Places] /\ untold' \subseteq Procs /\ plan' = plan
    BY <1>7 DEF PollChild, Types, Places
  <2>2. CASE EndTrace(Failed)
    BY <2>1, <2>2, EndTraceTypes
  <2>3. CASE \E done : EndIteration(done)
    <3>1. CASE EndTrace(Artifacts(kept, report))
      BY <2>1, <3>1, EndTraceTypes, ReportTypes
    <3>2. CASE stage' = "read" /\ UNCHANGED <<now, traced, tracees, report, kept, queue>>
      BY <2>1, <3>2 DEF Types, Stages, Watching
    <3> QED
      BY <2>3, <3>1, <3>2 DEF EndIteration
  <2> QED
    BY <1>7, <2>2, <2>3 DEF PollChild
<1>8. ASSUME NEW p \in Procs, TraceeOpens(p) PROVE Types'
  BY <1>8 DEF TraceeOpens, Types
<1>9. ASSUME NEW p \in Procs, TraceeForks(p) PROVE Types'
  BY <1>9, <1>c DEF TraceeForks, Types, Places
<1>10. ASSUME NEW p \in Procs, FreeOpens(p) PROVE Types'
  BY <1>10 DEF FreeOpens, Enqueue, Types
<1>11. ASSUME NEW p \in Procs, FreeForks(p) PROVE Types'
  BY <1>11, <1>c DEF FreeForks, Types, Places
<1>12. ASSUME OtherOpens PROVE Types'
  BY <1>12 DEF OtherOpens, Enqueue, Types
<1>13. ASSUME NEW p \in Procs, Exits(p) PROVE Types'
  BY <1>13 DEF Exits, Remains, Types, Places, Ends
<1>14. ASSUME NEW p \in Procs, Killed(p) PROVE Types'
  BY <1>14 DEF Killed, Remains, Types, Places, Ends
<1>15. ASSUME UNCHANGED vars PROVE Types'
  BY <1>15 DEF vars, Types
<1> QED
  BY <1>1, <1>2, <1>3, <1>4, <1>5, <1>6, <1>7, <1>8, <1>9, <1>10, <1>11, <1>12, <1>13, <1>14,
     <1>15 DEF Next, Backend

-----------------------------------------------------------------------------
\* The invariant, step by step.

LEMMA NowIsTrace == Types => now \in Traces /\ Traces \subseteq Nat
  BY PlanFacts, CountsAreNats DEF Types, Traces

\* The end of a trace keeps the invariant, if it failed or if all of its own
\* processes that are still traced are untold, and its report is its own.
LEMMA EndTraceInv ==
  ASSUME IInv, NEW result \in {Failed} \cup SUBSET (Procs \cup {Other}), EndTrace(result), Types',
         stage # "end", plan' = plan, untold' = untold,
         \A p \in Procs : st'[p] = "traced" =>
            st[p] = "traced" /\ (result = Failed \/ p.trace # now \/ p \in untold),
         result = Failed \/ plan[now].kind # "ptrace"
            \/ \A p \in result : p.trace = now \/ Excused(p)
  PROVE  IInv'
<1>n. now \in Traces /\ Traces \subseteq Nat /\ traced[now] = {} /\ traced[now] # Failed
  BY NowIsTrace, FailedIsNew DEF IInv, Untraced, Over, Types
<1>t. traced' = [traced EXCEPT ![now] = result] /\ traced \in [Traces -> {Failed} \cup SUBSET (Procs \cup {Other})]
  BY DEF EndTrace, IInv, Types
<1>d. DOMAIN plan = 1..Len(plan) /\ Len(plan) \in Nat /\ now \in DOMAIN plan
  BY PlanFacts DEF IInv, Types
<1>o. \A t \in Traces : /\ Over(t) \/ t = now => Over(t)'
                        /\ Over(t)' /\ t \in DOMAIN plan => Over(t) \/ t = now
  <2> SUFFICES ASSUME NEW t \in Traces
               PROVE  /\ Over(t) \/ t = now => Over(t)'
                      /\ Over(t)' /\ t \in DOMAIN plan => Over(t) \/ t = now
    OBVIOUS
  <2>1. t \in Nat /\ now \in Nat
    BY <1>n
  <2>2. CASE now = Len(plan)
    BY <2>1, <2>2, <1>d DEF EndTrace, Over
  <2>3. CASE now # Len(plan)
    <3>1. now' = now + 1 /\ stage' = "start" /\ stage # "end"
      BY <2>3 DEF EndTrace
    <3>2. Over(t) <=> t < now
      BY <3>1 DEF Over
    <3>3. Over(t)' <=> t < now + 1
      BY <3>1 DEF Over
    <3> QED
      BY <2>1, <3>2, <3>3
  <2> QED
    BY <2>2, <2>3
<1>p. \A p \in Procs : p.trace \in Traces
  BY DEF Procs
<1>1. TracedKnown'
  <2> SUFFICES ASSUME NEW p \in Procs, st'[p] = "traced" PROVE Known(p)'
    BY DEF TracedKnown
  <2>1. Known(p) /\ stage' # "ptrace"
    BY DEF IInv, TracedKnown, EndTrace
  <2> QED
    BY <2>1, <1>n, <1>t, <1>p DEF Known
<1>2. ReportOwn' /\ Stagewise'
  BY DEF ReportOwn, Stagewise, EndTrace, FreshLoop, Watching
<1>3. Untraced'
  BY <1>o, <1>t, <1>n DEF IInv, Untraced
<1>4. UntoldAreChildren'
  BY DEF IInv, UntoldAreChildren
<1>5. OwnFilesOnly'
  <2> SUFFICES ASSUME NEW t \in Traces, Succeeded(t)', plan[t].kind = "ptrace", NEW p \in traced'[t],
                      p.trace # t, p \notin untold
               PROVE  traced'[p.trace] = Failed
    BY DEF OwnFilesOnly
  <2>1. CASE t = now
    <3>1. traced[p.trace] = Failed
      BY <2>1, <1>t, <1>n DEF Succeeded, Excused
    <3> QED
      BY <3>1, <2>1, <1>t
  <2>2. CASE t # now
    <3>1. traced'[t] = traced[t]
      BY <2>2, <1>t
    <3>2. Succeeded(t)
      BY <3>1, <2>2, <1>o DEF Succeeded, Over
    <3>3. traced[p.trace] = Failed
      BY <3>1, <3>2 DEF IInv, OwnFilesOnly
    <3> QED
      BY <3>3, <1>t, <1>n
  <2> QED
    BY <2>1, <2>2
<1> QED
  BY <1>1, <1>2, <1>3, <1>4, <1>5 DEF IInv

\* The steps that leave the finished traces alone.
LEMMA SameTurn ==
  ASSUME IInv, UNCHANGED <<plan, now, traced>>, (stage' = "end") <=> (stage = "end"),
         untold \subseteq untold'
  PROVE  Untraced' /\ OwnFilesOnly'
<1>1. \A t \in Traces : (Over(t)' <=> Over(t)) /\ (Succeeded(t)' <=> Succeeded(t))
  BY DEF Over, Succeeded
<1> QED
  BY <1>1 DEF IInv, Untraced, OwnFilesOnly

\* The steps that the loop has no part in.
LEMMA QuietStep ==
  ASSUME IInv, Types', UNCHANGED <<plan, turn, tracees, report, untold>>,
         \A p \in Procs : st'[p] = "traced" => st[p] = "traced"
  PROVE  IInv'
<1> USE DEF turn
<1>1. Untraced' /\ OwnFilesOnly'
  BY SameTurn
<1>2. TracedKnown'
  BY DEF IInv, TracedKnown, Known
<1>3. ReportOwn' /\ Stagewise' /\ UntoldAreChildren'
  BY DEF IInv, ReportOwn, Excused, Stagewise, UntoldAreChildren
<1> QED
  BY <1>1, <1>2, <1>3 DEF IInv

\* A loop that counts no tracee any more has no traced process of its own
\* but untold ones.
LEMMA NoneLeft ==
  ASSUME IInv, stage # "end", stage # "ptrace" \/ \A p \in Procs : st[p] = "traced" => p \notin tracees
  PROVE  \A p \in Procs : st[p] = "traced" => p \in untold \/ (traced[p.trace] = Failed /\ p.trace # now)
<1> SUFFICES ASSUME NEW p \in Procs, st[p] = "traced"
             PROVE  p \in untold \/ (traced[p.trace] = Failed /\ p.trace # now)
  OBVIOUS
<1>1. p \in untold \/ traced[p.trace] = Failed
  BY DEF IInv, TracedKnown, Known
<1>2. traced[now] # Failed
  BY NowIsTrace, FailedIsNew DEF IInv, Untraced, Over, Types
<1> QED
  BY <1>1, <1>2

LEMMA StepInv == IInv /\ [Next]_vars => IInv'
<1> SUFFICES ASSUME IInv, [Next]_vars PROVE IInv'
  OBVIOUS
<1>t. Types'
  BY StepTypes DEF IInv
<1>r. OwnRoot \in Procs /\ OwnRoot.trace = now
  BY NowIsTrace DEF IInv, OwnRoot, Root, Procs
<1>f. Failed \in {Failed} \cup SUBSET (Procs \cup {Other})
  OBVIOUS
<1> USE <1>t DEF turn, history, loop
<1>1. ASSUME StartPtrace PROVE IInv'
  <2>1. Untraced' /\ OwnFilesOnly'
    BY <1>1, SameTurn DEF StartPtrace
  <2>2. TracedKnown'
    BY <1>1, <1>r DEF StartPtrace, IInv, Types, TracedKnown, Known
  <2>3. ReportOwn' /\ Stagewise' /\ UntoldAreChildren'
    BY <1>1 DEF StartPtrace, IInv, ReportOwn, Stagewise, UntoldAreChildren, Watching
  <2> QED
    BY <2>1, <2>2, <2>3 DEF IInv
<1>2. ASSUME PtraceFails PROVE IInv'
  <2>1. \A p \in Procs : st'[p] = "traced" => st[p] = "traced"
    BY <1>2 DEF PtraceFails, IInv, Types
  <2> QED
    BY <1>2, <1>f, <2>1, EndTraceInv DEF PtraceFails
<1>3. ASSUME NEW p \in Procs, ReapTracee(p) PROVE IInv'
  <2>1. /\ stage = "ptrace" /\ plan' = plan /\ untold' = untold /\ st[p] # "traced"
        /\ \A q \in Procs : st'[q] = "traced" => st[q] = "traced" /\ q # p
    BY <1>3 DEF ReapTracee, IInv, Types, Ends
  <2>2. CASE EndTrace(Failed)
    BY <2>1, <2>2, <1>f, EndTraceInv
  <2>3. CASE tracees' = tracees \ {p} /\ UNCHANGED <<turn, report>>
    <3>1. Untraced' /\ OwnFilesOnly'
      BY <2>1, <2>3, SameTurn
    <3>2. TracedKnown'
      BY <2>1, <2>3 DEF IInv, TracedKnown, Known
    <3>3. ReportOwn' /\ Stagewise' /\ UntoldAreChildren'
      BY <2>1, <2>3 DEF IInv, ReportOwn, Excused, Stagewise, UntoldAreChildren
    <3> QED
      BY <3>1, <3>2, <3>3 DEF IInv
  <2>4. ASSUME IsDone(tracees \ {p})
        PROVE  \A q \in Procs : st[q] = "traced" => q \notin tracees
    BY <2>1, <2>4 DEF IsDone
  <2>5. CASE /\ stage' = "mark" /\ plan[now].kind = "combined" /\ report' = {}
             /\ UNCHANGED <<now, traced>> /\ IsDone(tracees \ {p})
    <3>1. Untraced' /\ OwnFilesOnly'
      BY <2>1, <2>5, SameTurn
    <3>2. TracedKnown'
      BY <2>1, <2>4, <2>5, NoneLeft DEF TracedKnown, Known
    <3>3. ReportOwn' /\ Stagewise' /\ UntoldAreChildren'
      BY <2>1, <2>5 DEF IInv, ReportOwn, Stagewise, UntoldAreChildren
    <3> QED
      BY <3>1, <3>2, <3>3 DEF IInv
  <2>6. CASE EndTrace(Artifacts(report, {})) /\ IsDone(tracees \ {p})
    <3>1. Artifacts(report, {}) = report /\ report \in {Failed} \cup SUBSET (Procs \cup {Other})
      BY DEF Artifacts, IInv, Types
    <3>2. \A q \in report : q.trace = now \/ Excused(q)
      BY <2>1 DEF IInv, ReportOwn
    <3>3. \A q \in Procs : st'[q] = "traced" => st[q] = "traced" /\ (q.trace # now \/ q \in untold)
      BY <2>1, <2>4, <2>6, NoneLeft
    <3> QED
      BY <2>1, <2>6, <3>1, <3>2, <3>3, EndTraceInv
  <2> QED
    BY <1>3, <2>2, <2>3, <2>5, <2>6 DEF ReapTracee
<1>4. ASSUME StartFanotify PROVE IInv'
  <2>1. CASE EndTrace(Failed) /\ UNCHANGED st
    BY <1>4, <1>f, <2>1, EndTraceInv DEF StartFanotify
  <2>2. CASE /\ stage' = "read" /\ st' = [st EXCEPT ![Root(now, "fanotify")] = "free"]
             /\ UNCHANGED <<now, traced, loop>>
    <3>1. Untraced' /\ OwnFilesOnly'
      BY <1>4, <2>2, SameTurn DEF StartFanotify
    <3>2. TracedKnown'
      BY <1>4, <2>2 DEF StartFanotify, IInv, Types, TracedKnown, Known
    <3>3. ReportOwn' /\ Stagewise' /\ UntoldAreChildren'
      BY <1>4, <2>2 DEF StartFanotify, IInv, ReportOwn, Stagewise, UntoldAreChildren
    <3> QED
      BY <3>1, <3>2, <3>3 DEF IInv
  <2> QED
    BY <1>4, <2>1, <2>2 DEF StartFanotify
<1>5. ASSUME ReadEvents PROVE IInv'
  <2>1. /\ stage = "read" /\ stage' = "wait"
        /\ UNCHANGED <<plan, now, traced, st, tracees, untold>>
    BY <1>5 DEF ReadEvents
  <2>2. Untraced' /\ OwnFilesOnly'
    BY <2>1, SameTurn
  <2>3. TracedKnown' /\ ReportOwn' /\ Stagewise' /\ UntoldAreChildren'
    BY <2>1 DEF IInv, TracedKnown, Known, ReportOwn, Stagewise, Watching, UntoldAreChildren
  <2> QED
    BY <2>2, <2>3 DEF IInv
<1>6. ASSUME ReadFails PROVE IInv'
  BY <1>6, <1>f, EndTraceInv DEF ReadFails
<1>7. ASSUME PollChild PROVE IInv'
  <2>1. /\ stage = "wait" /\ plan' = plan /\ untold' = untold /\ plan[now].kind # "ptrace"
        /\ \A p \in Procs : st'[p] = "traced" => st[p] = "traced"
    BY <1>7 DEF PollChild, IInv, Types, Stagewise, Watching
  <2>2. CASE EndTrace(Failed)
    BY <2>1, <2>2, <1>f, EndTraceInv
  <2>3. CASE EndTrace(Artifacts(kept, report))
    <3>1. Artifacts(kept, report) \in {Failed} \cup SUBSET (Procs \cup {Other})
      BY ReportTypes DEF IInv
    <3>2. \A p \in Procs : st'[p] = "traced" => st[p] = "traced" /\ (p.trace # now \/ p \in untold)
      BY <2>1, NoneLeft
    <3> QED
      BY <2>1, <2>3, <3>1, <3>2, EndTraceInv
  <2>4. CASE stage' = "read" /\ UNCHANGED <<now, traced, tracees>>
    <3>1. Untraced' /\ OwnFilesOnly'
      BY <2>1, <2>4, SameTurn
    <3>2. TracedKnown' /\ ReportOwn' /\ Stagewise' /\ UntoldAreChildren'
      BY <2>1, <2>4 DEF IInv, TracedKnown, Known, ReportOwn, Stagewise, UntoldAreChildren
    <3> QED
      BY <3>1, <3>2 DEF IInv
  <2> QED
    BY <1>7, <2>2, <2>3, <2>4 DEF PollChild, EndIteration
<1>8. ASSUME NEW p \in Procs, TraceeOpens(p) PROVE IInv'
  <2>1. /\ stage = "ptrace" /\ st[p] = "traced" /\ report' \subseteq report \cup {p}
        /\ tracees \subseteq tracees' /\ UNCHANGED <<plan, turn, st, untold>>
    BY <1>8 DEF TraceeOpens
  <2>2. Untraced' /\ OwnFilesOnly'
    BY <2>1, SameTurn
  <2>3. TracedKnown' /\ UntoldAreChildren' /\ Stagewise'
    BY <2>1 DEF IInv, TracedKnown, Known, UntoldAreChildren, Stagewise, Watching
  <2>4. ReportOwn'
    BY <2>1 DEF IInv, ReportOwn, TracedKnown, Known, Excused
  <2> QED
    BY <2>2, <2>3, <2>4 DEF IInv
<1>9. ASSUME NEW p \in Procs, TraceeForks(p) PROVE IInv'
  <2>1. /\ stage = "ptrace" /\ st[p] = "traced" /\ p.kin = "root" /\ p \notin untold
        /\ st' = [st EXCEPT ![Child(p)] = "traced"] /\ UNCHANGED <<plan, turn, report>>
        /\ tracees \subseteq tracees' /\ untold \subseteq untold'
        /\ Child(p) \in tracees' \cup untold' /\ untold' \subseteq untold \cup {Child(p)}
    BY <1>9 DEF TraceeForks, IInv, UntoldAreChildren
  <2>2. Child(p) \in Procs /\ Child(p).trace = p.trace /\ Child(p).kin = "child"
    BY DEF Child, Procs
  <2>3. Untraced' /\ OwnFilesOnly'
    BY <2>1, SameTurn
  <2>4. TracedKnown'
    <3> SUFFICES ASSUME NEW q \in Procs, st'[q] = "traced" PROVE Known(q)'
      BY DEF TracedKnown
    <3>1. CASE q = Child(p)
      BY <2>1, <2>2, <3>1 DEF IInv, TracedKnown, Known
    <3>2. CASE q # Child(p)
      BY <2>1, <3>2 DEF IInv, Types, TracedKnown, Known
    <3> QED
      BY <3>1, <3>2
  <2>5. ReportOwn' /\ UntoldAreChildren' /\ Stagewise'
    BY <2>1, <2>2 DEF IInv, ReportOwn, Excused, UntoldAreChildren, Stagewise, Watching
  <2> QED
    BY <2>3, <2>4, <2>5 DEF IInv
<1>10. ASSUME NEW p \in Procs, FreeOpens(p) PROVE IInv'
  BY <1>10, QuietStep DEF FreeOpens
<1>11. ASSUME NEW p \in Procs, FreeForks(p) PROVE IInv'
  <2>1. \A q \in Procs : st'[q] = "traced" => st[q] = "traced"
    BY <1>11 DEF FreeForks, IInv, Types
  <2> QED
    BY <1>11, <2>1, QuietStep DEF FreeForks
<1>12. ASSUME OtherOpens PROVE IInv'
  BY <1>12, QuietStep DEF OtherOpens
<1>13. ASSUME NEW p \in Procs, Exits(p) PROVE IInv'
  <2>1. \A q \in Procs : st'[q] = "traced" => st[q] = "traced"
    BY <1>13 DEF Exits, Remains, IInv, Types
  <2> QED
    BY <1>13, <2>1, QuietStep DEF Exits
<1>14. ASSUME NEW p \in Procs, Killed(p) PROVE IInv'
  <2>1. \A q \in Procs : st'[q] = "traced" => st[q] = "traced"
    BY <1>14 DEF Killed, Remains, IInv, Types
  <2> QED
    BY <1>14, <2>1, QuietStep DEF Killed
<1>15. ASSUME UNCHANGED vars PROVE IInv'
  BY <1>15, QuietStep DEF vars
<1> QED
  BY <1>1, <1>2, <1>3, <1>4, <1>5, <1>6, <1>7, <1>8, <1>9, <1>10, <1>11, <1>12, <1>13, <1>14,
     <1>15 DEF Next, Backend

-----------------------------------------------------------------------------
\* What a successful ptrace trace reports are files of its own command's
\* processes, but for those a failed trace left traced and those whose fork
\* event never reached a loop: waitpid(None) of parent_trace hands the loop
\* whatever the thread traces.
THEOREM HostOwnFiles == Spec => []OwnFilesOnly
<1>1. IInv => OwnFilesOnly
  BY DEF IInv
<1> QED
  BY InitInv, StepInv, <1>1, PTL DEF Spec

-----------------------------------------------------------------------------
(***************************************************************************)
(* The second argument, about what a trace reports and leaves behind: what *)
(* is alive of a trace is awaited by the backend that runs, or excused;    *)
(* what has to reach a report is in it, or waits in fanotify's queue, and  *)
(* empty reads count only once the child is gone and nothing waits.        *)
(***************************************************************************)
\* What a trace may leave: of a root, anything but nothing; of a child, what
\* its tracer has to let go of.
Live(p) == IF p.kin = "root" THEN st[p] \notin {"none", "gone"} ELSE st[p] \in {"traced"} \cup Ends

\* The backend that runs will wait for p.
Awaited(p) ==
    /\ p.trace = now
    /\ IF p.run = "ptrace" THEN stage = "ptrace" /\ p \in tracees
                           ELSE p.kin = "root" /\ stage \in Watching /\ ~childDone

LiveKnown == \A p \in Procs : Live(p) => Excused(p) \/ Awaited(p)

\* A root that opened its file is in what the trace has of it so far.
RootReported ==
    \A t \in Traces : Root(t, "ptrace") \in opened =>
        \/ traced[t] = Failed
        \/ t = now /\ stage = "ptrace" /\ Root(t, "ptrace") \in report
        \/ t = now /\ stage \in {"mark"} \cup Watching /\ Root(t, "ptrace") \in kept
        \/ Root(t, "ptrace") \in traced[t]

\* An event that has to reach the report is there or waits in the queue, and
\* empty reads are counted only when none waits.
Lost(p) ==
    \/ traced[p.trace] = Failed \/ p.trace \in overflown
    \/ p.trace \in DOMAIN plan /\ plan[p.trace].inImage
Underway(p) == p.trace = now /\ stage \in Watching /\ (p \in report \/ (idle = 0 /\ p \in ToSet(queue)))
EarlyReported == \A p \in early : p.run = "fanotify" => Lost(p) \/ Underway(p) \/ p \in traced[p.trace]

\* The loop of fanotify_parent: empty reads count after the child's end.
Counting ==
    /\ stage \notin Watching => queue = <<>> /\ ~childDone /\ idle = 0 /\ report \subseteq Procs
    /\ ~childDone => idle = 0
    /\ stage = "read" => idle <= IdleLoops

\* Only the traces of the plan are made.
NoneUnplanned == \A t \in Traces \ DOMAIN plan : traced[t] = {}

\* The parts of TypeOK that Types does not have.
HistoryTypes ==
    /\ early \subseteq opened /\ opened \subseteq Procs
    /\ overflown \subseteq Traces /\ faults \in 0..MaxFaults /\ ignoring \in BOOLEAN
LoopTypes ==
    /\ rootStatus \in Ends \cup {"none"} /\ kept \subseteq Procs /\ Len(queue) <= QueueSize
    /\ childDone \in BOOLEAN /\ idle \in 0..IdleLoops + 1

HInv == IInv /\ TypeOK /\ LiveKnown /\ RootReported /\ EarlyReported /\ Counting /\ NoneUnplanned

LEMMA FreshTypes == Len(<<>>) <= QueueSize /\ 0 \in 0..IdleLoops + 1 /\ FALSE \in BOOLEAN
<1>1. QueueSize \in Nat /\ IdleLoops \in Nat
  BY CountsAreNats
<1>2. Len(<<>>) = 0
  OBVIOUS
<1> QED
  BY <1>1, <1>2

LEMMA InitHInv == Init => HInv
<1> SUFFICES ASSUME Init PROVE HInv
  OBVIOUS
<1>1. IInv
  BY InitInv
<1>2. HistoryTypes
  BY CountsAreNats DEF Init, HistoryTypes
<1>3. LoopTypes
  BY FreshTypes DEF Init, LoopTypes
<1>4. TypeOK
  BY <1>1, <1>2, <1>3 DEF TypeOK, IInv, Types, HistoryTypes, LoopTypes
<1>5. LiveKnown
  BY DEF Init, LiveKnown, Live, Ends
<1>6. RootReported /\ EarlyReported /\ Counting
  BY CountsAreNats DEF Init, RootReported, EarlyReported, Counting, Watching
<1>7. NoneUnplanned
  BY DEF Init, NoneUnplanned
<1> QED
  BY <1>1, <1>4, <1>5, <1>6, <1>7 DEF HInv

LEMMA EndTraceStage ==
  ASSUME NEW result, EndTrace(result)
  PROVE  stage' \in {"start", "end"} /\ FreshLoop
  BY DEF EndTrace

\* What the loops keep beside the reports.
LEMMA StepCounting ==
  ASSUME HInv, IInv', [Next]_vars
  PROVE  Counting'
<1> USE CountsAreNats DEF turn, history, loop
<1>e. ASSUME NEW result, EndTrace(result) PROVE Counting'
  BY <1>e, EndTraceStage DEF FreshLoop, Counting, Watching
<1>s. ASSUME UNCHANGED <<stage, queue, childDone, idle>>, report' \subseteq report \cup Procs
      PROVE  Counting'
  BY <1>s DEF HInv, Counting
<1>1. ASSUME StartPtrace PROVE Counting'
  BY <1>1 DEF StartPtrace, HInv, Counting, Watching
<1>2. ASSUME PtraceFails PROVE Counting'
  BY <1>2, <1>e DEF PtraceFails
<1>3. ASSUME NEW p \in Procs, ReapTracee(p) PROVE Counting'
  <2>1. CASE EndTrace(Failed) \/ EndTrace(Artifacts(report, {}))
    BY <2>1, <1>e
  <2>2. CASE UNCHANGED <<turn, report, kept, queue, childDone, idle>>
    BY <2>2, <1>s
  <2>3. CASE stage' = "mark" /\ report' = {} /\ UNCHANGED <<queue, childDone, idle>>
    BY <1>3, <2>3 DEF ReapTracee, HInv, Counting, Watching
  <2> QED
    BY <1>3, <2>1, <2>2, <2>3 DEF ReapTracee
<1>4. ASSUME StartFanotify PROVE Counting'
  <2>1. CASE EndTrace(Failed)
    BY <2>1, <1>e
  <2>2. CASE stage' = "read" /\ UNCHANGED loop
    BY <1>4, <2>2 DEF StartFanotify, HInv, Counting, Watching
  <2> QED
    BY <1>4, <2>1, <2>2 DEF StartFanotify
<1>5. ASSUME ReadEvents PROVE Counting'
  BY <1>5 DEF ReadEvents, CountIdle, HInv, Counting, Watching
<1>6. ASSUME ReadFails PROVE Counting'
  BY <1>6, <1>e DEF ReadFails
<1>7. ASSUME PollChild PROVE Counting'
  <2>1. ASSUME NEW done, EndIteration(done), done \in BOOLEAN, childDone => done PROVE Counting'
    <3>1. CASE EndTrace(Artifacts(kept, report))
      BY <3>1, <1>e
    <3>2. CASE ~(done /\ idle > IdleLoops) /\ stage' = "read" /\ childDone' = done /\ UNCHANGED <<report, queue, idle>>
      BY <2>1, <3>2 DEF HInv, Counting, Watching, TypeOK
    <3> QED
      BY <2>1, <3>1, <3>2 DEF EndIteration, IsOver
  <2> QED
    BY <1>7, <1>e, <2>1 DEF PollChild, SeenEnd
<1>8. ASSUME NEW p \in Procs, TraceeOpens(p) PROVE Counting'
  BY <1>8, <1>s DEF TraceeOpens
<1>9. ASSUME NEW p \in Procs, TraceeForks(p) PROVE Counting'
  BY <1>9, <1>s DEF TraceeForks
<1>10. ASSUME NEW p \in Procs, FreeOpens(p) PROVE Counting'
  BY <1>10 DEF FreeOpens, HInv, Counting, Watching
<1>11. ASSUME NEW p \in Procs, FreeForks(p) PROVE Counting'
  BY <1>11, <1>s DEF FreeForks
<1>12. ASSUME OtherOpens PROVE Counting'
  BY <1>12 DEF OtherOpens, HInv, Counting, Watching
<1>13. ASSUME NEW p \in Procs, Exits(p) \/ Killed(p) PROVE Counting'
  BY <1>13, <1>s DEF Exits, Killed
<1>14. ASSUME UNCHANGED vars PROVE Counting'
  BY <1>14, <1>s DEF vars
<1> QED
  BY <1>1, <1>2, <1>3, <1>4, <1>5, <1>6, <1>7, <1>8, <1>9, <1>10, <1>11, <1>12, <1>13, <1>14
     DEF Next, Backend

LEMMA SubSeqLen ==
  ASSUME NEW S, NEW q \in Seq(S), NEW n \in 1..Len(q)
  PROVE  Len(SubSeq(q, n + 1, Len(q))) <= Len(q)
  OBVIOUS

LEMMA StepHistory ==
  ASSUME HInv, [Next]_vars
  PROVE  HistoryTypes'
<1>a. HistoryTypes
  BY DEF HInv, TypeOK, HistoryTypes
<1>n. now \in Traces
  BY NowIsTrace DEF HInv, IInv
<1>s. ASSUME UNCHANGED <<early, opened, overflown, faults, ignoring>> PROVE HistoryTypes'
  BY <1>a, <1>s DEF HistoryTypes
<1>f. ASSUME UNCHANGED <<early, opened, overflown, ignoring>>, faults < MaxFaults, faults' = faults + 1
      PROVE  HistoryTypes'
  BY <1>a, <1>f, CountsAreNats DEF HistoryTypes
<1>1. CASE StartPtrace \/ StartFanotify \/ ReadEvents \/ ReadFails \/ PollChild \/ UNCHANGED vars
  BY <1>1, <1>s DEF StartPtrace, StartFanotify, ReadEvents, ReadFails, PollChild, vars, history
<1>2. CASE PtraceFails
  BY <1>2, <1>f DEF PtraceFails
<1>3. CASE OtherOpens
  BY <1>3, <1>a, <1>n DEF OtherOpens, Enqueue, HistoryTypes
<1>4. ASSUME NEW p \in Procs, TraceeForks(p) \/ FreeForks(p) \/ Exits(p) \/ ReapTracee(p)
      PROVE  HistoryTypes'
  BY <1>4, <1>s DEF TraceeForks, FreeForks, Exits, ReapTracee, history
<1>5. ASSUME NEW p \in Procs, TraceeOpens(p) \/ FreeOpens(p) PROVE HistoryTypes'
  <2>1. /\ opened' = opened \cup {p} /\ early' \subseteq early \cup {p} /\ overflown' \subseteq overflown \cup {now}
        /\ UNCHANGED <<faults, ignoring>>
    BY <1>5 DEF TraceeOpens, FreeOpens, Enqueue
  <2> QED
    BY <1>a, <1>n, <2>1 DEF HistoryTypes
<1>6. ASSUME NEW p \in Procs, Killed(p) PROVE HistoryTypes'
  BY <1>6, <1>f DEF Killed
<1> QED
  BY <1>1, <1>2, <1>3, <1>4, <1>5, <1>6 DEF Next, Backend

LEMMA StepLoop ==
  ASSUME HInv, IInv', [Next]_vars
  PROVE  LoopTypes'
<1>a. LoopTypes /\ Counting
  BY DEF HInv, TypeOK, LoopTypes
<1>q. queue \in Seq(Procs \cup {Other}) /\ queue' \in Seq(Procs \cup {Other})
  BY DEF HInv, IInv, Types
<1>e. ASSUME NEW result, EndTrace(result) PROVE LoopTypes'
  BY <1>e, FreshTypes DEF EndTrace, FreshLoop, LoopTypes
<1>s. ASSUME UNCHANGED <<rootStatus, kept, queue, childDone, idle>> PROVE LoopTypes'
  BY <1>a, <1>s DEF LoopTypes
<1>1. CASE StartPtrace \/ UNCHANGED vars
  BY <1>1, <1>s DEF StartPtrace, vars, loop
<1>2. CASE PtraceFails \/ ReadFails
  BY <1>2, <1>e DEF PtraceFails, ReadFails
<1>3. ASSUME NEW p \in Procs, ReapTracee(p) PROVE LoopTypes'
  <2>1. StatusAfter(p) \in Ends \cup {"none"}
    BY <1>3, <1>a DEF ReapTracee, StatusAfter, LoopTypes
  <2>2. CASE EndTrace(Failed) \/ EndTrace(Artifacts(report, {}))
    BY <2>2, <1>e
  <2>3. CASE rootStatus' = StatusAfter(p) /\ UNCHANGED <<kept, queue, childDone, idle>>
    BY <1>a, <2>1, <2>3 DEF LoopTypes
  <2>4. CASE /\ stage = "ptrace" /\ kept' = report /\ rootStatus' = "none"
             /\ UNCHANGED <<queue, childDone, idle>>
    BY <1>a, <2>4 DEF Counting, Watching, LoopTypes
  <2> QED
    BY <1>3, <2>2, <2>3, <2>4 DEF ReapTracee
<1>4. CASE StartFanotify
  BY <1>4, <1>e, <1>s DEF StartFanotify, loop
<1>5. CASE ReadEvents
  <2>1. idle' \in 0..IdleLoops + 1
    BY <1>5, <1>a, CountsAreNats DEF ReadEvents, CountIdle, Counting, LoopTypes
  <2>2. Len(queue') <= QueueSize
    <3>1. CASE queue' = queue
      BY <1>a, <3>1 DEF LoopTypes
    <3>2. ASSUME NEW n \in 1..Len(queue), queue' = SubSeq(queue, n + 1, Len(queue))
          PROVE  Len(queue') <= QueueSize
      <4>1. Len(queue') <= Len(queue) /\ Len(queue) \in Nat /\ Len(queue') \in Nat
        BY <3>2, <1>q, SubSeqLen
      <4> QED
        BY <4>1, <1>a, CountsAreNats DEF LoopTypes
    <3> QED
      BY <1>5, <3>1, <3>2 DEF ReadEvents
  <2> QED
    BY <1>5, <1>a, <2>1, <2>2 DEF ReadEvents, LoopTypes
<1>6. CASE PollChild
  <2>1. ASSUME NEW done \in BOOLEAN, EndIteration(done) PROVE LoopTypes'
    BY <2>1, <1>a, <1>e DEF EndIteration, LoopTypes
  <2> QED
    BY <1>6, <1>e, <2>1 DEF PollChild, SeenEnd
<1>7. ASSUME NEW p \in Procs, TraceeOpens(p) \/ TraceeForks(p) \/ FreeForks(p) \/ Exits(p) \/ Killed(p)
      PROVE  LoopTypes'
  BY <1>7, <1>s DEF TraceeOpens, TraceeForks, FreeForks, Exits, Killed, loop
<1>8. ASSUME NEW p \in Procs \cup {Other}, Enqueue(p), UNCHANGED <<rootStatus, kept, childDone, idle>>
      PROVE  LoopTypes'
  BY <1>8, <1>a, <1>q, CountsAreNats DEF Enqueue, LoopTypes
<1>9. CASE OtherOpens \/ (\E p \in Procs : FreeOpens(p))
  BY <1>8, <1>9 DEF OtherOpens, FreeOpens
<1> QED
  BY <1>1, <1>2, <1>3, <1>4, <1>5, <1>6, <1>7, <1>9 DEF Next, Backend

LEMMA StepTypeOK ==
  ASSUME HInv, IInv', [Next]_vars
  PROVE  TypeOK'
<1>1. HistoryTypes' /\ LoopTypes'
  BY StepHistory, StepLoop
<1> QED
  BY <1>1 DEF TypeOK, IInv, Types, HistoryTypes, LoopTypes

-----------------------------------------------------------------------------
\* What is alive.

LEMMA Facts ==
  ASSUME HInv
  PROVE  /\ now \in Traces /\ (stage # "end" => traced[now] = {}) /\ Failed # {}
         /\ \A p \in Procs : p.trace \in Traces /\ p.run \in {"ptrace", "fanotify"} /\ p.kin \in {"root", "child"}
         /\ \A p \in untold : p.kin = "child"
         /\ DOMAIN plan = 1..Len(plan) /\ now \in DOMAIN plan
         /\ traced \in [Traces -> {Failed} \cup SUBSET (Procs \cup {Other})]
         /\ st \in [Procs -> Places]
<1>1. now \in Traces
  BY NowIsTrace DEF HInv, IInv
<1>2. stage # "end" => traced[now] = {}
  BY <1>1, NowIsTrace DEF HInv, IInv, Untraced, Over
<1>3. Failed # {}
  BY FailedIsNew
<1> QED
  BY <1>1, <1>2, <1>3, PlanFacts DEF HInv, IInv, Types, UntoldAreChildren, Procs

LEMMA RootFacts ==
  \A t \in Traces, run \in {"ptrace", "fanotify"} :
      /\ Root(t, run) \in Procs /\ Root(t, run).trace = t
      /\ Root(t, run).run = run /\ Root(t, run).kin = "root"
  BY DEF Root, Procs

LEMMA RootIs ==
  \A p \in Procs : p.kin = "root" => p = Root(p.trace, p.run)
  BY DEF Root, Procs

LEMMA EndTraceLive ==
  ASSUME HInv, NEW result, EndTrace(result), stage # "end", untold' = untold,
         \A p \in Procs : Live(p)' => Live(p),
         result = Failed \/ \A p \in Procs : Live(p)' => ~Awaited(p)
  PROVE  LiveKnown'
<1> SUFFICES ASSUME NEW p \in Procs, Live(p)' PROVE Excused(p)'
  BY DEF LiveKnown
<1>1. traced' = [traced EXCEPT ![now] = result]
  BY DEF EndTrace
<1>2. Excused(p) \/ Awaited(p)
  BY DEF HInv, LiveKnown
<1>3. CASE Excused(p)
  BY <1>1, <1>3, Facts DEF Excused
<1>4. CASE Awaited(p)
  BY <1>1, <1>4, Facts DEF Excused, Awaited
<1> QED
  BY <1>2, <1>3, <1>4

LEMMA SameLive ==
  ASSUME HInv, UNCHANGED <<now, stage, traced, childDone>>, tracees \subseteq tracees', untold \subseteq untold',
         \A p \in Procs : Live(p)' => Live(p)
  PROVE  LiveKnown'
  BY DEF HInv, LiveKnown, Excused, Awaited

LEMMA StepLive ==
  ASSUME HInv, [Next]_vars
  PROVE  LiveKnown'
<1> USE DEF turn, history, loop
<1>r. OwnRoot \in Procs /\ OwnRoot.trace = now /\ OwnRoot.run = "ptrace" /\ OwnRoot.kin = "root"
  BY Facts, RootFacts DEF OwnRoot
<1>1. ASSUME StartPtrace PROVE LiveKnown'
  <2> SUFFICES ASSUME NEW p \in Procs, Live(p)' PROVE Excused(p)' \/ Awaited(p)'
    BY DEF LiveKnown
  <2>1. CASE p = OwnRoot
    BY <1>1, <2>1, <1>r DEF StartPtrace, Awaited
  <2>2. CASE p # OwnRoot
    <3>1. Live(p)
      BY <1>1, <2>2, <1>r, Facts DEF StartPtrace, Live
    <3> QED
      BY <1>1, <3>1 DEF StartPtrace, HInv, LiveKnown, Excused, Awaited, Watching
  <2> QED
    BY <2>1, <2>2
<1>2. ASSUME PtraceFails PROVE LiveKnown'
  <2>1. \A p \in Procs : Live(p)' => Live(p)
    BY <1>2, Facts DEF PtraceFails, Live, Ends
  <2> QED
    BY <1>2, <2>1, EndTraceLive DEF PtraceFails
<1>3. ASSUME NEW p \in Procs, ReapTracee(p) PROVE LiveKnown'
  <2>1. /\ stage = "ptrace" /\ untold' = untold
        /\ \A q \in Procs : Live(q)' => Live(q) /\ q # p
    BY <1>3, Facts DEF ReapTracee, Live, Ends
  <2>2. CASE EndTrace(Failed)
    BY <2>1, <2>2, EndTraceLive
  <2>3. CASE tracees' = tracees \ {p} /\ UNCHANGED <<turn, childDone>>
    BY <2>1, <2>3 DEF HInv, LiveKnown, Excused, Awaited
  <2>4. ASSUME IsDone(tracees \ {p}), NEW q \in Procs, Live(q)' PROVE ~Awaited(q)
    BY <2>1, <2>4 DEF IsDone, Awaited, Watching
  <2>5. CASE EndTrace(Artifacts(report, {})) /\ IsDone(tracees \ {p})
    BY <2>1, <2>4, <2>5, EndTraceLive
  <2>6. CASE stage' = "mark" /\ UNCHANGED <<now, traced>> /\ IsDone(tracees \ {p})
    BY <2>1, <2>4, <2>6 DEF HInv, LiveKnown, Excused
  <2> QED
    BY <1>3, <2>2, <2>3, <2>5, <2>6 DEF ReapTracee
<1>4. ASSUME StartFanotify PROVE LiveKnown'
  <2>0. stage \in {"mark", "start"} /\ ~childDone /\ untold' = untold
    BY <1>4 DEF StartFanotify, HInv, Counting, Watching
  <2>1. CASE EndTrace(Failed) /\ UNCHANGED st
    BY <2>0, <2>1, EndTraceLive DEF Live
  <2>2. CASE /\ stage' = "read" /\ st' = [st EXCEPT ![Root(now, "fanotify")] = "free"]
             /\ UNCHANGED <<now, traced, loop>>
    <3> SUFFICES ASSUME NEW p \in Procs, Live(p)' PROVE Excused(p)' \/ Awaited(p)'
      BY DEF LiveKnown
    <3>1. CASE p = Root(now, "fanotify")
      BY <2>0, <2>2, <3>1, Facts, RootFacts DEF Awaited, Watching
    <3>2. CASE p # Root(now, "fanotify")
      <4>1. Live(p)
        BY <2>2, <3>2, Facts DEF Live
      <4> QED
        BY <2>0, <2>2, <4>1 DEF HInv, LiveKnown, Excused, Awaited, Watching
    <3> QED
      BY <3>1, <3>2
  <2> QED
    BY <1>4, <2>1, <2>2 DEF StartFanotify
<1>5. ASSUME ReadEvents PROVE LiveKnown'
  BY <1>5 DEF ReadEvents, HInv, LiveKnown, Live, Excused, Awaited, Watching
<1>6. ASSUME ReadFails PROVE LiveKnown'
  BY <1>6, EndTraceLive DEF ReadFails, Live
<1>7. ASSUME PollChild PROVE LiveKnown'
  <2> DEFINE root == Root(now, "fanotify")
  <2>1. /\ stage = "wait" /\ untold' = untold
        /\ \A p \in Procs : Live(p)' => Live(p)
    BY <1>7, Facts DEF PollChild, Live, Ends
  <2>2. CASE EndTrace(Failed)
    BY <2>1, <2>2, EndTraceLive
  <2>3. ASSUME NEW done \in BOOLEAN, EndIteration(done), childDone => done,
               \A p \in Procs : Live(p)' /\ Awaited(p) => ~done
        PROVE  LiveKnown'
    <3>1. CASE EndTrace(Artifacts(kept, report)) /\ done
      BY <2>1, <2>3, <3>1, EndTraceLive
    <3>2. CASE stage' = "read" /\ childDone' = done /\ UNCHANGED <<now, traced, tracees>>
      BY <2>1, <2>3, <3>2 DEF HInv, LiveKnown, Excused, Awaited, Watching
    <3> QED
      BY <2>3, <3>1, <3>2 DEF EndIteration, IsOver
  <2>4. CASE childDone /\ EndIteration(TRUE)
    BY <2>1, <2>3, <2>4 DEF Awaited, Watching
  <2>5. CASE EndIteration(FALSE) /\ ~childDone
    BY <2>3, <2>5
  <2>6. CASE EndIteration(TRUE) /\ ~childDone /\ st[root] \in {"fine", "gone"}
    <3>1. st'[root] = "gone"
      BY <1>7, <2>6, Facts, RootFacts DEF PollChild, Ends
    <3>2. ASSUME NEW p \in Procs, Live(p)', Awaited(p) PROVE FALSE
      <4>1. p = root
        BY <2>1, <3>2, Facts, RootIs DEF Awaited
      <4> QED
        BY <3>1, <3>2, <4>1, Facts, RootFacts DEF Live
    <3> QED
      BY <2>3, <2>6, <3>2
  <2> QED
    BY <1>7, <2>2, <2>4, <2>5, <2>6 DEF PollChild, SeenEnd
<1>8. ASSUME NEW p \in Procs, TraceeOpens(p) PROVE LiveKnown'
  BY <1>8, SameLive DEF TraceeOpens, Live
<1>9. ASSUME NEW p \in Procs, TraceeForks(p) PROVE LiveKnown'
  <2>1. /\ stage = "ptrace" /\ st[p] = "traced" /\ p.kin = "root"
        /\ st' = [st EXCEPT ![Child(p)] = "traced"] /\ UNCHANGED turn
        /\ tracees \subseteq tracees' /\ untold \subseteq untold' /\ Child(p) \in tracees' \cup untold'
        /\ UNCHANGED childDone
    BY <1>9 DEF TraceeForks
  <2>2. Child(p) \in Procs /\ Child(p).trace = p.trace /\ Child(p).run = p.run
    BY DEF Child, Procs
  <2>3. Excused(p) \/ Awaited(p)
    BY <2>1 DEF HInv, LiveKnown, Live
  <2> SUFFICES ASSUME NEW q \in Procs, Live(q)' PROVE Excused(q)' \/ Awaited(q)'
    BY DEF LiveKnown
  <2>4. CASE q = Child(p)
    BY <2>1, <2>2, <2>3, <2>4, Facts DEF Excused, Awaited, Watching
  <2>5. CASE q # Child(p)
    <3>1. Live(q)
      BY <2>1, <2>5, Facts DEF Live
    <3> QED
      BY <2>1, <3>1 DEF HInv, LiveKnown, Excused, Awaited
  <2> QED
    BY <2>4, <2>5
<1>10. ASSUME NEW p \in Procs, FreeOpens(p) PROVE LiveKnown'
  BY <1>10, SameLive DEF FreeOpens, Live
<1>11. ASSUME NEW p \in Procs, FreeForks(p) PROVE LiveKnown'
  <2>1. Child(p) \in Procs /\ Child(p).kin = "child"
    BY DEF Child, Procs
  <2>2. \A q \in Procs : Live(q)' => Live(q)
    BY <1>11, <2>1, Facts DEF FreeForks, Live, Ends
  <2> QED
    BY <1>11, <2>2, SameLive DEF FreeForks
<1>12. ASSUME OtherOpens PROVE LiveKnown'
  BY <1>12, SameLive DEF OtherOpens, Live
<1>13. ASSUME NEW p \in Procs, Exits(p) \/ Killed(p) PROVE LiveKnown'
  <2>1. \A q \in Procs : Live(q)' => Live(q)
    <3> SUFFICES ASSUME NEW q \in Procs, Live(q)' PROVE Live(q)
      OBVIOUS
    <3>1. CASE q = p
      BY <1>13, <3>1, Facts DEF Exits, Killed, Remains, Live, Ends
    <3>2. CASE q # p
      BY <1>13, <3>2, Facts DEF Exits, Killed, Live
    <3> QED
      BY <3>1, <3>2
  <2> QED
    BY <1>13, <2>1, SameLive DEF Exits, Killed
<1>14. ASSUME UNCHANGED vars PROVE LiveKnown'
  BY <1>14, SameLive DEF vars, Live
<1> QED
  BY <1>1, <1>2, <1>3, <1>4, <1>5, <1>6, <1>7, <1>8, <1>9, <1>10, <1>11, <1>12, <1>13, <1>14
     DEF Next, Backend

-----------------------------------------------------------------------------
\* What is reported of the roots.

LEMMA EndTraceRoots ==
  ASSUME HInv, NEW result, EndTrace(result), stage # "end", opened' = opened,
         result = Failed \/ (OwnRoot \in opened => OwnRoot \in result)
  PROVE  RootReported'
<1> SUFFICES ASSUME NEW t \in Traces, Root(t, "ptrace") \in opened
             PROVE  traced'[t] = Failed \/ Root(t, "ptrace") \in traced'[t]
  BY DEF RootReported
<1>1. traced' = [traced EXCEPT ![now] = result]
  BY DEF EndTrace
<1>2. CASE t = now
  BY <1>1, <1>2, Facts DEF OwnRoot
<1>3. CASE t # now
  BY <1>1, <1>3, Facts DEF HInv, RootReported
<1> QED
  BY <1>2, <1>3

\* Of the trace that runs.
LEMMA OwnReported ==
  ASSUME HInv, stage # "end", OwnRoot \in opened
  PROVE  \/ stage = "ptrace" /\ OwnRoot \in report
         \/ stage \in {"mark"} \cup Watching /\ OwnRoot \in kept
  BY Facts DEF HInv, RootReported, OwnRoot

LEMMA SameRoots ==
  ASSUME HInv, UNCHANGED <<now, stage, traced, kept>>, report \subseteq report',
         \A t \in Traces : Root(t, "ptrace") \in opened' => Root(t, "ptrace") \in opened
  PROVE  RootReported'
  BY DEF HInv, RootReported

\* The steps from one stage of a trace to the next.
LEMMA NextStageRoots ==
  ASSUME HInv, stage # "end", UNCHANGED <<now, traced, opened>>,
         OwnRoot \in opened => stage' \in {"mark"} \cup Watching /\ OwnRoot \in kept'
  PROVE  RootReported'
<1> SUFFICES ASSUME NEW t \in Traces, Root(t, "ptrace") \in opened
             PROVE  \/ traced[t] = Failed \/ Root(t, "ptrace") \in traced[t]
                    \/ t = now /\ stage' \in {"mark"} \cup Watching /\ Root(t, "ptrace") \in kept'
  BY DEF RootReported
<1>1. CASE t = now
  BY <1>1 DEF OwnRoot
<1>2. CASE t # now
  BY <1>2 DEF HInv, RootReported
<1> QED
  BY <1>1, <1>2

LEMMA StepRoots ==
  ASSUME HInv, [Next]_vars
  PROVE  RootReported'
<1> USE DEF turn, history, loop
<1>r. OwnRoot \in Procs /\ OwnRoot.trace = now /\ OwnRoot.run = "ptrace" /\ OwnRoot.kin = "root"
  BY Facts, RootFacts DEF OwnRoot
<1>1. ASSUME StartPtrace PROVE RootReported'
  <2>1. OwnRoot \notin opened
    BY <1>1, OwnReported DEF StartPtrace, Watching
  <2> QED
    BY <1>1, <2>1, NextStageRoots DEF StartPtrace
<1>2. ASSUME PtraceFails PROVE RootReported'
  BY <1>2, EndTraceRoots DEF PtraceFails
<1>3. ASSUME NEW p \in Procs, ReapTracee(p) PROVE RootReported'
  <2>1. stage = "ptrace" /\ opened' = opened
    BY <1>3 DEF ReapTracee
  <2>2. OwnRoot \in opened => OwnRoot \in report
    BY <2>1, OwnReported DEF Watching
  <2>3. CASE EndTrace(Failed)
    BY <2>1, <2>3, EndTraceRoots
  <2>4. CASE EndTrace(Artifacts(report, {}))
    BY <2>1, <2>2, <2>4, EndTraceRoots DEF Artifacts
  <2>5. CASE UNCHANGED <<turn, report, kept>>
    BY <2>1, <2>5, SameRoots
  <2>6. CASE stage' = "mark" /\ kept' = report /\ UNCHANGED <<now, traced>>
    BY <2>1, <2>2, <2>6, NextStageRoots
  <2> QED
    BY <1>3, <2>3, <2>4, <2>5, <2>6 DEF ReapTracee
<1>4. ASSUME StartFanotify PROVE RootReported'
  <2>1. stage \in {"mark", "start"} /\ opened' = opened
    BY <1>4 DEF StartFanotify
  <2>2. CASE EndTrace(Failed)
    BY <2>1, <2>2, EndTraceRoots
  <2>3. CASE stage' = "read" /\ UNCHANGED <<now, traced, kept>>
    BY <2>1, <2>3, OwnReported, NextStageRoots DEF Watching
  <2> QED
    BY <1>4, <2>2, <2>3 DEF StartFanotify
<1>5. ASSUME ReadEvents PROVE RootReported'
  BY <1>5, OwnReported, NextStageRoots DEF ReadEvents, Watching
<1>6. ASSUME ReadFails PROVE RootReported'
  BY <1>6, EndTraceRoots DEF ReadFails
<1>7. ASSUME PollChild PROVE RootReported'
  <2>1. stage = "wait" /\ opened' = opened
    BY <1>7 DEF PollChild
  <2>2. OwnRoot \in opened => OwnRoot \in kept
    BY <2>1, OwnReported
  <2>3. CASE EndTrace(Failed)
    BY <2>1, <2>3, EndTraceRoots
  <2>4. CASE EndTrace(Artifacts(kept, report))
    BY <2>1, <2>2, <2>4, EndTraceRoots DEF Artifacts
  <2>5. CASE stage' = "read" /\ UNCHANGED <<now, traced, kept>>
    BY <2>1, <2>2, <2>5, NextStageRoots DEF Watching
  <2> QED
    BY <1>7, <2>3, <2>4, <2>5 DEF PollChild, EndIteration
<1>8. ASSUME NEW p \in Procs, TraceeOpens(p) PROVE RootReported'
  <2>1. /\ stage = "ptrace" /\ st[p] = "traced" /\ opened' = opened \cup {p}
        /\ report \subseteq report' /\ (p = OwnRoot => p \in report') /\ UNCHANGED <<now, stage, traced, kept>>
    BY <1>8 DEF TraceeOpens
  <2>2. CASE p.kin # "root" \/ p.run # "ptrace"
    BY <2>1, <2>2, RootFacts, SameRoots
  <2>3. CASE p.kin = "root" /\ p.run = "ptrace"
    <3>1. Excused(p) \/ Awaited(p)
      BY <2>1, <2>3 DEF HInv, LiveKnown, Live
    <3>2. traced[p.trace] = Failed \/ p = OwnRoot
      BY <2>3, <3>1, Facts, RootIs DEF Excused, Awaited, OwnRoot
    <3> SUFFICES ASSUME NEW t \in Traces, Root(t, "ptrace") = p
                 PROVE  traced[t] = Failed \/ (t = now /\ stage = "ptrace" /\ Root(t, "ptrace") \in report')
      BY <2>1 DEF HInv, RootReported
    <3> QED
      BY <2>1, <3>2, <1>r, RootFacts
  <2> QED
    BY <2>2, <2>3, Facts
<1>9. ASSUME NEW p \in Procs, TraceeForks(p) PROVE RootReported'
  BY <1>9, SameRoots DEF TraceeForks
<1>10. ASSUME NEW p \in Procs, FreeOpens(p) PROVE RootReported'
  <2>1. /\ stage \in Watching /\ st[p] = "free" /\ opened' = opened \cup {p}
        /\ UNCHANGED <<now, stage, traced, kept, report>>
    BY <1>10 DEF FreeOpens
  <2>2. CASE p.kin # "root" \/ p.run # "ptrace"
    BY <2>1, <2>2, RootFacts, SameRoots
  <2>3. CASE p.kin = "root" /\ p.run = "ptrace"
    <3>1. Excused(p) \/ Awaited(p)
      BY <2>1, <2>3 DEF HInv, LiveKnown, Live
    <3>2. traced[p.trace] = Failed
      BY <2>1, <2>3, <3>1, Facts DEF Excused, Awaited, Watching
    <3> QED
      BY <2>1, <3>2, RootFacts DEF HInv, RootReported
  <2> QED
    BY <2>2, <2>3, Facts
<1>11. ASSUME NEW p \in Procs, FreeForks(p) PROVE RootReported'
  BY <1>11, SameRoots DEF FreeForks
<1>12. ASSUME OtherOpens PROVE RootReported'
  BY <1>12, SameRoots DEF OtherOpens
<1>13. ASSUME NEW p \in Procs, Exits(p) \/ Killed(p) PROVE RootReported'
  BY <1>13, SameRoots DEF Exits, Killed
<1>14. ASSUME UNCHANGED vars PROVE RootReported'
  BY <1>14, SameRoots DEF vars
<1> QED
  BY <1>1, <1>2, <1>3, <1>4, <1>5, <1>6, <1>7, <1>8, <1>9, <1>10, <1>11, <1>12, <1>13, <1>14
     DEF Next, Backend

-----------------------------------------------------------------------------
\* What is reported by fanotify.

LEMMA EndTraceEarly ==
  ASSUME HInv, NEW result, EndTrace(result), stage # "end", UNCHANGED <<plan, early, overflown>>,
         result = Failed \/ \A p \in early : Underway(p) => Lost(p) \/ p \in result
  PROVE  EarlyReported'
<1> SUFFICES ASSUME NEW p \in early, p.run = "fanotify" PROVE Lost(p)' \/ p \in traced'[p.trace]
  BY DEF EarlyReported
<1>1. traced' = [traced EXCEPT ![now] = result]
  BY DEF EndTrace
<1>2. p \in Procs
  BY DEF HInv, TypeOK
<1>3. CASE Lost(p)
  BY <1>1, <1>2, <1>3, Facts DEF Lost
<1>4. CASE Underway(p) /\ ~Lost(p)
  BY <1>1, <1>2, <1>4, Facts DEF Underway, Lost
<1>5. CASE p \in traced[p.trace]
  BY <1>1, <1>2, <1>5, Facts
<1> QED
  BY <1>3, <1>4, <1>5 DEF HInv, EarlyReported

LEMMA SameEarly ==
  ASSUME HInv, UNCHANGED <<plan, now, traced, early>>, overflown \subseteq overflown',
         \A p \in early : Underway(p) => Underway(p)' \/ Lost(p)
  PROVE  EarlyReported'
  BY DEF HInv, EarlyReported, Lost

LEMMA Enqueued ==
  ASSUME NEW q \in Seq(Procs \cup {Other}), NEW who \in Procs \cup {Other}
  PROVE  ToSet(Append(q, who)) = ToSet(q) \cup {who}
  BY DEF ToSet

LEMMA Dequeued ==
  ASSUME NEW q \in Seq(Procs \cup {Other}), NEW n \in 1..Len(q), NEW p \in ToSet(q)
  PROVE  p \in ToSet(SubSeq(q, 1, n)) \cup ToSet(SubSeq(q, n + 1, Len(q)))
<1>1. PICK i \in 1..Len(q) : q[i] = p
  BY DEF ToSet
<1>2. CASE i <= n
  <2>1. i \in DOMAIN SubSeq(q, 1, n) /\ SubSeq(q, 1, n)[i] = q[i]
    BY <1>2
  <2> QED
    BY <1>1, <2>1 DEF ToSet
<1>3. CASE i > n
  <2>1. /\ i - n \in DOMAIN SubSeq(q, n + 1, Len(q))
        /\ SubSeq(q, n + 1, Len(q))[i - n] = q[i]
    BY <1>3
  <2> QED
    BY <1>1, <2>1 DEF ToSet
<1> QED
  BY <1>2, <1>3

LEMMA StepEarly ==
  ASSUME HInv, [Next]_vars
  PROVE  EarlyReported'
<1> USE DEF turn, history, loop
<1>q. queue \in Seq(Procs \cup {Other}) /\ early \subseteq Procs
  BY DEF HInv, TypeOK
<1>1. ASSUME StartPtrace PROVE EarlyReported'
  BY <1>1, SameEarly DEF StartPtrace, Underway, Watching
<1>2. ASSUME PtraceFails PROVE EarlyReported'
  BY <1>2, EndTraceEarly DEF PtraceFails
<1>3. ASSUME NEW p \in Procs, ReapTracee(p) PROVE EarlyReported'
  <2>1. stage = "ptrace" /\ UNCHANGED <<plan, early, overflown>>
    BY <1>3 DEF ReapTracee
  <2>2. \A q \in early : ~Underway(q)
    BY <2>1 DEF Underway, Watching
  <2>3. CASE EndTrace(Failed) \/ EndTrace(Artifacts(report, {}))
    BY <2>1, <2>2, <2>3, EndTraceEarly
  <2>4. CASE UNCHANGED <<now, traced>>
    BY <2>1, <2>2, <2>4, SameEarly
  <2> QED
    BY <1>3, <2>3, <2>4 DEF ReapTracee
<1>4. ASSUME StartFanotify PROVE EarlyReported'
  <2>1. stage \in {"mark", "start"} /\ UNCHANGED <<plan, early, overflown>>
    BY <1>4 DEF StartFanotify
  <2>2. \A q \in early : ~Underway(q)
    BY <2>1 DEF Underway, Watching
  <2>3. CASE EndTrace(Failed)
    BY <2>1, <2>3, EndTraceEarly
  <2>4. CASE UNCHANGED <<now, traced>>
    BY <2>1, <2>2, <2>4, SameEarly
  <2> QED
    BY <1>4, <2>3, <2>4 DEF StartFanotify
<1>5. ASSUME ReadEvents PROVE EarlyReported'
  <2>1. stage = "read" /\ stage' = "wait" /\ UNCHANGED <<plan, now, traced, early, overflown>>
    BY <1>5 DEF ReadEvents
  <2>2. CASE queue = <<>> /\ UNCHANGED report
    <3>1. ToSet(queue) = {}
      BY <2>2 DEF ToSet
    <3> QED
      BY <2>1, <2>2, <3>1, SameEarly DEF Underway, Watching
  <2>3. ASSUME NEW n \in 1..Len(queue), idle' = 0,
               report' = report \cup ToSet(SubSeq(queue, 1, n)),
               queue' = SubSeq(queue, n + 1, Len(queue))
        PROVE  EarlyReported'
    BY <1>q, <2>1, <2>3, Dequeued, SameEarly DEF Underway, Watching
  <2> QED
    BY <1>5, <2>2, <2>3 DEF ReadEvents
<1>6. ASSUME ReadFails PROVE EarlyReported'
  BY <1>6, EndTraceEarly DEF ReadFails
<1>7. ASSUME PollChild PROVE EarlyReported'
  <2>1. stage = "wait" /\ UNCHANGED <<plan, early, overflown>>
    BY <1>7 DEF PollChild
  <2>2. CASE EndTrace(Failed)
    BY <2>1, <2>2, EndTraceEarly
  <2>3. CASE EndTrace(Artifacts(kept, report)) /\ idle > IdleLoops
    <3>1. idle # 0
      BY <2>3, CountsAreNats
    <3>2. \A p \in early : Underway(p) => Lost(p) \/ p \in Artifacts(kept, report)
      BY <3>1, Facts DEF Underway, Lost, Artifacts
    <3> QED
      BY <2>1, <2>3, <3>2, EndTraceEarly
  <2>4. CASE stage' = "read" /\ UNCHANGED <<now, traced, report, queue, idle>>
    BY <2>1, <2>4, SameEarly DEF Underway, Watching
  <2> QED
    BY <1>7, <2>2, <2>3, <2>4 DEF PollChild, EndIteration, IsOver
<1>s. ASSUME UNCHANGED <<plan, now, stage, traced, early, idle, queue, overflown>>, report \subseteq report'
      PROVE  EarlyReported'
  BY <1>s, SameEarly DEF Underway
<1>8. ASSUME NEW p \in Procs, TraceeOpens(p) PROVE EarlyReported'
  BY <1>8, <1>s DEF TraceeOpens
<1>9. ASSUME NEW p \in Procs, TraceeForks(p) PROVE EarlyReported'
  BY <1>9, <1>s DEF TraceeForks
<1>e. ASSUME NEW p \in Procs \cup {Other}, Enqueue(p), UNCHANGED <<plan, now, stage, traced, idle, report>>, stage \in Watching
      PROVE  /\ overflown \subseteq overflown' /\ \A r \in early : Underway(r) => Underway(r)'
             /\ now \in overflown' \/ p \in ToSet(queue')
  BY <1>e, <1>q, Enqueued DEF Enqueue, Underway
<1>10. ASSUME NEW p \in Procs, FreeOpens(p) PROVE EarlyReported'
  <2>1. /\ stage \in Watching /\ Enqueue(p)
        /\ UNCHANGED <<plan, now, stage, traced, idle, report>>
    BY <1>10 DEF FreeOpens
  <2>2. CASE early' = early
    BY <2>1, <2>2, <1>e, SameEarly
  <2>3. CASE /\ early' = early \cup {p}
             /\ st[Root(p.trace, "fanotify")] \in {"free"} \cup Ends
    <3> SUFFICES ASSUME NEW r \in early', r.run = "fanotify"
                 PROVE  Lost(r)' \/ Underway(r)' \/ r \in traced'[r.trace]
      BY DEF EarlyReported
    <3>1. CASE r \in early
      BY <2>1, <3>1, <1>e DEF HInv, EarlyReported, Lost
    <3>2. CASE r = p
      <4>1. PICK root \in Procs : root = Root(p.trace, "fanotify") /\ root.trace = p.trace
                                  /\ root.run = "fanotify" /\ root.kin = "root"
        BY Facts, RootFacts
      <4>2. Excused(root) \/ Awaited(root)
        BY <2>3, <4>1 DEF HInv, LiveKnown, Live, Ends
      <4>3. CASE traced[p.trace] = Failed
        BY <2>1, <3>2, <4>3 DEF Lost
      <4>4. CASE p.trace = now /\ ~childDone
        BY <2>1, <3>2, <4>4, <1>e DEF HInv, Counting, Lost, Underway
      <4> QED
        BY <4>1, <4>2, <4>3, <4>4, Facts DEF Excused, Awaited
    <3> QED
      BY <2>3, <3>1, <3>2
  <2> QED
    BY <1>10, <2>2, <2>3 DEF FreeOpens
<1>11. ASSUME NEW p \in Procs, FreeForks(p) PROVE EarlyReported'
  BY <1>11, <1>s DEF FreeForks
<1>12. ASSUME OtherOpens PROVE EarlyReported'
  BY <1>12, <1>e, SameEarly DEF OtherOpens
<1>13. ASSUME NEW p \in Procs, Exits(p) \/ Killed(p) PROVE EarlyReported'
  BY <1>13, <1>s DEF Exits, Killed
<1>14. ASSUME UNCHANGED vars PROVE EarlyReported'
  BY <1>14, <1>s DEF vars
<1> QED
  BY <1>1, <1>2, <1>3, <1>4, <1>5, <1>6, <1>7, <1>8, <1>9, <1>10, <1>11, <1>12, <1>13, <1>14
     DEF Next, Backend

-----------------------------------------------------------------------------
LEMMA StepUnplanned ==
  ASSUME HInv, [Next]_vars
  PROVE  NoneUnplanned'
<1>1. plan' = plan
  BY DEF Next, Backend, vars, StartPtrace, PtraceFails, ReapTracee, StartFanotify, ReadEvents, ReadFails,
         PollChild, TraceeOpens, TraceeForks, FreeOpens, FreeForks, OtherOpens, Exits, Killed
<1>2. \A t \in Traces : t # now => traced'[t] = traced[t]
  <2>1. UNCHANGED traced \/ \E result : EndTrace(result)
    BY DEF Next, Backend, vars, StartPtrace, PtraceFails, ReapTracee, StartFanotify, ReadEvents, ReadFails,
           PollChild, EndIteration, TraceeOpens, TraceeForks, FreeOpens, FreeForks, OtherOpens, Exits, Killed,
           turn, loop, history
  <2> QED
    BY <2>1, Facts DEF EndTrace
<1> QED
  BY <1>1, <1>2, Facts DEF HInv, NoneUnplanned

LEMMA HInvSpec == Spec => []HInv
<1>1. HInv /\ [Next]_vars => HInv'
  <2> SUFFICES ASSUME HInv, [Next]_vars PROVE HInv'
    OBVIOUS
  <2>1. IInv'
    BY StepInv DEF HInv
  <2> QED
    BY <2>1, StepTypeOK, StepLive, StepRoots, StepEarly, StepCounting, StepUnplanned DEF HInv
<1> QED
  BY InitHInv, <1>1, PTL DEF Spec

\* Every variable of the traces keeps its type: fanotify's queue its size,
\* and the count of empty reads its bound.
THEOREM HostTypes == Spec => []TypeOK
<1>1. HInv => TypeOK
  BY DEF HInv
<1> QED
  BY HInvSpec, <1>1, PTL

\* A trace that succeeds has its command's file, and with fanotify those the
\* command's children opened while it was there: for any number of traces,
\* any size of the queue and any number of empty reads, in every order of
\* run_ptrace's stops, of fanotify_parent's reads and polls, and of what the
\* processes of this and of earlier traces do.
THEOREM HostCommandsAreTraced == Spec => []CommandsAreTraced
<1>1. HInv => CommandsAreTraced
  <2> SUFFICES ASSUME HInv, NEW t \in Traces, Succeeded(t)
               PROVE  /\ Root(t, "ptrace") \in opened => Root(t, "ptrace") \in traced[t]
                      /\ ~plan[t].inImage /\ t \notin overflown =>
                           \A p \in early : p.trace = t /\ p.run = "fanotify" => p \in traced[t]
    BY DEF CommandsAreTraced
  <2>1. t # now \/ stage = "end"
    BY NowIsTrace DEF Succeeded, HInv, IInv
  <2> QED
    BY <2>1 DEF Succeeded, HInv, RootReported, EarlyReported, Lost, Underway, Watching
<1> QED
  BY HInvSpec, <1>1, PTL

\* A run of which no trace failed leaves no process stopped and none to be
\* waited for, but for tracees that parent_trace was never told of.
THEOREM HostNothingLeft == Spec => []NothingLeft
<1>1. HInv => NothingLeft
  <2> SUFFICES ASSUME HInv, stage = "end", \A t \in DOMAIN plan : traced[t] # Failed, NEW p \in Procs,
                      st[p] \in {"traced"} \cup Ends \/ (st[p] = "free" /\ p.kin = "root")
               PROVE  p \in untold
    BY DEF NothingLeft
  <2>1. Live(p)
    BY DEF Live, Ends
  <2>2. Excused(p)
    BY <2>1 DEF HInv, LiveKnown, Awaited, Watching
  <2> QED
    BY <2>2, FailedIsNew, Facts DEF HInv, NoneUnplanned, Excused
<1> QED
  BY HInvSpec, <1>1, PTL
=============================================================================
