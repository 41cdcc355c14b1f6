------------------------- MODULE PtraceTracerProofs -------------------------
(***************************************************************************)
(* Theorems about parent_trace, for any number of processes, paths and     *)
(* calls: its types, the agreement of entering with the tracees, the       *)
(* soundness of its report, and what it means that it returns Ok.          *)
(***************************************************************************)
EXTENDS PtraceTracer, TLAPS

\* ptrace::syscall lets a stopped process run.
LEMMA ResumedRuns == \A s \in Stops : Resumed[s] \in Running
BY DEF Stops, Resumed, Running

\* At its fork event a process has a child, and so has the one whose child
\* resume_new_tracee waits for.
ForksHaveChildren ==
    /\ \A p \in Procs : at[p] = "ev_fork" => forked[p] \in Procs
    /\ tpc = "attach" => forked[got.pid] \in Procs

Typed == TypeOK /\ ForksHaveChildren

\* The loop starts with one tracee, and with everything in its type.
LEMMA TypedInit == Init => Typed
BY RootIsProc, BoundsAreNat
   DEF Init, TraceesInit, Typed, TypeOK, TraceesTypeOK, ForksHaveChildren, NoCall,
       FirstIsEntry, Places, Stops, Running, Gone, Codes, Killing, Call, Others, ExitCall

\* What a process does by itself.
LEMMA TypedTraceeStep ==
    ASSUME Typed, NEW p \in Procs, TraceeStep(p) \/ Signal(p) \/ Kill(p), UNCHANGED tracerVars
    PROVE  Typed'
<1> USE DEF Typed, TypeOK, ForksHaveChildren, tracerVars, Places, Stops, Running, Gone
<1>1. CASE StopAtBirth(p)
  BY <1>1 DEF StopAtBirth, TraceesTypeOK
<1>2. CASE EnterCall(p)
  <2>1. PICK c \in NextCalls(p) :
          /\ call' = [call EXCEPT ![p] = c]
          /\ touched' = IF c.kind = "exec"
                        THEN [touched EXCEPT ![p] = @ \cup {<<c.path, "exec">>}]
                        ELSE touched
          /\ budget' = IF c.kind = "exit" \/ (p = Root /\ launch = "starting") THEN budget
                       ELSE [budget EXCEPT ![p] = @ - 1]
    BY <1>2 DEF EnterCall
  <2>2. c \in Call /\ (c.kind = "exec" => c.path \in Paths)
    BY <2>1, CommandIsPath DEF NextCalls, Call, Probes, Execs, Others, ExitCall
  <2>3. touched' \in [Procs -> SUBSET Access]
    BY <2>1, <2>2 DEF TraceesTypeOK, Access
  <2>4. budget' \in [Procs -> 0..MaxCalls]
    <3>1. CASE c.kind = "exit" \/ (p = Root /\ launch = "starting")
      BY <2>1, <3>1 DEF TraceesTypeOK
    <3>2. CASE ~(c.kind = "exit" \/ (p = Root /\ launch = "starting"))
      <4>1. budget[p] # 0
        BY <2>1, <3>2 DEF NextCalls, ExitCall
      <4> QED BY <2>1, <3>2, <4>1, BoundsAreNat DEF TraceesTypeOK
    <3> QED BY <3>1, <3>2
  <2> QED BY <1>2, <2>1, <2>2, <2>3, <2>4 DEF EnterCall, TraceesTypeOK
<1>3. CASE Probe(p)
  <2>1. call[p].path \in Paths
    BY <1>3 DEF Probe, TraceesTypeOK, Call, Probes, Execs, Others
  <2>2. PICK r \in BOOLEAN :
          /\ ok' = [ok EXCEPT ![p] = r]
          /\ touched' = IF r /\ call[p].kind = "probe"
                        THEN [touched EXCEPT ![p] = @ \cup {<<call[p].path, "open">>}]
                        ELSE touched
    BY <1>3 DEF Probe
  <2>3. touched' \in [Procs -> SUBSET Access]
    BY <2>1, <2>2 DEF TraceesTypeOK, Access
  <2> QED BY <1>3, <2>2, <2>3 DEF Probe, TraceesTypeOK
<1>4. CASE Fork(p)
  <2>1. CASE \E c \in Procs : at' = [at EXCEPT ![p] = "ev_fork", ![c] = "born"]
                             /\ forked' = [forked EXCEPT ![p] = c]
                             /\ ok' = ok
    <3>1. PICK c \in Procs : at' = [at EXCEPT ![p] = "ev_fork", ![c] = "born"]
                             /\ forked' = [forked EXCEPT ![p] = c]
                             /\ ok' = ok
      BY <2>1
    <3>2. at' \in [Procs -> Places]
      BY <3>1 DEF TraceesTypeOK
    <3>3. \A q \in Procs : q # p /\ at'[q] = "ev_fork" => at[q] = "ev_fork"
      BY <3>1 DEF TraceesTypeOK
    <3>4. forked' \in [Procs -> Procs \cup {NoProc}] /\ forked'[p] \in Procs
      BY <3>1 DEF TraceesTypeOK
    <3>5. \A q \in Procs : q # p => forked'[q] = forked[q]
      BY <3>1 DEF TraceesTypeOK
    <3>6. ForksHaveChildren'
      BY <3>3, <3>4, <3>5
    <3> QED BY <1>4, <3>1, <3>2, <3>4, <3>6 DEF Fork, TraceesTypeOK
  <2>2. CASE at' = [at EXCEPT ![p] = "leave"] /\ ok' = [ok EXCEPT ![p] = FALSE] /\ forked' = forked
    BY <1>4, <2>2 DEF Fork, TraceesTypeOK
  <2> QED BY <1>4, <2>1, <2>2 DEF Fork
<1>5. CASE Exec(p)
  <2>1. launch' \in {"starting", "failed", "running"}
    BY <1>5 DEF Exec, TraceesTypeOK
  <2>2. CASE at' = [at EXCEPT ![p] = "ev_exec"] /\ ok' = ok
    BY <1>5, <2>1, <2>2 DEF Exec, TraceesTypeOK
  <2>3. CASE at' = [at EXCEPT ![p] = "leave"] /\ ok' = [ok EXCEPT ![p] = FALSE]
    BY <1>5, <2>1, <2>3 DEF Exec, TraceesTypeOK
  <2> QED BY <1>5, <2>2, <2>3 DEF Exec
<1>6. CASE Await(p)
  BY <1>6 DEF Await, TraceesTypeOK
<1>7. CASE Exit(p)
  BY <1>7, CodesKnown DEF Exit, TraceesTypeOK, Codes
<1>8. CASE Return(p)
  BY <1>8 DEF Return, TraceesTypeOK
<1>9. CASE Die(p)
  BY <1>9 DEF Die, TraceesTypeOK, Codes, Killing
<1>10. CASE Finish(p)
  BY <1>10 DEF Finish, TraceesTypeOK
<1>11. CASE Signal(p)
  BY <1>11, BoundsAreNat DEF Signal, TraceesTypeOK
<1>12. CASE Kill(p)
  BY <1>12, BoundsAreNat DEF Kill, TraceesTypeOK, Codes, Killing
<1> QED
  BY <1>1, <1>2, <1>3, <1>4, <1>5, <1>6, <1>7, <1>8, <1>9, <1>10, <1>11, <1>12 DEF TraceeStep

\* The setup of the root.
LEMMA TypedSetup ==
    ASSUME Typed, SetupDone \/ SetupFails, UNCHANGED tracerVars
    PROVE  Typed'
<1> USE RootIsProc DEF Typed, TypeOK, ForksHaveChildren, tracerVars, Places, Stops, Running, Gone
<1>1. CASE SetupDone
  BY <1>1 DEF SetupDone, TraceesTypeOK
<1>2. CASE SetupFails
  BY <1>2 DEF SetupFails, TraceesTypeOK, Codes
<1> QED BY <1>1, <1>2

\* The results the loop can return.
LEMMA FinalResultType == \A s : FinalResult(s) \in {"ok"} \cup Failures
BY DEF FinalResult, Failures

\* What the loop does.
LEMMA TypedTracerStep ==
    ASSUME Typed, TracerStep
    PROVE  Typed'
<1> USE DEF Typed, TypeOK, ForksHaveChildren
<1>1. ASSUME NEW p \in Procs, Wait(p) PROVE Typed'
  BY <1>1 DEF Wait, KeepTracees, TraceesTypeOK, Reportable, Places, Gone
<1>2. CASE NoChild
  BY <1>2, FinalResultType DEF NoChild, Finished, traceeVars, TraceesTypeOK
<1>3. CASE HandleLost
  BY <1>3 DEF HandleLost, Handling, Finished, Failures, traceeVars, TraceesTypeOK
<1>4. CASE HandleStop
  BY <1>4, ResumedRuns
     DEF HandleStop, Handling, Held, Loop, Resume, KeepTracees, TraceesTypeOK,
         Places, Stops, Running
<1>5. CASE HandleSignal
  BY <1>5 DEF HandleSignal, Handling, Held, Loop, KeepTracees, TraceesTypeOK,
              Places, Stops, Running
<1>6. CASE HandleEntry
  <2> DEFINE p == got.pid
  <2>1. p \in Procs /\ at[p] \in Stops /\ at' = [at EXCEPT ![p] = Resumed[at[p]]]
    BY <1>6 DEF HandleEntry, Handling, Held, Resume, Stops
  <2>2. at' \in [Procs -> Places] /\ (\A q \in Procs : at'[q] = "ev_fork" => at[q] = "ev_fork")
    BY <2>1, ResumedRuns DEF TraceesTypeOK, Places, Running
  <2>3. call[p] \in Call
    BY <2>1 DEF TraceesTypeOK
  <2>4. call[p].kind = "exec" => call[p].path \in Paths
    BY <2>3 DEF Call, Probes, Execs, Others
  <2>5. report' \subseteq Access
    BY <1>6, <2>4 DEF HandleEntry, Access
  <2>6. call[p].kind = "probe" => call[p] \in Probes
    BY <2>3 DEF Call, Probes, Execs, Others
  <2>7. pending' \in [Procs -> Probes \cup {NoCall}]
    BY <1>6, <2>1, <2>6 DEF HandleEntry
  <2> QED
    BY <1>6, <2>1, <2>2, <2>5, <2>7 DEF HandleEntry, Loop, KeepTracees, TraceesTypeOK
<1>7. CASE HandleReturn
  <2> DEFINE p == got.pid
  <2>1. p \in Procs /\ at[p] \in Stops /\ at' = [at EXCEPT ![p] = Resumed[at[p]]]
    BY <1>7 DEF HandleReturn, Handling, Held, Resume, Stops
  <2>2. at' \in [Procs -> Places] /\ (\A q \in Procs : at'[q] = "ev_fork" => at[q] = "ev_fork")
    BY <2>1, ResumedRuns DEF TraceesTypeOK, Places, Running
  <2>3. pending[p] # NoCall => pending[p].path \in Paths
    BY <2>1 DEF Probes
  <2>4. report' \subseteq Access
    BY <1>7, <2>3 DEF HandleReturn, Access
  <2> QED
    BY <1>7, <2>1, <2>2, <2>4 DEF HandleReturn, Loop, KeepTracees, TraceesTypeOK
<1>8. CASE HandleUnreadable
  BY <1>8 DEF HandleUnreadable, Handling, Finished, Failures, KeepTracees, TraceesTypeOK, Places
<1>9. CASE HandleFork
  BY <1>9 DEF HandleFork, Handling, Held, traceeVars, TraceesTypeOK
<1>10. CASE ResumeNewTracee
  <2> DEFINE child == forked[got.pid]
             next == IF at[child] \in Stops THEN Resumed[at[child]] ELSE "reaped"
  <2>1. child \in Procs /\ got.pid \in Procs
    BY <1>10 DEF ResumeNewTracee
  <2>2. at[child] \in Stops \cup {"zombie", "reaped"}
    BY <1>10 DEF ResumeNewTracee, Reportable
  <2>3. next \in Running \cup {"reaped"}
    BY ResumedRuns
  <2>4. dropped' \in [Procs -> Stops \cup {"none", "zombie", "reaped"}]
    BY <1>10, <2>1, <2>2 DEF ResumeNewTracee
  <2>5. /\ at' \in [Procs -> Places]
        /\ \A q \in Procs : at'[q] = "ev_fork" => at[q] = "ev_fork"
        /\ tpc' \in {"wait", "done"} /\ outcome' \in {"running", "ok"} \cup Failures
    <3>1. CASE at[got.pid] = "ev_fork"
      <4>1. at' = [at EXCEPT ![child] = next, ![got.pid] = "return"]
        BY <1>10, <3>1 DEF ResumeNewTracee
      <4> QED
        BY <1>10, <2>1, <2>3, <3>1, <4>1
           DEF ResumeNewTracee, Loop, TraceesTypeOK, Places, Running, Gone
    <3>2. CASE at[got.pid] # "ev_fork"
      <4>1. at' = [at EXCEPT ![child] = next]
        BY <1>10, <3>2 DEF ResumeNewTracee
      <4> QED
        BY <1>10, <2>1, <2>3, <3>2, <4>1
           DEF ResumeNewTracee, Finished, Failures, TraceesTypeOK, Places, Running, Gone
    <3> QED BY <3>1, <3>2
  <2> QED
    BY <1>10, <2>4, <2>5 DEF ResumeNewTracee, KeepTracees, TraceesTypeOK
<1>11. CASE HandleExited
  <2>1. StatusOf(got.pid) \in Codes \ Killing
    BY DEF StatusOf, Codes, Killing, TraceesTypeOK
  <2>2. rootStatus' \in Codes \ Killing /\ tracked' \subseteq Procs
    BY <1>11, <2>1 DEF HandleExited, Forget
  <2> QED
    BY <1>11, <2>2, FinalResultType
       DEF HandleExited, Forget, FirstIsEntry, Finished, Loop, traceeVars, TraceesTypeOK
<1>12. CASE HandleSignaled
  <2>1. StatusOf(got.pid) \in Codes \ Killing
    BY DEF StatusOf, Codes, Killing, TraceesTypeOK
  <2>2. rootStatus' \in Codes \ Killing /\ tracked' \subseteq Procs
    BY <1>12, <2>1 DEF HandleSignaled, Forget
  <2> QED
    BY <1>12, <2>2
       DEF HandleSignaled, Forget, FirstIsEntry, Finished, Failures, Loop, traceeVars,
           TraceesTypeOK
<1> QED
  BY <1>1, <1>2, <1>3, <1>4, <1>5, <1>6, <1>7, <1>8, <1>9, <1>10, <1>11, <1>12 DEF TracerStep

\* The types survive every step, of the loop and of the processes it traces.
LEMMA TypedNext == Typed /\ [Next]_vars => Typed'
<1> SUFFICES ASSUME Typed, [Next]_vars PROVE Typed'
  OBVIOUS
<1>1. CASE TracerStep
  BY <1>1, TypedTracerStep
<1>2. CASE TraceesNext /\ UNCHANGED tracerVars
  <2>1. CASE SetupDone \/ SetupFails
    BY <1>2, <2>1, TypedSetup
  <2>2. ASSUME NEW p \in Procs, TraceeStep(p) \/ Signal(p) \/ Kill(p) PROVE Typed'
    BY <1>2, <2>2, TypedTraceeStep
  <2> QED BY <1>2, <2>1, <2>2 DEF TraceesNext
<1>3. CASE UNCHANGED vars
  BY <1>3 DEF vars, traceeVars, tracerVars, Typed, TypeOK, TraceesTypeOK, ForksHaveChildren
<1> QED BY <1>1, <1>2, <1>3 DEF Next

\* parent_trace keeps its variables and the tracees' in their types.
THEOREM TypeCorrect == Spec => []Typed
<1>1. Init => Typed
  BY TypedInit
<1>2. Typed /\ [Next]_vars => Typed'
  BY TypedNext
<1> QED BY <1>1, <1>2, PTL DEF Spec

\* parent_trace keeps the variables of its runs in their types.
THEOREM TypeSafety == Spec => []TypeOK
<1>1. Typed => TypeOK
  BY DEF Typed
<1> QED BY <1>1, TypeCorrect, PTL

-----------------------------------------------------------------------------
(***************************************************************************)
(* entering and the tracees.  A process is the new child of one fork only, *)
(* so at most one of its statuses is dropped, and up to then entering is   *)
(* in step with it.                                                        *)
(***************************************************************************)
ChildrenAreNew ==
    /\ \A c \in Procs : at[c] = "unborn" => dropped[c] = "none" /\ \A q \in Procs : forked[q] # c
    /\ \A q \in Procs : forked[q] # q
    /\ \A q, s \in Procs : forked[q] = forked[s] /\ forked[q] \in Procs => q = s
    /\ \A q \in Procs : at[q] = "ev_fork" => dropped[forked[q]] = "none"
    /\ tpc = "attach" => dropped[forked[got.pid]] = "none"

Outside == {"setup", "unborn", "born", "sigstop", "user", "enter", "signal"}
InCall  == {"kernel", "return", "ev_fork", "ev_exec", "leave"}

InStep ==
    \A p \in Procs \ Skewed :
        /\ at[p] \in Outside => entering[p]
        /\ at[p] \in InCall => ~entering[p]

\* A process whose end is in hand is gone for good.
EndsAreFinal == tpc = "handle" /\ got.st = "zombie" => at[got.pid] = "reaped"

PhaseInv == Typed /\ ChildrenAreNew /\ InStep /\ EndsAreFinal

\* No process has made a call when the loop starts: all expect an entry.
LEMMA PhaseInit == Init => PhaseInv
<1> SUFFICES ASSUME Init PROVE PhaseInv
  OBVIOUS
<1>1. Typed
  BY TypedInit
<1>2. ChildrenAreNew
  BY RootIsProc DEF Init, TraceesInit, ChildrenAreNew
<1>3. InStep /\ EndsAreFinal
  BY DEF Init, TraceesInit, InStep, InCall, FirstIsEntry, EndsAreFinal
<1> QED BY <1>1, <1>2, <1>3 DEF PhaseInv

\* No process leaves "reaped" by itself.
LEMMA EndsStayFinal ==
    ASSUME Typed, EndsAreFinal, NEW p \in Procs, TraceeStep(p) \/ Signal(p) \/ Kill(p),
           UNCHANGED tracerVars
    PROVE  EndsAreFinal'
<1> DEFINE r == got.pid
<1>1. at \in [Procs -> Places] /\ UNCHANGED <<tpc, got>>
  BY DEF Typed, TypeOK, TraceesTypeOK, tracerVars
<1>2. SUFFICES ASSUME r \in Procs, at[r] = "reaped" PROVE at'[r] = "reaped"
  BY <1>1 DEF EndsAreFinal, Typed, TypeOK
<1>3. CASE StopAtBirth(p) \/ EnterCall(p) \/ Probe(p) \/ Exec(p) \/ Await(p) \/ Exit(p)
           \/ Return(p) \/ Die(p) \/ Finish(p) \/ Signal(p)
  BY <1>1, <1>2, <1>3
     DEF StopAtBirth, EnterCall, Probe, Exec, Await, Exit, Return, Die, Finish, Signal
<1>4. CASE Fork(p)
  BY <1>1, <1>2, <1>4 DEF Fork
<1>5. CASE Kill(p)
  BY <1>1, <1>2, <1>5 DEF Kill, Alive, Stops, Running
<1> QED BY <1>3, <1>4, <1>5 DEF TraceeStep

\* Every step of a process but Fork leaves the children alone, and moves the
\* process within or out of a call as entering expects.
LEMMA PhaseTraceeStep ==
    ASSUME PhaseInv, NEW p \in Procs, TraceeStep(p) \/ Signal(p) \/ Kill(p),
           UNCHANGED tracerVars
    PROVE  ChildrenAreNew' /\ InStep'
<1>1. Typed /\ ChildrenAreNew /\ InStep /\ at \in [Procs -> Places]
  BY DEF PhaseInv, Typed, TypeOK, TraceesTypeOK
<1>2. ASSUME NEW x, at' = [at EXCEPT ![p] = x], x # "unborn", forked' = forked,
             x = "ev_fork" => at[p] = "ev_fork"
      PROVE  ChildrenAreNew'
  BY <1>1, <1>2 DEF ChildrenAreNew, tracerVars
<1>3. ASSUME NEW x, at' = [at EXCEPT ![p] = x],
             x \in Outside => at[p] \in Outside,
             x \in InCall => at[p] \in InCall
      PROVE  InStep'
  BY <1>1, <1>3 DEF InStep, tracerVars, Skewed
<1> USE DEF Outside, InCall
<1>4. CASE StopAtBirth(p)
  BY <1>2, <1>3, <1>4 DEF StopAtBirth
<1>5. CASE EnterCall(p)
  BY <1>2, <1>3, <1>5 DEF EnterCall
<1>6. CASE Probe(p)
  BY <1>2, <1>3, <1>6 DEF Probe
<1>7. CASE Fork(p)
  <2>1. CASE \E c \in Procs : /\ at[c] = "unborn"
                             /\ at' = [at EXCEPT ![p] = "ev_fork", ![c] = "born"]
                             /\ forked' = [forked EXCEPT ![p] = c]
    <3>1. PICK c \in Procs : /\ at[c] = "unborn"
                             /\ at' = [at EXCEPT ![p] = "ev_fork", ![c] = "born"]
                             /\ forked' = [forked EXCEPT ![p] = c]
      BY <2>1
    <3>2. c # p /\ at[p] = "kernel" /\ dropped[c] = "none"
      BY <1>1, <1>7, <3>1 DEF Fork, ChildrenAreNew
    <3>3. forked \in [Procs -> Procs \cup {NoProc}]
      BY <1>1 DEF Typed, TypeOK, TraceesTypeOK
    <3>4. InStep'
      BY <1>1, <3>1, <3>2 DEF InStep, tracerVars, Skewed
    <3>5. /\ forked'[p] = c
          /\ \A q \in Procs : q # p => forked'[q] = forked[q]
          /\ at'[p] = "ev_fork" /\ at'[c] = "born"
          /\ \A q \in Procs : q # p /\ q # c => at'[q] = at[q]
          /\ \A q \in Procs : forked[q] # c
      BY <1>1, <3>1, <3>2, <3>3 DEF ChildrenAreNew
    <3>6. UNCHANGED <<dropped, tpc, got>> /\ got.pid \in Procs
      BY <1>1 DEF tracerVars, Typed, TypeOK
    <3>7. ChildrenAreNew'
      BY <1>1, <3>2, <3>5, <3>6 DEF ChildrenAreNew
    <3> QED BY <3>4, <3>7
  <2>2. CASE at' = [at EXCEPT ![p] = "leave"] /\ forked' = forked
    BY <1>2, <1>3, <1>7, <2>2 DEF Fork
  <2> QED BY <1>7, <2>1, <2>2 DEF Fork
<1>8. CASE Exec(p)
  BY <1>2, <1>3, <1>8 DEF Exec
<1>9. CASE Await(p)
  BY <1>2, <1>3, <1>9 DEF Await
<1>10. CASE Exit(p)
  BY <1>2, <1>3, <1>10 DEF Exit
<1>11. CASE Return(p)
  BY <1>2, <1>3, <1>11 DEF Return
<1>12. CASE Die(p)
  BY <1>2, <1>3, <1>12 DEF Die
<1>13. CASE Finish(p)
  BY <1>2, <1>3, <1>13 DEF Finish
<1>14. CASE Signal(p)
  BY <1>2, <1>3, <1>14 DEF Signal
<1>15. CASE Kill(p)
  BY <1>2, <1>3, <1>15 DEF Kill
<1> QED
  BY <1>4, <1>5, <1>6, <1>7, <1>8, <1>9, <1>10, <1>11, <1>12, <1>13, <1>14, <1>15
     DEF TraceeStep

\* The setup of the root makes no call that the loop could see.
LEMMA PhaseSetup ==
    ASSUME PhaseInv, SetupDone \/ SetupFails, UNCHANGED tracerVars
    PROVE  ChildrenAreNew' /\ InStep' /\ EndsAreFinal'
<1>1. /\ Typed /\ ChildrenAreNew /\ InStep /\ EndsAreFinal
      /\ at \in [Procs -> Places] /\ got.pid \in Procs
      /\ at[Root] = "setup" /\ UNCHANGED <<forked, dropped, entering, tpc, got>>
  BY DEF PhaseInv, Typed, TypeOK, TraceesTypeOK, tracerVars, SetupDone, SetupFails
<1>2. PICK x \in {"sigstop", "zombie"} : at' = [at EXCEPT ![Root] = x]
  BY DEF SetupDone, SetupFails
<1>3. ChildrenAreNew'
  BY <1>1, <1>2 DEF ChildrenAreNew
<1>4. InStep'
  BY <1>1, <1>2 DEF InStep, Skewed, Outside, InCall
<1>5. EndsAreFinal'
  BY <1>1, <1>2 DEF EndsAreFinal
<1> QED BY <1>3, <1>4, <1>5

\* A stopped process that the loop resumes, other than at a syscall stop.
LEMMA PhaseResumed ==
    \A s \in Stops \ {"enter", "leave"} :
        /\ Resumed[s] # "unborn" /\ Resumed[s] \notin Stops
        /\ Resumed[s] \in Outside => s \in Outside
        /\ Resumed[s] \in InCall => s \in InCall
BY DEF Stops, Resumed, Outside, InCall

\* The loop flips entering at the syscall stops of a process, and leaves the
\* rest as it is.
LEMMA PhaseTracerStep ==
    ASSUME PhaseInv, TracerStep
    PROVE  ChildrenAreNew' /\ InStep' /\ EndsAreFinal'
<1>1. /\ Typed /\ ChildrenAreNew /\ InStep /\ EndsAreFinal
      /\ at \in [Procs -> Places] /\ got.pid \in Procs
      /\ entering \in [Procs -> BOOLEAN]
      /\ dropped \in [Procs -> Stops \cup {"none", "zombie", "reaped"}]
  BY DEF PhaseInv, Typed, TypeOK, TraceesTypeOK
<1> DEFINE g == got.pid
<1>2. ASSUME NEW p \in Procs, NEW x, at' = [at EXCEPT ![p] = x], at[p] # "reaped" \/ x = "reaped",
             x \notin {"unborn", "ev_fork"}, tpc' # "attach", UNCHANGED <<forked, dropped>>
      PROVE  ChildrenAreNew'
  BY <1>1, <1>2 DEF ChildrenAreNew
<1>3. ASSUME NEW p \in Procs, NEW x, at' = [at EXCEPT ![p] = x],
             x \in Outside => at[p] \in Outside, x \in InCall => at[p] \in InCall,
             UNCHANGED <<entering, dropped>>
      PROVE  InStep'
  BY <1>1, <1>3 DEF InStep, Skewed
<1>4. ASSUME UNCHANGED <<at, forked, dropped>>, tpc' # "attach" PROVE ChildrenAreNew'
  BY <1>1, <1>4 DEF ChildrenAreNew
<1>5. ASSUME UNCHANGED <<at, entering, dropped>> PROVE InStep'
  BY <1>1, <1>5 DEF InStep, Skewed
<1>6. tpc' # "handle" => EndsAreFinal'
  BY DEF EndsAreFinal
<1>7. ASSUME NEW p \in Procs, Wait(p) PROVE ChildrenAreNew' /\ InStep' /\ EndsAreFinal'
  <2>1. UNCHANGED <<forked, dropped, entering>> /\ tpc' = "handle"
    BY <1>7 DEF Wait, KeepTracees
  <2>2. CASE at[p] = "zombie"
    <3>1. at' = [at EXCEPT ![p] = "reaped"] /\ got'.pid = p
      BY <1>7, <2>2 DEF Wait
    <3> QED BY <1>1, <1>2, <1>3, <2>1, <2>2, <3>1 DEF EndsAreFinal, Outside, InCall
  <2>3. CASE at[p] # "zombie"
    <3>1. at' = at /\ got'.st = at[p]
      BY <1>7, <2>3 DEF Wait
    <3> QED BY <1>1, <1>4, <1>5, <2>1, <2>3, <3>1 DEF EndsAreFinal
  <2> QED BY <2>2, <2>3
<1>8. CASE NoChild \/ HandleLost
  BY <1>4, <1>5, <1>6, <1>8 DEF NoChild, HandleLost, Finished, traceeVars
<1>9. CASE HandleStop
  <2>1. /\ at[g] \in {"sigstop", "ev_exec", "ev_exit"} /\ at' = [at EXCEPT ![g] = Resumed[at[g]]]
        /\ tpc' = "wait" /\ UNCHANGED <<forked, dropped, entering>>
    BY <1>9 DEF HandleStop, Handling, Held, Resume, Loop, KeepTracees
  <2>2. PICK x : x = Resumed[at[g]]
    OBVIOUS
  <2>3. /\ x \notin {"unborn", "ev_fork"}
        /\ x \in Outside => at[g] \in Outside
        /\ x \in InCall => at[g] \in InCall
    BY <2>1, <2>2, PhaseResumed DEF Stops
  <2>4. at' = [at EXCEPT ![g] = x]
    BY <2>1, <2>2
  <2>5. ChildrenAreNew'
    BY <1>1, <1>2, <2>1, <2>3, <2>4
  <2>6. InStep'
    BY <1>1, <1>3, <2>1, <2>3, <2>4
  <2> QED BY <1>6, <2>1, <2>5, <2>6
<1>10. CASE HandleSignal
  <2>1. PICK x \in {"user", "dying"} :
          /\ at[g] = "signal" /\ at' = [at EXCEPT ![g] = x]
          /\ tpc' = "wait" /\ UNCHANGED <<forked, dropped, entering>>
    BY <1>10 DEF HandleSignal, Handling, Held, Loop, KeepTracees
  <2> QED BY <1>1, <1>2, <1>3, <1>6, <2>1 DEF Outside, InCall
<1>11. CASE HandleEntry \/ HandleReturn
  <2>1. /\ at[g] \in {"enter", "leave"} /\ at' = [at EXCEPT ![g] = Resumed[at[g]]]
        /\ entering' = [entering EXCEPT ![g] = ~entering[g]]
        /\ tpc' = "wait" /\ UNCHANGED <<forked, dropped>>
    <3>1. CASE HandleEntry
      BY <1>1, <3>1 DEF HandleEntry, Handling, Held, Resume, Loop, KeepTracees
    <3>2. CASE HandleReturn
      BY <1>1, <3>2 DEF HandleReturn, Handling, Held, Resume, Loop, KeepTracees
    <3> QED BY <1>11, <3>1, <3>2
  <2>2. ChildrenAreNew'
    <3>1. Resumed[at[g]] \in {"kernel", "user"}
      BY <2>1 DEF Resumed
    <3>2. PICK x : x = Resumed[at[g]]
      OBVIOUS
    <3> QED BY <1>1, <1>2, <2>1, <3>1, <3>2
  <2>3. InStep'
    <3>1. /\ at'[g] = (IF at[g] = "enter" THEN "kernel" ELSE "user") /\ entering'[g] = ~entering[g]
          /\ \A q \in Procs \ {g} : at'[q] = at[q] /\ entering'[q] = entering[q]
          /\ Skewed' = Skewed
      BY <1>1, <2>1 DEF Resumed, Skewed
    <3>2. g \notin Skewed => (at'[g] \in Outside => entering'[g]) /\ (at'[g] \in InCall => ~entering'[g])
      BY <1>1, <2>1, <3>1 DEF InStep, Outside, InCall
    <3> QED BY <1>1, <3>1, <3>2 DEF InStep
  <2> QED BY <1>6, <2>1, <2>2, <2>3
<1>12. CASE HandleUnreadable
  <2>1. /\ at[g] \in {"enter", "leave"} /\ at' = [at EXCEPT ![g] = "free"]
        /\ tpc' = "done" /\ UNCHANGED <<forked, dropped, entering>>
    BY <1>12 DEF HandleUnreadable, Handling, Held, Finished, KeepTracees
  <2>2. ChildrenAreNew'
    <3>1. at'[g] = "free" /\ \A q \in Procs \ {g} : at'[q] = at[q]
      BY <1>1, <2>1
    <3> QED BY <1>1, <2>1, <3>1 DEF ChildrenAreNew
  <2>3. InStep'
    BY <1>1, <1>3, <2>1 DEF Outside, InCall
  <2> QED BY <1>6, <2>1, <2>2, <2>3
<1>13. CASE HandleFork
  <2>1. at[g] = "ev_fork" /\ tpc' = "attach" /\ UNCHANGED <<at, forked, dropped, entering, got>>
    BY <1>13 DEF HandleFork, Handling, Held, traceeVars
  <2>2. ChildrenAreNew'
    BY <1>1, <2>1 DEF ChildrenAreNew
  <2> QED BY <1>5, <1>6, <2>1, <2>2
<1>14. CASE ResumeNewTracee
  <2> DEFINE child == forked[g]
             next == IF at[child] \in Stops THEN Resumed[at[child]] ELSE "reaped"
  <2>1. /\ tpc = "attach" /\ tpc' # "handle" /\ tpc' # "attach"
        /\ child \in Procs /\ child # g /\ dropped[child] = "none"
        /\ dropped' = [dropped EXCEPT ![child] = at[child]]
        /\ at[child] \in Stops \cup {"zombie", "reaped"}
        /\ UNCHANGED <<forked, entering>>
    BY <1>1, <1>14
       DEF ResumeNewTracee, Reportable, Loop, Finished, KeepTracees, ChildrenAreNew,
           Typed, ForksHaveChildren
  <2>2. \A q \in Procs \ {child, g} : at'[q] = at[q]
    BY <1>1, <1>14, <2>1 DEF ResumeNewTracee
  <2>3. at'[child] = next /\ at'[g] = IF at[g] = "ev_fork" THEN "return" ELSE at[g]
    BY <1>1, <1>14, <2>1 DEF ResumeNewTracee
  <2>4. /\ next \notin {"unborn", "ev_fork"}
        /\ at[child] \notin {"enter", "leave"} =>
              /\ next \in Outside => at[child] \in Outside
              /\ next \in InCall => at[child] \in InCall
    BY <2>1, PhaseResumed DEF Stops, Resumed, Outside, InCall
  <2>5. ChildrenAreNew'
    <3>1. \A c \in Procs : at'[c] = "unborn" => at[c] = "unborn" /\ c # child
      BY <2>1, <2>2, <2>3, <2>4
    <3>2. \A q \in Procs : at'[q] = "ev_fork" => at[q] = "ev_fork" /\ q # g
      BY <2>1, <2>2, <2>3, <2>4
    <3>3. \A q \in Procs : q # g => forked[q] # child
      BY <1>1, <2>1 DEF ChildrenAreNew
    <3> QED BY <1>1, <2>1, <3>1, <3>2, <3>3 DEF ChildrenAreNew
  <2>6. InStep'
    <3>1. \A q \in Procs : q \notin Skewed' => q \notin Skewed
      BY <1>1, <2>1 DEF Skewed
    <3>2. child \notin Skewed' => at[child] \notin {"enter", "leave"}
      BY <1>1, <2>1 DEF Skewed
    <3>3. \A q \in Procs \ Skewed' : /\ at'[q] \in Outside => at[q] \in Outside
                                     /\ at'[q] \in InCall => at[q] \in InCall
      BY <2>1, <2>2, <2>3, <2>4, <3>2 DEF Outside, InCall
    <3> QED BY <1>1, <2>1, <3>1, <3>3 DEF InStep
  <2> QED BY <1>6, <2>1, <2>5, <2>6
<1>15. CASE HandleExited \/ HandleSignaled
  <2>1. /\ at[g] = "reaped" /\ entering' = [entering EXCEPT ![g] = TRUE]
        /\ tpc' \in {"wait", "done"} /\ UNCHANGED <<at, forked, dropped>>
    BY <1>1, <1>15
       DEF HandleExited, HandleSignaled, Handling, Forget, FirstIsEntry, Loop, Finished,
           traceeVars, EndsAreFinal
  <2>2. InStep'
    BY <1>1, <2>1 DEF InStep, Skewed, InCall
  <2> QED BY <1>4, <1>6, <2>1, <2>2
<1> QED
  BY <1>7, <1>8, <1>9, <1>10, <1>11, <1>12, <1>13, <1>14, <1>15 DEF TracerStep

\* entering stays in step, whoever moves.
LEMMA PhaseNext == PhaseInv /\ [Next]_vars => PhaseInv'
<1> SUFFICES ASSUME PhaseInv, [Next]_vars PROVE PhaseInv'
  OBVIOUS
<1>1. Typed'
  BY TypedNext DEF PhaseInv
<1>2. CASE TracerStep
  BY <1>1, <1>2, PhaseTracerStep DEF PhaseInv
<1>3. CASE TraceesNext /\ UNCHANGED tracerVars
  <2>1. CASE SetupDone \/ SetupFails
    BY <1>1, <1>3, <2>1, PhaseSetup DEF PhaseInv
  <2>2. ASSUME NEW p \in Procs, TraceeStep(p) \/ Signal(p) \/ Kill(p) PROVE PhaseInv'
    BY <1>1, <1>3, <2>2, PhaseTraceeStep, EndsStayFinal DEF PhaseInv
  <2> QED BY <1>3, <2>1, <2>2 DEF TraceesNext
<1>4. CASE UNCHANGED vars
  <2>1. UNCHANGED <<at, forked, dropped, entering, tpc, got>>
    BY <1>4 DEF vars, traceeVars, tracerVars
  <2> QED BY <1>1, <2>1 DEF PhaseInv, ChildrenAreNew, InStep, Skewed, EndsAreFinal
<1> QED BY <1>2, <1>3, <1>4 DEF Next

\* entering is right about every process that lost no syscall stop, whatever
\* the order in which the statuses of the processes arrive.
THEOREM PhaseSafety == Spec => []PhaseInStep
<1>1. PhaseInv => PhaseInStep
  BY DEF PhaseInv, InStep, PhaseInStep, Outside, InCall
<1>2. Init => PhaseInv
  BY PhaseInit
<1>3. PhaseInv /\ [Next]_vars => PhaseInv'
  BY PhaseNext
<1> QED BY <1>1, <1>2, <1>3, PTL DEF Spec

-----------------------------------------------------------------------------
(***************************************************************************)
(* The report.  A pending probe is the call its process is in, so the      *)
(* result read at the exit stop belongs to the path noted at the entry,    *)
(* even for the processes entering is wrong about.                         *)
(***************************************************************************)
PendingIsCurrent ==
    \A p \in Procs :
        /\ entering[p] => pending[p] = NoCall
        /\ pending[p] # NoCall => pending[p].kind = "probe"
        /\ at[p] \in InCall /\ ~entering[p] /\ pending[p] # NoCall => pending[p] = call[p]

TouchedByCall ==
    \A p \in Procs :
        /\ at[p] \in {"return", "ev_fork", "ev_exec"} => call[p].kind \in {"fork", "exec"}
        /\ at[p] \in InCall \cup {"enter"} /\ call[p].kind = "exec" =>
              <<call[p].path, "exec">> \in touched[p]
        /\ at[p] = "leave" /\ ok[p] /\ call[p].kind = "probe" =>
              <<call[p].path, "open">> \in touched[p]

SoundInv == PhaseInv /\ PendingIsCurrent /\ TouchedByCall /\ ReportSound

\* Nothing is pending or reported when the loop starts.
LEMMA SoundInit == Init => SoundInv
BY PhaseInit
   DEF Init, TraceesInit, SoundInv, PendingIsCurrent, TouchedByCall, ReportSound, InCall

\* What is touched stays touched.
LEMMA TouchedGrows ==
    ASSUME Typed, NEW p \in Procs, TraceeStep(p) \/ Signal(p) \/ Kill(p)
    PROVE  \A q \in Procs : touched[q] \subseteq touched'[q]
<1>1. touched \in [Procs -> SUBSET Access]
  BY DEF Typed, TypeOK, TraceesTypeOK
<1>2. CASE EnterCall(p)
  BY <1>1, <1>2 DEF EnterCall
<1>3. CASE Probe(p)
  BY <1>1, <1>3 DEF Probe
<1>4. CASE ~(EnterCall(p) \/ Probe(p))
  <2>1. touched' = touched
    BY <1>4
       DEF TraceeStep, StopAtBirth, Fork, Exec, Await, Exit, Return, Die, Finish, Signal, Kill
  <2> QED BY <2>1
<1> QED BY <1>2, <1>3, <1>4

\* A process that moves makes nothing reported or pending untrue: its call
\* changes only at an entry, and by then what was pending is forgotten.
LEMMA SoundTraceeStep ==
    ASSUME SoundInv, NEW p \in Procs, TraceeStep(p) \/ Signal(p) \/ Kill(p),
           UNCHANGED tracerVars
    PROVE  PendingIsCurrent' /\ TouchedByCall' /\ ReportSound'
<1>1. /\ Typed /\ PendingIsCurrent /\ TouchedByCall /\ ReportSound
      /\ at \in [Procs -> Places] /\ call \in [Procs -> Call] /\ ok \in [Procs -> BOOLEAN]
      /\ touched \in [Procs -> SUBSET Access]
      /\ UNCHANGED <<entering, pending, report>>
  BY DEF SoundInv, PhaseInv, Typed, TypeOK, TraceesTypeOK, tracerVars
<1>2. ReportSound'
  BY <1>1, TouchedGrows DEF ReportSound
<1>3. ASSUME NEW x, at' = [at EXCEPT ![p] = x], call' = call,
             x \in InCall => at[p] \in InCall
      PROVE  PendingIsCurrent'
  BY <1>1, <1>3 DEF PendingIsCurrent
<1>4. ASSUME NEW x, at' = [at EXCEPT ![p] = x], UNCHANGED <<call, ok, touched>>,
             x \notin InCall \cup {"enter"}
      PROVE  TouchedByCall'
  BY <1>1, <1>4 DEF TouchedByCall, InCall
<1>5. ASSUME NEW x, at' = [at EXCEPT ![p] = x], UNCHANGED <<call, touched>>,
             x \in InCall, at[p] \in InCall,
             call[p].kind # "probe", \A q \in Procs \ {p} : ok'[q] = ok[q],
             x \in {"return", "ev_fork", "ev_exec"} => call[p].kind \in {"fork", "exec"}
      PROVE  TouchedByCall'
  BY <1>1, <1>5 DEF TouchedByCall
<1>6. CASE StopAtBirth(p)
  BY <1>2, <1>3, <1>4, <1>6 DEF StopAtBirth, InCall
<1>7. CASE EnterCall(p)
  <2>1. PICK c \in NextCalls(p) :
          /\ call' = [call EXCEPT ![p] = c]
          /\ touched' = IF c.kind = "exec"
                        THEN [touched EXCEPT ![p] = @ \cup {<<c.path, "exec">>}]
                        ELSE touched
    BY <1>7 DEF EnterCall
  <2>2. at' = [at EXCEPT ![p] = "enter"] /\ ok' = ok
    BY <1>7 DEF EnterCall
  <2>3. PendingIsCurrent'
    BY <1>1, <2>1, <2>2 DEF PendingIsCurrent, InCall
  <2>4. TouchedByCall'
    <3>1. call'[p] = c /\ (c.kind = "exec" => <<c.path, "exec">> \in touched'[p]) /\ at'[p] = "enter"
      BY <1>1, <2>1, <2>2
    <3>2. \A q \in Procs \ {p} : at'[q] = at[q] /\ call'[q] = call[q] /\ touched'[q] = touched[q]
      BY <1>1, <2>1, <2>2
    <3> QED BY <1>1, <2>2, <3>1, <3>2 DEF TouchedByCall
  <2> QED BY <1>2, <2>3, <2>4
<1>8. CASE Probe(p)
  <2>1. PICK r \in BOOLEAN :
          /\ ok' = [ok EXCEPT ![p] = r]
          /\ touched' = IF r /\ call[p].kind = "probe"
                        THEN [touched EXCEPT ![p] = @ \cup {<<call[p].path, "open">>}]
                        ELSE touched
    BY <1>8 DEF Probe
  <2>2. /\ at' = [at EXCEPT ![p] = "leave"] /\ call' = call /\ at[p] \in InCall
        /\ call[p].kind \in {"probe", "dirprobe"}
    BY <1>8 DEF Probe, InCall
  <2>3. PendingIsCurrent'
    BY <1>3, <2>2
  <2>4. TouchedByCall'
    <3>1. at'[p] = "leave" /\ ok'[p] = r
          /\ (r /\ call[p].kind = "probe" => <<call[p].path, "open">> \in touched'[p])
      BY <1>1, <2>1, <2>2
    <3>2. \A q \in Procs \ {p} : at'[q] = at[q] /\ ok'[q] = ok[q] /\ touched'[q] = touched[q]
      BY <1>1, <2>1, <2>2
    <3> QED BY <1>1, <2>2, <3>1, <3>2 DEF TouchedByCall
  <2> QED BY <1>2, <2>3, <2>4
<1>9. CASE Fork(p)
  <2>1. /\ call[p].kind = "fork" /\ at[p] = "kernel" /\ UNCHANGED <<call, touched>>
        /\ \A q \in Procs \ {p} : ok'[q] = ok[q]
    BY <1>1, <1>9 DEF Fork
  <2>2. /\ at'[p] \in {"ev_fork", "leave"}
        /\ \A q \in Procs \ {p} : at'[q] = at[q] \/ at'[q] = "born"
    BY <1>1, <1>9 DEF Fork
  <2>3. PendingIsCurrent'
    BY <1>1, <2>1, <2>2 DEF PendingIsCurrent, InCall
  <2>4. TouchedByCall'
    BY <1>1, <2>1, <2>2 DEF TouchedByCall, InCall
  <2> QED BY <1>2, <2>3, <2>4
<1>10. CASE Exec(p)
  <2>1. PICK x \in {"ev_exec", "leave"} : at' = [at EXCEPT ![p] = x]
    BY <1>10 DEF Exec
  <2>2. /\ call[p].kind = "exec" /\ at[p] = "kernel" /\ UNCHANGED <<call, touched>>
        /\ \A q \in Procs \ {p} : ok'[q] = ok[q]
    BY <1>1, <1>10 DEF Exec
  <2> QED BY <1>2, <1>3, <1>5, <2>1, <2>2 DEF InCall
<1>11. CASE Await(p)
  <2>1. /\ call[p].kind = "await" /\ at[p] = "kernel" /\ UNCHANGED <<call, touched>>
        /\ at' = [at EXCEPT ![p] = "leave"] /\ \A q \in Procs \ {p} : ok'[q] = ok[q]
    BY <1>1, <1>11 DEF Await
  <2> QED BY <1>2, <1>3, <1>5, <2>1 DEF InCall
<1>12. CASE Return(p)
  <2>1. /\ at[p] = "return" /\ UNCHANGED <<call, touched>> /\ at' = [at EXCEPT ![p] = "leave"]
        /\ \A q \in Procs \ {p} : ok'[q] = ok[q]
    BY <1>1, <1>12 DEF Return
  <2>2. call[p].kind \in {"fork", "exec"}
    BY <1>1, <2>1 DEF TouchedByCall
  <2> QED BY <1>2, <1>3, <1>5, <2>1, <2>2 DEF InCall
<1>13. CASE Exit(p) \/ Die(p) \/ Finish(p) \/ Signal(p) \/ Kill(p)
  <2>1. PICK x \in {"ev_exit", "zombie", "signal"} : at' = [at EXCEPT ![p] = x]
    BY <1>13 DEF Exit, Die, Finish, Signal, Kill
  <2>2. UNCHANGED <<call, ok, touched>>
    BY <1>13 DEF Exit, Die, Finish, Signal, Kill
  <2> QED BY <1>2, <1>3, <1>4, <2>1, <2>2 DEF InCall
<1> QED
  BY <1>6, <1>7, <1>8, <1>9, <1>10, <1>11, <1>12, <1>13 DEF TraceeStep

\* The setup of the root touches nothing.
LEMMA SoundSetup ==
    ASSUME SoundInv, SetupDone \/ SetupFails, UNCHANGED tracerVars
    PROVE  PendingIsCurrent' /\ TouchedByCall' /\ ReportSound'
<1>1. /\ PendingIsCurrent /\ TouchedByCall /\ ReportSound
      /\ at \in [Procs -> Places] /\ UNCHANGED <<call, ok, touched, entering, pending, report>>
  BY DEF SoundInv, PhaseInv, Typed, TypeOK, TraceesTypeOK, tracerVars, SetupDone, SetupFails
<1>2. PICK x \in {"sigstop", "zombie"} : at' = [at EXCEPT ![Root] = x]
  BY DEF SetupDone, SetupFails
<1>3. \A q \in Procs : at'[q] = at[q] \/ at'[q] \in {"sigstop", "zombie"}
  BY <1>1, <1>2
<1> QED
  BY <1>1, <1>3 DEF PendingIsCurrent, TouchedByCall, ReportSound, InCall

\* The loop writes to report at the syscall stops only.
LEMMA SoundTracerStep ==
    ASSUME SoundInv, TracerStep
    PROVE  PendingIsCurrent' /\ TouchedByCall' /\ ReportSound'
<1> DEFINE g == got.pid
<1>1. /\ Typed /\ ChildrenAreNew /\ InStep /\ EndsAreFinal
      /\ PendingIsCurrent /\ TouchedByCall /\ ReportSound
      /\ at \in [Procs -> Places] /\ g \in Procs
      /\ entering \in [Procs -> BOOLEAN] /\ pending \in [Procs -> Probes \cup {NoCall}]
  BY DEF SoundInv, PhaseInv, Typed, TypeOK, TraceesTypeOK
<1>2. UNCHANGED <<call, ok, touched>>
  BY DEF TracerStep, Wait, NoChild, HandleLost, HandleStop, HandleSignal, HandleEntry,
         HandleReturn, HandleUnreadable, HandleFork, ResumeNewTracee, HandleExited,
         HandleSignaled, KeepTracees, traceeVars
<1>3. ASSUME \A q \in Procs : at'[q] = at[q] \/ at'[q] \notin InCall \cup {"enter"},
             UNCHANGED <<entering, pending, report>>
      PROVE  PendingIsCurrent' /\ TouchedByCall' /\ ReportSound'
  BY <1>1, <1>2, <1>3 DEF PendingIsCurrent, TouchedByCall, ReportSound, InCall
<1> USE DEF InCall
<1>4. ASSUME NEW p \in Procs, Wait(p) PROVE PendingIsCurrent' /\ TouchedByCall' /\ ReportSound'
  BY <1>1, <1>3, <1>4 DEF Wait
<1>5. CASE NoChild \/ HandleLost \/ HandleFork
  BY <1>3, <1>5 DEF NoChild, HandleLost, HandleFork, traceeVars
<1>6. CASE HandleStop
  <2>1. /\ at[g] \in {"sigstop", "ev_exec", "ev_exit"} /\ at' = [at EXCEPT ![g] = Resumed[at[g]]]
        /\ UNCHANGED <<entering, pending, report>>
    BY <1>6 DEF HandleStop, Handling, Held, Resume
  <2>2. /\ \A q \in Procs \ {g} : at'[q] = at[q]
        /\ at'[g] \in {"user", "exiting"} \/ (at[g] = "ev_exec" /\ at'[g] = "return")
    BY <1>1, <2>1 DEF Resumed
  <2> QED BY <1>1, <1>2, <2>1, <2>2 DEF PendingIsCurrent, TouchedByCall, ReportSound
<1>7. CASE HandleSignal \/ HandleUnreadable
  <2>1. PICK x \in {"user", "dying", "free"} : at' = [at EXCEPT ![g] = x]
    BY <1>7 DEF HandleSignal, HandleUnreadable
  <2>2. UNCHANGED <<entering, pending, report>>
    BY <1>7 DEF HandleSignal, HandleUnreadable
  <2> QED BY <1>1, <1>3, <2>1, <2>2
<1>8. CASE HandleEntry
  <2>1. /\ at[g] \in {"enter", "leave"} /\ entering[g]
        /\ at'[g] = (IF at[g] = "enter" THEN "kernel" ELSE "user") /\ ~entering'[g]
        /\ \A q \in Procs \ {g} :
              at'[q] = at[q] /\ entering'[q] = entering[q] /\ pending'[q] = pending[q]
    <3>1. at[g] \in {"enter", "leave"} /\ entering[g] /\ at' = [at EXCEPT ![g] = Resumed[at[g]]]
      BY <1>8 DEF HandleEntry, Handling, Held, Resume
    <3>2. at'[g] = (IF at[g] = "enter" THEN "kernel" ELSE "user")
      BY <1>1, <3>1 DEF Resumed
    <3>3. ~entering'[g] /\ \A q \in Procs \ {g} : entering'[q] = entering[q] /\ pending'[q] = pending[q]
      BY <1>1, <1>8 DEF HandleEntry
    <3> QED BY <3>1, <3>2, <3>3
  <2>2. /\ pending'[g] = (IF call[g].kind = "probe" THEN call[g] ELSE pending[g])
        /\ report' = report \/ (call[g].kind = "exec"
                                 /\ report' = report \cup {<<call[g].path, "exec">>})
    BY <1>1, <1>8 DEF HandleEntry
  <2>3. PendingIsCurrent'
    BY <1>1, <1>2, <2>1, <2>2 DEF PendingIsCurrent
  <2>4. TouchedByCall'
    BY <1>1, <1>2, <2>1 DEF TouchedByCall
  <2>5. ReportSound'
    <3>1. call[g].kind = "exec" => <<call[g].path, "exec">> \in touched[g]
      BY <1>1, <2>1 DEF TouchedByCall
    <3>2. report' \subseteq report \cup touched[g]
      BY <2>2, <3>1
    <3> QED BY <1>1, <1>2, <3>2 DEF ReportSound
  <2> QED BY <2>3, <2>4, <2>5
<1>9. CASE HandleReturn
  <2>1. /\ at[g] \in {"enter", "leave"} /\ ~entering[g] /\ entering'[g] /\ pending'[g] = NoCall
        /\ at'[g] = (IF at[g] = "enter" THEN "kernel" ELSE "user")
        /\ \A q \in Procs \ {g} :
              at'[q] = at[q] /\ entering'[q] = entering[q] /\ pending'[q] = pending[q]
    <3>1. at[g] \in {"enter", "leave"} /\ ~entering[g] /\ at' = [at EXCEPT ![g] = Resumed[at[g]]]
      BY <1>9 DEF HandleReturn, Handling, Held, Resume
    <3>2. at'[g] = (IF at[g] = "enter" THEN "kernel" ELSE "user")
      BY <1>1, <3>1 DEF Resumed
    <3>3. /\ entering'[g] /\ pending'[g] = NoCall
          /\ \A q \in Procs \ {g} : entering'[q] = entering[q] /\ pending'[q] = pending[q]
      BY <1>1, <1>9 DEF HandleReturn
    <3> QED BY <3>1, <3>2, <3>3
  <2>2. \/ report' = report
        \/ /\ at[g] = "leave" /\ ok[g] /\ pending[g] # NoCall
           /\ report' = report \cup {<<pending[g].path, "open">>}
    BY <1>9 DEF HandleReturn, Handling, Held, Succeeded
  <2>3. PendingIsCurrent'
    BY <1>1, <1>2, <2>1 DEF PendingIsCurrent
  <2>4. TouchedByCall'
    BY <1>1, <1>2, <2>1 DEF TouchedByCall
  <2>5. ReportSound'
    <3>1. ASSUME at[g] = "leave", ok[g], pending[g] # NoCall
          PROVE  <<pending[g].path, "open">> \in touched[g]
      <4>1. pending[g] = call[g] /\ pending[g].kind = "probe"
        BY <1>1, <2>1, <3>1 DEF PendingIsCurrent
      <4> QED BY <1>1, <3>1, <4>1 DEF TouchedByCall
    <3>2. report' \subseteq report \cup touched[g]
      BY <2>2, <3>1
    <3> QED BY <1>1, <1>2, <3>2 DEF ReportSound
  <2> QED BY <2>3, <2>4, <2>5
<1>10. CASE ResumeNewTracee
  <2> DEFINE child == forked[g]
  <2>1. /\ child \in Procs /\ child # g /\ child \notin Skewed
        /\ UNCHANGED <<entering, pending, report>>
    BY <1>1, <1>10 DEF ResumeNewTracee, ChildrenAreNew, Typed, ForksHaveChildren, Skewed
  <2>2. /\ \A q \in Procs \ {child, g} : at'[q] = at[q]
        /\ at'[g] = at[g] \/ (at[g] = "ev_fork" /\ at'[g] = "return")
    BY <1>1, <1>10, <2>1 DEF ResumeNewTracee
  <2>3. at'[child] = IF at[child] \in Stops THEN Resumed[at[child]] ELSE "reaped"
    BY <1>1, <1>10, <2>1 DEF ResumeNewTracee
  <2>4. \/ at'[child] \notin InCall \cup {"enter"}
        \/ at[child] \in {"ev_fork", "ev_exec"} /\ at'[child] = "return"
        \/ at[child] = "enter" /\ at'[child] = "kernel" /\ entering[child]
    BY <1>1, <2>1, <2>3 DEF Stops, Resumed, InStep, Outside
  <2>5. PendingIsCurrent'
    BY <1>1, <1>2, <2>1, <2>2, <2>4 DEF PendingIsCurrent
  <2>6. TouchedByCall'
    BY <1>1, <1>2, <2>1, <2>2, <2>4 DEF TouchedByCall
  <2> QED BY <1>1, <1>2, <2>1, <2>5, <2>6 DEF ReportSound
<1>11. CASE HandleExited \/ HandleSignaled
  <2>1. /\ UNCHANGED <<at, report>> /\ entering'[g] /\ pending'[g] = NoCall
        /\ \A q \in Procs \ {g} : entering'[q] = entering[q] /\ pending'[q] = pending[q]
    BY <1>1, <1>11 DEF HandleExited, HandleSignaled, Forget, FirstIsEntry, traceeVars
  <2> QED BY <1>1, <1>2, <2>1 DEF PendingIsCurrent, TouchedByCall, ReportSound
<1> QED
  BY <1>4, <1>5, <1>6, <1>7, <1>8, <1>9, <1>10, <1>11 DEF TracerStep

\* What is reported stays touched, whoever moves.
LEMMA SoundNext == SoundInv /\ [Next]_vars => SoundInv'
<1> SUFFICES ASSUME SoundInv, [Next]_vars PROVE SoundInv'
  OBVIOUS
<1>1. PhaseInv'
  BY PhaseNext DEF SoundInv
<1>2. CASE TracerStep
  BY <1>1, <1>2, SoundTracerStep DEF SoundInv
<1>3. CASE TraceesNext /\ UNCHANGED tracerVars
  <2>1. CASE SetupDone \/ SetupFails
    BY <1>1, <1>3, <2>1, SoundSetup DEF SoundInv
  <2>2. ASSUME NEW p \in Procs, TraceeStep(p) \/ Signal(p) \/ Kill(p) PROVE SoundInv'
    BY <1>1, <1>3, <2>2, SoundTraceeStep DEF SoundInv
  <2> QED BY <1>3, <2>1, <2>2 DEF TraceesNext
<1>4. CASE UNCHANGED vars
  <2>1. UNCHANGED <<at, call, ok, touched, entering, pending, report>>
    BY <1>4 DEF vars, traceeVars, tracerVars
  <2> QED
    BY <1>1, <2>1 DEF SoundInv, PendingIsCurrent, TouchedByCall, ReportSound
<1> QED BY <1>2, <1>3, <1>4 DEF Next

\* No trace reports a path that none of its processes touched: not for an
\* early child, a lost stop, a failed probe, a signal or a SIGKILL.
THEOREM ReportSafety == Spec => []ReportSound
<1>1. SoundInv => ReportSound
  BY DEF SoundInv
<1>2. Init => SoundInv
  BY SoundInit
<1>3. SoundInv /\ [Next]_vars => SoundInv'
  BY SoundNext
<1> QED BY <1>1, <1>2, <1>3, PTL DEF Spec

-----------------------------------------------------------------------------
(* What it means that parent_trace returns Ok: the command ran, nobody     *)
(* that the loop knew is left behind, and nothing they touched is missing. *)

\* A SIGKILLed process is dead, and a process the loop has not seen a stop of
\* has not been resumed.
KilledAreDead == \A p \in Procs : code[p] = "sigkill" => at[p] \in {"zombie", "reaped"}

Unseen == {"unborn", "born", "sigstop", "zombie", "reaped"}
TrackedRun == \A p \in Procs \ tracked : at[p] \in Unseen

\* Between HandleFork and ResumeNewTracee parent and child stay what they are.
AttachKnows ==
    tpc = "attach" => /\ got.pid \in tracked /\ forked[got.pid] \in tracked
                      /\ at[got.pid] \in {"ev_fork", "zombie"}

\* The loop hears of a child sooner or later, or p is Unannounced.
Announced(p) == \E q \in Procs : at[q] = "ev_fork" /\ forked[q] = p
ChildrenHeardOf ==
    \A p \in Procs \ tracked : at[p] \in {"born", "sigstop"} => p \in Unannounced \/ Announced(p)

\* Until the command runs, Root is alone, and its end tells why.
NotLaunched ==
    launch # "running" =>
        /\ \A p \in Procs \ {Root} : at[p] = "unborn"
        /\ tracked \subseteq {Root} /\ got.pid = Root /\ tpc # "attach"
        /\ at[Root] \notin {"unborn", "ev_fork", "ev_exec", "return"}
        /\ at[Root] \in {"enter", "kernel"} =>
              call[Root].kind = IF launch = "starting" THEN "exec" ELSE "exit"
        /\ at[Root] \in {"exiting", "ev_exit", "zombie", "reaped"} =>
              code[Root] \in Killing \cup {"40", "41", "42"}
        /\ tpc = "wait" => at[Root] # "reaped"

\* What p has touched that the loop will still report.
InFlight(p) ==
    IF at[p] = "enter" /\ call[p].kind = "exec" THEN {<<call[p].path, "exec">>}
    ELSE IF at[p] = "leave" /\ ok[p] /\ call[p].kind = "probe" THEN {<<call[p].path, "open">>}
    ELSE {}

ReportComplete ==
    \A p \in Procs \ Skewed : code[p] # "sigkill" /\ at[p] # "free" =>
        /\ touched[p] \subseteq report \cup InFlight(p)
        /\ at[p] \in {"kernel", "leave"} /\ call[p].kind = "probe" => pending[p] = call[p]

\* A tracee is detached by a trace that fails only.
FreedByFailure == \A p \in Procs : at[p] = "free" => outcome = "nix"

\* A successful trace is over, and left nobody it knew.
OkIsOver ==
    outcome = "ok" =>
        /\ tpc = "done" /\ launch = "running"
        /\ \A p \in Procs : Alive(p) => at[p] \in {"born", "sigstop"} /\ p \in Unannounced

ResultInv ==
    /\ SoundInv
    /\ KilledAreDead /\ TrackedRun /\ AttachKnows /\ ChildrenHeardOf
    /\ NotLaunched /\ ReportComplete /\ FreedByFailure /\ OkIsOver
    /\ (tpc = "done" <=> outcome # "running")

\* The loop starts with Root, which has done nothing.
LEMMA ResultInit == Init => ResultInv
<1> SUFFICES ASSUME Init PROVE ResultInv
  OBVIOUS
<1>1. SoundInv
  BY SoundInit
<1>2. \A p \in Procs : /\ at[p] = (IF p = Root THEN "setup" ELSE "unborn")
                       /\ code[p] = "none" /\ touched[p] = {}
  BY DEF Init, TraceesInit
<1>3. tracked = {Root} /\ tpc = "wait" /\ outcome = "running" /\ got.pid = Root
  BY DEF Init
<1> QED
  BY <1>1, <1>2, <1>3, RootIsProc
     DEF ResultInv, KilledAreDead, TrackedRun, Unseen, AttachKnows, ChildrenHeardOf, NotLaunched,
         Killing, ReportComplete, FreedByFailure, OkIsOver

-----------------------------------------------------------------------------
(***************************************************************************)
(* What the processes do by themselves.                                    *)
(***************************************************************************)
Moves == {<<"born", "sigstop">>, <<"user", "enter">>, <<"user", "signal">>, <<"kernel", "leave">>,
          <<"kernel", "ev_exec">>, <<"kernel", "ev_exit">>, <<"return", "leave">>,
          <<"dying", "ev_exit">>, <<"exiting", "zombie">>}

Move(p, x) ==
    /\ at' = [at EXCEPT ![p] = x] /\ <<at[p], x>> \in Moves /\ forked' = forked
    /\ \E v \in Codes \ {"sigkill"} : code' = [code EXCEPT ![p] = v]

ForkOff(p, c) ==
    /\ at[p] = "kernel" /\ at[c] = "unborn" /\ code' = code
    /\ at' = [at EXCEPT ![p] = "ev_fork", ![c] = "born"] /\ forked' = [forked EXCEPT ![p] = c]

\* The steps of a process, by how it moves.
LEMMA TraceeMoves ==
    ASSUME Typed, KilledAreDead, NEW p \in Procs, TraceeStep(p) \/ Signal(p) \/ Kill(p)
    PROVE  \/ \E x \in Places : Move(p, x)
           \/ \E c \in Procs : ForkOff(p, c)
           \/ Kill(p)
<1>1. /\ code \in [Procs -> Codes] /\ code = [code EXCEPT ![p] = code[p]]
      /\ Alive(p) => code[p] # "sigkill"
  BY DEF Typed, TypeOK, TraceesTypeOK, KilledAreDead, Alive, Stops, Running
<1> USE DEF Move, Moves, Places, Stops, Running, Gone, Alive
<1>2. CASE StopAtBirth(p) \/ EnterCall(p) \/ Probe(p) \/ Exec(p) \/ Await(p) \/ Return(p) \/ Finish(p)
           \/ Signal(p)
  <2>1. code' = code /\ forked' = forked
    BY <1>2 DEF StopAtBirth, EnterCall, Probe, Exec, Await, Return, Finish, Signal
  <2>2. \E x \in Places : at' = [at EXCEPT ![p] = x] /\ <<at[p], x>> \in Moves
    BY <1>2 DEF StopAtBirth, EnterCall, Probe, Exec, Await, Return, Finish, Signal
  <2> QED
    BY <1>1, <2>1, <2>2
<1>3. CASE Fork(p)
  <2>1. CASE at' = [at EXCEPT ![p] = "leave"] /\ forked' = forked
    BY <1>1, <1>3, <2>1 DEF Fork
  <2> QED
    BY <1>3, <2>1 DEF Fork, ForkOff
<1>4. CASE Exit(p)
  BY <1>1, <1>4, CodesKnown DEF Exit, Codes
<1>5. CASE Die(p)
  BY <1>1, <1>5 DEF Die, Codes, Killing
<1> QED
  BY <1>2, <1>3, <1>4, <1>5 DEF TraceeStep

\* Nobody escapes the loop by a step of its own.
LEMMA TrackTraceeStep ==
    ASSUME ResultInv, NEW p \in Procs, TraceeStep(p) \/ Signal(p) \/ Kill(p), UNCHANGED tracerVars
    PROVE  KilledAreDead' /\ TrackedRun' /\ AttachKnows' /\ ChildrenHeardOf' /\ FreedByFailure'
<1>1. /\ KilledAreDead /\ TrackedRun /\ AttachKnows /\ ChildrenHeardOf /\ FreedByFailure /\ Typed
      /\ UNCHANGED <<tpc, got, tracked, outcome, untold>>
  BY DEF ResultInv, SoundInv, PhaseInv, tracerVars
<1>2. /\ at \in [Procs -> Places] /\ code \in [Procs -> Codes] /\ got.pid \in Procs
      /\ forked \in [Procs -> Procs \cup {NoProc}]
  BY <1>1 DEF Typed, TypeOK, TraceesTypeOK
<1>3. CASE \E x \in Places : Move(p, x)
  <2>1. PICK x \in Places, v \in Codes \ {"sigkill"} :
          /\ at' = [at EXCEPT ![p] = x] /\ <<at[p], x>> \in Moves /\ forked' = forked
          /\ code' = [code EXCEPT ![p] = v]
    BY <1>3 DEF Move
  <2>2. at[p] # "ev_fork" /\ x # "ev_fork" /\ x # "free"
    BY <2>1 DEF Moves
  <2>3. KilledAreDead' /\ FreedByFailure'
    BY <1>1, <1>2, <2>1, <2>2 DEF KilledAreDead, FreedByFailure
  <2>4. TrackedRun' /\ AttachKnows'
    BY <1>1, <1>2, <2>1 DEF TrackedRun, AttachKnows, Unseen, Moves
  <2>5. Unannounced \subseteq Unannounced'
    BY <1>1, <1>2, <2>1 DEF Unannounced, KilledAreDead, Moves
  <2>6. ChildrenHeardOf'
    BY <1>1, <1>2, <2>1, <2>2, <2>5 DEF ChildrenHeardOf, Announced, Moves, TrackedRun, Unseen
  <2> QED
    BY <2>3, <2>4, <2>6
<1>4. CASE \E c \in Procs : ForkOff(p, c)
  <2>1. PICK c \in Procs : ForkOff(p, c)
    BY <1>4
  <2>2. p # c /\ \A q \in Procs \ {p, c} : at'[q] = at[q]
    BY <1>2, <2>1 DEF ForkOff
  <2>3. KilledAreDead' /\ FreedByFailure' /\ TrackedRun' /\ AttachKnows'
    BY <1>1, <1>2, <2>1, <2>2
       DEF ForkOff, KilledAreDead, FreedByFailure, TrackedRun, AttachKnows, Unseen
  <2>4. Unannounced \subseteq Unannounced'
    BY <1>1, <1>2, <2>1 DEF Unannounced, KilledAreDead, ForkOff
  <2>5. ChildrenHeardOf'
    BY <1>1, <1>2, <2>1, <2>2, <2>4 DEF ChildrenHeardOf, Announced, ForkOff
  <2> QED
    BY <2>3, <2>5
<1>5. CASE Kill(p)
  <2>1. /\ at' = [at EXCEPT ![p] = "zombie"] /\ code' = [code EXCEPT ![p] = "sigkill"]
        /\ forked' = forked /\ Alive(p)
    BY <1>5 DEF Kill
  <2>2. KilledAreDead' /\ FreedByFailure' /\ TrackedRun' /\ AttachKnows'
    BY <1>1, <1>2, <2>1 DEF KilledAreDead, FreedByFailure, TrackedRun, AttachKnows, Unseen
  <2>3. Unannounced \cup {forked[p]} \subseteq Unannounced'
    BY <1>1, <1>2, <2>1 DEF Unannounced
  <2>4. ChildrenHeardOf'
    BY <1>1, <1>2, <2>1, <2>3 DEF ChildrenHeardOf, Announced
  <2> QED
    BY <2>2, <2>4
<1> QED
  BY <1>1, <1>3, <1>4, <1>5, TraceeMoves

\* Root makes no call but the execve of the command before it runs.
LEMMA LaunchTraceeStep ==
    ASSUME ResultInv, NEW p \in Procs, TraceeStep(p) \/ Signal(p) \/ Kill(p), UNCHANGED tracerVars
    PROVE  NotLaunched'
<1> SUFFICES ASSUME launch' # "running" PROVE NotLaunched'
  BY DEF NotLaunched
<1>1. /\ NotLaunched /\ UNCHANGED <<tpc, got, tracked>> /\ RootIsProc
      /\ at \in [Procs -> Places] /\ code \in [Procs -> Codes] /\ call \in [Procs -> Call]
  BY RootIsProc DEF ResultInv, SoundInv, PhaseInv, Typed, TypeOK, TraceesTypeOK, tracerVars
<1>2. launch # "running"
  BY DEF TraceeStep, StopAtBirth, EnterCall, Probe, Fork, Exec, Await, Exit, Return, Die, Finish,
         Signal, Kill
<1>3. p = Root
  <2>1. at[p] # "unborn"
    BY DEF TraceeStep, StopAtBirth, EnterCall, Probe, Fork, Exec, Await, Exit, Return, Die, Finish,
           Signal, Kill, Alive, Stops, Running
  <2> QED
    BY <1>1, <1>2, <2>1 DEF NotLaunched
<1> USE <1>1, <1>2, <1>3 DEF NotLaunched
<1>4. CASE StopAtBirth(p) \/ Signal(p)
  BY <1>4 DEF StopAtBirth, Signal
<1>5. CASE EnterCall(p)
  <2>1. PICK c \in NextCalls(p) : call' = [call EXCEPT ![p] = c]
    BY <1>5 DEF EnterCall
  <2>2. c.kind = IF launch = "starting" THEN "exec" ELSE "exit"
    <3>1. launch \in {"starting", "failed"}
      BY DEF ResultInv, SoundInv, PhaseInv, Typed, TypeOK, TraceesTypeOK
    <3> QED
      BY <2>1, <3>1 DEF NextCalls, ExitCall
  <2> QED
    BY <1>5, <2>1, <2>2 DEF EnterCall
<1>6. CASE Probe(p) \/ Fork(p) \/ Await(p) \/ Return(p)
  BY <1>6 DEF Probe, Fork, Await, Return
<1>7. CASE Exec(p)
  BY <1>7 DEF Exec
<1>8. CASE Exit(p)
  <2>1. launch = "failed"
    BY <1>8 DEF Exit, ResultInv, SoundInv, PhaseInv, Typed, TypeOK, TraceesTypeOK
  <2> QED
    BY <1>8, <2>1 DEF Exit
<1>9. CASE Die(p) \/ Finish(p) \/ Kill(p)
  BY <1>9 DEF Die, Finish, Kill, Killing
<1> QED
  BY <1>4, <1>5, <1>6, <1>7, <1>8, <1>9 DEF TraceeStep

\* What a process touches is in flight at its next stop.
LEMMA CompleteTraceeStep ==
    ASSUME ResultInv, NEW p \in Procs, TraceeStep(p) \/ Signal(p) \/ Kill(p), UNCHANGED tracerVars
    PROVE  ReportComplete'
<1>1. /\ ReportComplete /\ KilledAreDead /\ TouchedByCall /\ UNCHANGED <<report, pending, dropped>>
      /\ at \in [Procs -> Places] /\ code \in [Procs -> Codes] /\ call \in [Procs -> Call]
      /\ ok \in [Procs -> BOOLEAN] /\ touched \in [Procs -> SUBSET Access] /\ Typed
  BY DEF ResultInv, SoundInv, PhaseInv, Typed, TypeOK, TraceesTypeOK, tracerVars
<1>2. at[p] \notin {"free", "zombie", "reaped"} /\ code[p] # "sigkill"
  <2>1. at[p] \notin {"free", "zombie", "reaped"}
    BY DEF TraceeStep, StopAtBirth, EnterCall, Probe, Fork, Exec, Await, Exit, Return, Die, Finish,
           Signal, Kill, Alive, Stops, Running
  <2> QED
    BY <1>1, <2>1 DEF KilledAreDead
<1>3. ASSUME NEW q \in Procs \ {p}, q \notin Skewed', code'[q] # "sigkill", at'[q] # "free"
      PROVE  /\ touched'[q] \subseteq (report \cup InFlight(q))'
             /\ at'[q] \in {"kernel", "leave"} /\ call'[q].kind = "probe" => pending'[q] = call'[q]
  <2>1. call'[q] = call[q] /\ touched'[q] = touched[q] /\ ok'[q] = ok[q] /\ code'[q] = code[q]
    BY <1>1
       DEF TraceeStep, StopAtBirth, EnterCall, Probe, Fork, Exec, Await, Exit, Return, Die, Finish,
           Signal, Kill
  <2>2. at'[q] = at[q] \/ (at[q] = "unborn" /\ at'[q] = "born")
    <3>1. at \in [Procs -> Places] /\ p # q
      BY <1>1
    <3>2. CASE \E x \in Places : Move(p, x)
      BY <3>1, <3>2 DEF Move
    <3>3. CASE \E c \in Procs : ForkOff(p, c)
      BY <3>1, <3>3 DEF ForkOff
    <3>4. CASE Kill(p)
      BY <3>1, <3>4 DEF Kill
    <3> QED
      BY <1>1, <3>2, <3>3, <3>4, TraceeMoves
  <2>3. InFlight(q)' = InFlight(q)
    BY <2>1, <2>2 DEF InFlight
  <2>4. q \notin Skewed /\ code[q] # "sigkill" /\ at[q] # "free"
    BY <1>1, <1>3, <2>1, <2>2 DEF Skewed
  <2>5. /\ touched[q] \subseteq report \cup InFlight(q)
        /\ at[q] \in {"kernel", "leave"} /\ call[q].kind = "probe" => pending[q] = call[q]
    BY <1>1, <2>4 DEF ReportComplete
  <2> QED
    BY <1>1, <2>1, <2>2, <2>3, <2>5
<1>4. ASSUME p \notin Skewed', code'[p] # "sigkill"
      PROVE  /\ touched'[p] \subseteq (report \cup InFlight(p))'
             /\ at'[p] \in {"kernel", "leave"} /\ call'[p].kind = "probe" => pending'[p] = call'[p]
  <2>1. /\ touched[p] \subseteq report \cup InFlight(p)
        /\ at[p] \in {"kernel", "leave"} /\ call[p].kind = "probe" => pending[p] = call[p]
    BY <1>1, <1>2, <1>4 DEF ReportComplete, Skewed
  <2>2. CASE EnterCall(p)
    <3>1. PICK c \in NextCalls(p) :
            /\ call' = [call EXCEPT ![p] = c]
            /\ touched' = IF c.kind = "exec"
                          THEN [touched EXCEPT ![p] = @ \cup {<<c.path, "exec">>}]
                          ELSE touched
      BY <2>2 DEF EnterCall
    <3>2. at[p] = "user" /\ at' = [at EXCEPT ![p] = "enter"]
      BY <2>2 DEF EnterCall
    <3> QED
      BY <1>1, <2>1, <3>1, <3>2 DEF InFlight
  <2>3. CASE Probe(p)
    <3>1. PICK r \in BOOLEAN :
            /\ ok' = [ok EXCEPT ![p] = r]
            /\ touched' = IF r /\ call[p].kind = "probe"
                          THEN [touched EXCEPT ![p] = @ \cup {<<call[p].path, "open">>}]
                          ELSE touched
      BY <2>3 DEF Probe
    <3>2. at[p] = "kernel" /\ at' = [at EXCEPT ![p] = "leave"] /\ call' = call
      BY <2>3 DEF Probe
    <3>3. touched[p] \subseteq report
      BY <2>1, <3>2 DEF InFlight
    <3>4. touched'[p] = IF r /\ call[p].kind = "probe" THEN touched[p] \cup {<<call[p].path, "open">>}
                        ELSE touched[p]
      BY <1>1, <3>1
    <3>5. at'[p] = "leave" /\ ok'[p] = r
      BY <1>1, <3>1, <3>2
    <3> QED
      BY <1>1, <2>1, <3>2, <3>3, <3>4, <3>5 DEF InFlight
  <2>4. CASE ~(EnterCall(p) \/ Probe(p))
    <3>1. at[p] \notin {"enter", "leave"} /\ UNCHANGED <<touched, call>>
      BY <1>1, <1>4, <2>4
         DEF TraceeStep, StopAtBirth, Fork, Exec, Await, Exit, Return, Die, Finish, Signal, Kill
    <3>2. at'[p] \in {"kernel", "leave"} => call[p].kind \in {"fork", "exec", "await"}
      BY <1>1, <2>4
         DEF TraceeStep, StopAtBirth, Fork, Exec, Await, Exit, Return, Die, Finish, Signal, Kill,
             TouchedByCall
    <3>3. touched[p] \subseteq report
      BY <2>1, <3>1 DEF InFlight
    <3> QED
      BY <1>1, <3>1, <3>2, <3>3
  <2> QED
    BY <2>2, <2>3, <2>4
<1> QED
  BY <1>3, <1>4 DEF ReportComplete

\* Once the loop has ended well, the children it was never told of go no
\* further than their SIGSTOP.
LEMMA OkTraceeStep ==
    ASSUME ResultInv, NEW p \in Procs, TraceeStep(p) \/ Signal(p) \/ Kill(p), UNCHANGED tracerVars
    PROVE  OkIsOver'
<1> SUFFICES ASSUME outcome = "ok" PROVE OkIsOver'
  BY DEF OkIsOver, tracerVars
<1>1. /\ OkIsOver /\ KilledAreDead /\ Typed /\ UNCHANGED <<tpc, outcome, untold>>
      /\ at \in [Procs -> Places] /\ code \in [Procs -> Codes]
  BY DEF ResultInv, SoundInv, PhaseInv, Typed, TypeOK, TraceesTypeOK, tracerVars
<1>2. StopAtBirth(p) \/ Kill(p)
  BY <1>1 DEF TraceeStep, StopAtBirth, EnterCall, Probe, Fork, Exec, Await, Exit, Return, Die, Finish,
              Signal, OkIsOver, Alive, Stops, Running
<1>3. /\ UNCHANGED <<forked, launch>> /\ \A q \in Procs \ {p} : at'[q] = at[q] /\ code'[q] = code[q]
      /\ \/ at[p] = "born" /\ at'[p] = "sigstop" /\ code'[p] = code[p]
         \/ at'[p] = "zombie" /\ code'[p] = "sigkill"
  BY <1>1, <1>2 DEF StopAtBirth, Kill
<1>4. Unannounced \subseteq Unannounced'
  BY <1>1, <1>3 DEF Unannounced
<1> QED
  BY <1>1, <1>3, <1>4 DEF OkIsOver, Alive, Stops, Running

\* The setup of Root.
LEMMA ResultSetup ==
    ASSUME ResultInv, SetupDone \/ SetupFails, UNCHANGED tracerVars, SoundInv'
    PROVE  ResultInv'
<1>1. /\ at \in [Procs -> Places] /\ code \in [Procs -> Codes] /\ at[Root] = "setup" /\ Root \in Procs
      /\ got.pid \in Procs
      /\ UNCHANGED <<call, ok, forked, launch, touched, tpc, got, tracked, pending, report, outcome,
                     dropped, untold>>
  BY RootIsProc DEF ResultInv, SoundInv, PhaseInv, Typed, TypeOK, TraceesTypeOK, tracerVars,
     SetupDone, SetupFails
<1>2. /\ at' = [at EXCEPT ![Root] = at'[Root]] /\ code' = [code EXCEPT ![Root] = code'[Root]]
      /\ \/ at'[Root] = "sigstop" /\ code'[Root] = code[Root]
         \/ at'[Root] = "zombie" /\ code'[Root] \in {"40", "41"}
  BY <1>1 DEF SetupDone, SetupFails
<1>3. Root \in tracked /\ ~(tpc = "attach" /\ got.pid = Root) /\ outcome # "ok" /\ code[Root] # "sigkill"
  BY <1>1 DEF ResultInv, TrackedRun, Unseen, AttachKnows, OkIsOver, Alive, Running, KilledAreDead
<1>4. \A q \in Procs \ {Root} : at'[q] = at[q] /\ code'[q] = code[q]
  BY <1>1, <1>2
<1>5. KilledAreDead' /\ TrackedRun' /\ AttachKnows' /\ FreedByFailure'
  BY <1>1, <1>2, <1>3, <1>4 DEF ResultInv, KilledAreDead, TrackedRun, AttachKnows, FreedByFailure
<1>6. ChildrenHeardOf'
  <2>1. Unannounced' = Unannounced
    BY <1>1, <1>2, <1>3, <1>4 DEF Unannounced
  <2>2. \A q \in Procs : at[q] = "ev_fork" => at'[q] = "ev_fork"
    BY <1>1, <1>4
  <2> QED
    BY <1>1, <1>3, <1>4, <2>1, <2>2 DEF ResultInv, ChildrenHeardOf, Announced
<1>7. NotLaunched'
  BY <1>1, <1>2, <1>4 DEF ResultInv, NotLaunched, Killing
<1>8. ReportComplete'
  BY <1>1, <1>2, <1>3, <1>4 DEF ResultInv, ReportComplete, InFlight, Skewed
<1>9. OkIsOver' /\ (tpc = "done" <=> outcome # "running")'
  BY <1>1, <1>3 DEF ResultInv, OkIsOver
<1> QED
  BY <1>5, <1>6, <1>7, <1>8, <1>9 DEF ResultInv

-----------------------------------------------------------------------------
(***************************************************************************)
(* What the loop does.                                                     *)
(***************************************************************************)

\* The loop lets a tracee go on, or detaches it, and knows it from then on.
LEMMA TrackResumed ==
    ASSUME ResultInv, NEW x, x \in Running \cup {"free"}, at[got.pid] \in Stops \ {"ev_fork"},
           at' = [at EXCEPT ![got.pid] = x], tracked' = tracked \cup {got.pid}, tpc' # "attach",
           UNCHANGED <<code, forked, untold>>
    PROVE  KilledAreDead' /\ TrackedRun' /\ AttachKnows' /\ ChildrenHeardOf'
<1>1. /\ KilledAreDead /\ TrackedRun /\ ChildrenHeardOf
      /\ at \in [Procs -> Places] /\ got.pid \in Procs /\ tracked \subseteq Procs
  BY DEF ResultInv, SoundInv, PhaseInv, Typed, TypeOK, TraceesTypeOK
<1>2. KilledAreDead' /\ TrackedRun' /\ AttachKnows'
  BY <1>1 DEF KilledAreDead, TrackedRun, AttachKnows, Stops
<1>3. Unannounced' = Unannounced
  BY DEF Unannounced
<1>4. \A q \in Procs : at[q] = "ev_fork" => at'[q] = "ev_fork"
  BY <1>1
<1> QED
  BY <1>1, <1>2, <1>3, <1>4 DEF ChildrenHeardOf, Announced

\* Nobody escapes the loop by a step of the loop.
LEMMA TrackTracerStep ==
    ASSUME ResultInv, TracerStep
    PROVE  /\ KilledAreDead' /\ TrackedRun' /\ AttachKnows' /\ ChildrenHeardOf' /\ FreedByFailure'
           /\ (tpc = "done" <=> outcome # "running")'
<1> DEFINE g == got.pid
<1>1. /\ KilledAreDead /\ TrackedRun /\ AttachKnows /\ ChildrenHeardOf /\ FreedByFailure /\ EndsAreFinal
      /\ (tpc = "done" <=> outcome # "running") /\ ForksHaveChildren /\ ChildrenAreNew
      /\ at \in [Procs -> Places] /\ g \in Procs /\ tracked \subseteq Procs
      /\ code \in [Procs -> Codes] /\ outcome \in {"running", "ok"} \cup Failures
  BY DEF ResultInv, SoundInv, PhaseInv, Typed, TypeOK, TraceesTypeOK
<1>2. /\ UNCHANGED <<code, forked>> /\ tpc # "done"
      /\ \/ outcome' = outcome /\ tpc' \in {"wait", "handle", "attach"}
         \/ outcome' # "running" /\ tpc' = "done"
  <2>1. /\ UNCHANGED <<code, forked>> /\ tpc # "done"
        /\ (UNCHANGED outcome /\ tpc' \in {"wait", "handle", "attach"}) \/ \E r : Finished(r) /\ r # "running"
    <3> USE DEF Finished, Loop, KeepTracees, traceeVars, Handling
    <3>1. CASE NoChild
      BY <3>1, FinalResultType DEF NoChild, Failures
    <3>2. CASE HandleExited
      <4>1. FinalResult(rootStatus') # "running"
        BY FinalResultType DEF Failures
      <4> QED
        BY <3>2, <4>1 DEF HandleExited
    <3>3. CASE HandleSignaled
      <4>1. (IF got.pid = Root THEN "unexpected" ELSE "ok") # "running"
        OBVIOUS
      <4> QED
        BY <3>3, <4>1 DEF HandleSignaled
    <3>4. CASE ResumeNewTracee
      BY <3>4 DEF ResumeNewTracee
    <3>5. CASE ~(NoChild \/ HandleExited \/ HandleSignaled \/ ResumeNewTracee)
      BY <3>5 DEF TracerStep, Wait, HandleLost, HandleStop, HandleSignal, HandleEntry,
                  HandleReturn, HandleUnreadable, HandleFork
    <3> QED
      BY <3>1, <3>2, <3>3, <3>4, <3>5
  <2> QED
    BY <2>1 DEF Finished
<1>3. (tpc = "done" <=> outcome # "running")'
  BY <1>1, <1>2
<1>4. \A p \in Procs : at[p] # "free"
  BY <1>1, <1>2 DEF FreedByFailure
<1>5. ASSUME NEW p \in Procs, Wait(p)
      PROVE  KilledAreDead' /\ TrackedRun' /\ AttachKnows' /\ ChildrenHeardOf' /\ FreedByFailure'
  <2>1. /\ UNCHANGED <<tracked, untold>> /\ tpc' = "handle"
        /\ \A q \in Procs : at'[q] = at[q] \/ (at[q] = "zombie" /\ at'[q] = "reaped")
    BY <1>1, <1>5 DEF Wait
  <2>2. Unannounced' = Unannounced
    BY <1>2, <2>1 DEF Unannounced
  <2> QED
    BY <1>1, <1>2, <1>4, <2>1, <2>2
       DEF KilledAreDead, TrackedRun, Unseen, AttachKnows, ChildrenHeardOf, Announced, FreedByFailure
<1>6. CASE NoChild \/ HandleLost
  <2>1. UNCHANGED <<at, tracked, untold>> /\ tpc' = "done"
    BY <1>6 DEF NoChild, HandleLost, Finished, traceeVars
  <2> QED
    BY <1>1, <1>2, <1>3, <1>4, <2>1
       DEF KilledAreDead, TrackedRun, AttachKnows, ChildrenHeardOf, Announced, Unannounced, FreedByFailure
<1>7. CASE HandleStop \/ HandleSignal \/ HandleEntry \/ HandleReturn
  <2>1. /\ at[g] \in Stops \ {"ev_fork"} /\ tracked' = tracked \cup {g} /\ tpc' = "wait"
        /\ UNCHANGED untold
    BY <1>7 DEF HandleStop, HandleSignal, HandleEntry, HandleReturn, Handling, Held, Loop, Stops
  <2>2. PICK x \in Running : at' = [at EXCEPT ![g] = x]
    BY <1>7, <2>1, ResumedRuns
       DEF HandleStop, HandleSignal, HandleEntry, HandleReturn, Resume, Running
  <2>3. FreedByFailure'
    BY <1>1, <1>4, <2>2 DEF FreedByFailure, Running
  <2> QED
    BY <1>2, <1>3, <2>1, <2>2, <2>3, TrackResumed
<1>8. CASE HandleUnreadable
  <2>1. /\ at[g] \in Stops \ {"ev_fork"} /\ tracked' = tracked \cup {g} /\ tpc' = "done"
        /\ UNCHANGED untold /\ at' = [at EXCEPT ![g] = "free"] /\ outcome' = "nix"
    BY <1>8 DEF HandleUnreadable, Handling, Held, Finished, Stops
  <2> QED
    BY <1>2, <1>3, <2>1, TrackResumed DEF FreedByFailure
<1>9. CASE HandleFork
  <2>1. /\ at[g] = "ev_fork" /\ tracked' = tracked \cup {g, forked[g]} /\ UNCHANGED <<at, got, untold>>
    BY <1>9 DEF HandleFork, Handling, Held, traceeVars
  <2> QED
    BY <1>1, <1>2, <1>3, <1>4, <2>1
       DEF KilledAreDead, TrackedRun, AttachKnows, ChildrenHeardOf, Announced, Unannounced, FreedByFailure
<1>10. CASE ResumeNewTracee
  <2> DEFINE child == forked[g]
             next == IF at[child] \in Stops THEN Resumed[at[child]] ELSE "reaped"
  <2>1. /\ child \in Procs /\ child # g /\ {child, g} \subseteq tracked /\ UNCHANGED tracked
        /\ at[child] \in Stops \cup {"zombie", "reaped"} /\ tpc' # "attach"
        /\ untold' = IF at[child] = "ev_fork" THEN untold \cup {forked[child]} ELSE untold
    BY <1>1, <1>10
       DEF ResumeNewTracee, ForksHaveChildren, ChildrenAreNew, AttachKnows, Reportable, Loop, Finished
  <2>2. /\ at'[child] = next /\ \A q \in Procs \ {child, g} : at'[q] = at[q]
        /\ at'[g] = IF at[g] = "ev_fork" THEN "return" ELSE at[g]
    BY <1>1, <1>10, <2>1 DEF ResumeNewTracee
  <2>3. next \in Running \cup {"reaped"} /\ (at[child] \in {"zombie", "reaped"} => next = "reaped")
    BY <2>1, ResumedRuns DEF Stops
  <2>4. KilledAreDead' /\ TrackedRun' /\ AttachKnows' /\ FreedByFailure'
    BY <1>1, <1>2, <1>4, <2>1, <2>2, <2>3
       DEF KilledAreDead, TrackedRun, AttachKnows, FreedByFailure, Stops, Running
  <2>5. /\ Unannounced \subseteq Unannounced'
        /\ at[child] = "ev_fork" => forked[child] \in Unannounced'
    BY <1>2, <2>1 DEF Unannounced
  <2>6. ChildrenHeardOf'
    <3> SUFFICES ASSUME NEW p \in Procs \ tracked, at'[p] \in {"born", "sigstop"}, p \notin Unannounced'
                 PROVE  Announced(p)'
      BY <2>1 DEF ChildrenHeardOf
    <3>1. at'[p] = at[p]
      BY <2>1, <2>2
    <3>2. PICK q \in Procs : at[q] = "ev_fork" /\ forked[q] = p
      BY <1>1, <2>5, <3>1 DEF ChildrenHeardOf, Announced
    <3>3. q # child /\ q # g
      BY <2>1, <2>5, <3>2
    <3> QED
      BY <1>2, <2>2, <3>2, <3>3 DEF Announced
  <2> QED
    BY <1>3, <2>4, <2>6
<1>11. CASE HandleExited \/ HandleSignaled
  <2>1. /\ at[g] = "reaped" /\ tracked' = tracked \ {g} /\ UNCHANGED <<at, untold>> /\ tpc' # "attach"
    BY <1>1, <1>11
       DEF HandleExited, HandleSignaled, Handling, EndsAreFinal, Forget, Finished, Loop, traceeVars
  <2> QED
    BY <1>1, <1>2, <1>3, <1>4, <2>1
       DEF KilledAreDead, TrackedRun, Unseen, AttachKnows, ChildrenHeardOf, Announced, Unannounced,
           FreedByFailure
<1> QED
  BY <1>3, <1>5, <1>6, <1>7, <1>8, <1>9, <1>10, <1>11 DEF TracerStep

\* A Root that dies before the command runs is the end of the trace.
LEMMA LaunchTracerStep ==
    ASSUME ResultInv, TracerStep
    PROVE  NotLaunched'
<1> SUFFICES ASSUME launch' # "running" PROVE NotLaunched'
  BY DEF NotLaunched
<1>1. UNCHANGED <<launch, call, code>>
  BY DEF TracerStep, Wait, NoChild, HandleLost, HandleStop, HandleSignal, HandleEntry,
         HandleReturn, HandleUnreadable, HandleFork, ResumeNewTracee, HandleExited,
         HandleSignaled, KeepTracees, traceeVars
<1>2. /\ NotLaunched /\ launch # "running" /\ got.pid = Root /\ Root \in Procs /\ tpc # "attach"
      /\ EndsAreFinal /\ at \in [Procs -> Places]
  BY <1>1, RootIsProc
     DEF ResultInv, SoundInv, PhaseInv, Typed, TypeOK, TraceesTypeOK, NotLaunched
<1> USE <1>1, <1>2 DEF NotLaunched
<1>3. ASSUME NEW p \in Procs, Wait(p) PROVE NotLaunched'
  <2>1. p = Root
    BY <1>3 DEF Wait, Reportable, Stops
  <2> QED
    BY <1>3, <2>1 DEF Wait
<1>4. CASE NoChild \/ HandleLost
  BY <1>4 DEF NoChild, HandleLost, Finished, traceeVars
<1>5. CASE HandleStop \/ HandleSignal \/ HandleEntry \/ HandleReturn
  <2>1. /\ tpc' = "wait" /\ UNCHANGED got /\ tracked' = tracked \cup {Root} /\ at[Root] = got.st
        /\ at[Root] \in {"sigstop", "ev_exit", "signal", "enter", "leave"}
    BY <1>5 DEF HandleStop, HandleSignal, HandleEntry, HandleReturn, Handling, Held, Loop
  <2>2. /\ \E x \in {"user", "kernel", "exiting", "dying"} : at' = [at EXCEPT ![Root] = x]
        /\ at'[Root] = "kernel" => at[Root] = "enter"
        /\ at'[Root] = "exiting" => at[Root] = "ev_exit"
    BY <1>5, <2>1 DEF HandleStop, HandleSignal, HandleEntry, HandleReturn, Resume, Resumed
  <2> QED
    BY <2>1, <2>2
<1>6. CASE HandleUnreadable
  BY <1>6 DEF HandleUnreadable, Handling, Held, Finished
<1>7. CASE HandleFork
  BY <1>7 DEF HandleFork, Handling, Held
<1>8. CASE ResumeNewTracee
  BY <1>8 DEF ResumeNewTracee
<1>9. CASE HandleExited \/ HandleSignaled
  <2>1. /\ UNCHANGED <<at, got>> /\ tracked' = tracked \ {Root}
        /\ IF IsDone(tracked') THEN tpc' = "done" ELSE tpc' = "wait"
    BY <1>9 DEF HandleExited, HandleSignaled, Forget, Finished, Loop, traceeVars
  <2>2. tracked' = {}
    BY <2>1
  <2> QED
    BY <2>1, <2>2 DEF IsDone
<1> QED
  BY <1>3, <1>4, <1>5, <1>6, <1>7, <1>8, <1>9 DEF TracerStep

\* Ok is what NoChild and the end of the last tracee known return, and then
\* whoever is alive has an unread fork event to thank.
LEMMA OkTracerStep ==
    ASSUME ResultInv, TracerStep
    PROVE  OkIsOver'
<1> DEFINE g == got.pid
<1> SUFFICES ASSUME outcome' = "ok" PROVE OkIsOver'
  BY DEF OkIsOver
<1>1. /\ TrackedRun /\ ChildrenHeardOf /\ NotLaunched /\ FreedByFailure /\ EndsAreFinal
      /\ (tpc = "done" <=> outcome # "running") /\ at \in [Procs -> Places] /\ g \in Procs
      /\ launch \in {"starting", "failed", "running"} /\ tracked \subseteq Procs /\ Root \in Procs
  BY RootIsProc DEF ResultInv, SoundInv, PhaseInv, Typed, TypeOK, TraceesTypeOK
<1>2. NoChild \/ HandleExited \/ HandleSignaled
  <2>1. tpc # "done"
    BY DEF TracerStep, Wait, NoChild, HandleLost, HandleStop, HandleSignal, HandleEntry,
           HandleReturn, HandleUnreadable, HandleFork, ResumeNewTracee, HandleExited,
           HandleSignaled, Handling
  <2>2. outcome # "ok"
    BY <1>1, <2>1
  <2> QED
    BY <2>2 DEF TracerStep, Wait, HandleLost, HandleStop, HandleSignal, HandleEntry,
           HandleReturn, HandleUnreadable, HandleFork, ResumeNewTracee, Finished, Loop
<1>3. UNCHANGED <<at, code, forked, launch, untold>>
  BY <1>2 DEF NoChild, HandleExited, HandleSignaled, traceeVars
<1>4. CASE NoChild
  <2>1. /\ tpc = "wait" /\ tpc' = "done" /\ outcome = "running"
        /\ \A p \in Procs : at[p] \in {"unborn", "reaped", "free"}
    BY <1>1, <1>4 DEF NoChild, Finished
  <2>2. launch = "running"
    BY <1>1, <2>1 DEF NotLaunched, FreedByFailure
  <2> QED
    BY <1>3, <2>1, <2>2 DEF OkIsOver, Alive, Stops, Running
<1>5. CASE HandleExited \/ HandleSignaled
  <2>1. /\ tpc' = "done" /\ tracked' = {} /\ tracked' = tracked \ {g} /\ at[g] = "reaped"
        /\ tpc = "handle" /\ outcome = "running"
    BY <1>1, <1>5
       DEF HandleExited, HandleSignaled, Handling, Forget, IsDone, Finished, Loop, EndsAreFinal
  <2>2. launch = "running"
    <3> SUFFICES ASSUME launch # "running" PROVE FALSE
      OBVIOUS
    <3>1. g = Root /\ code[Root] \in Killing \cup {"40", "41", "42"}
      BY <1>1, <2>1 DEF NotLaunched
    <3>2. CASE HandleExited
      <4>1. rootStatus' = code[Root] /\ code[Root] \in {"40", "41", "42"}
        BY <3>1, <3>2 DEF HandleExited, Forget, StatusOf
      <4>2. outcome' = FinalResult(rootStatus')
        BY <2>1, <3>2 DEF HandleExited, Finished, Loop, IsDone
      <4> QED
        BY <4>1, <4>2 DEF FinalResult
    <3>3. CASE HandleSignaled
      BY <2>1, <3>1, <3>3 DEF HandleSignaled, Finished, Loop, IsDone
    <3> QED
      BY <1>5, <3>2, <3>3
  <2>3. \A p \in Procs : p \in Procs \ tracked \/ p = g
    BY <2>1
  <2>4. \A p \in Procs : at[p] # "ev_fork"
    BY <1>1, <2>1, <2>3 DEF TrackedRun, Unseen
  <2>5. \A p \in Procs : Alive(p) => at[p] \in {"born", "sigstop"} /\ p \in Unannounced
    BY <1>1, <2>1, <2>3, <2>4
       DEF TrackedRun, Unseen, ChildrenHeardOf, Announced, Alive, Stops, Running
  <2> QED
    BY <1>3, <2>1, <2>2, <2>5 DEF OkIsOver, Alive, Unannounced
<1> QED
  BY <1>2, <1>4, <1>5

\* What is in flight is reported at the stop, but for the stops that
\* resume_new_tracee drops.
LEMMA CompleteTracerStep ==
    ASSUME ResultInv, TracerStep
    PROVE  ReportComplete'
<1> DEFINE g == got.pid
           Kept(q) == /\ touched[q] \subseteq report \cup InFlight(q)
                      /\ at[q] \in {"kernel", "leave"} /\ call[q].kind = "probe" => pending[q] = call[q]
<1>1. /\ ReportComplete /\ InStep /\ EndsAreFinal /\ ForksHaveChildren /\ ChildrenAreNew
      /\ at \in [Procs -> Places] /\ call \in [Procs -> Call] /\ g \in Procs
      /\ entering \in [Procs -> BOOLEAN] /\ pending \in [Procs -> Probes \cup {NoCall}]
      /\ dropped \in [Procs -> Stops \cup {"none", "zombie", "reaped"}]
  BY DEF ResultInv, SoundInv, PhaseInv, Typed, TypeOK, TraceesTypeOK
<1>2. UNCHANGED <<call, code, ok, touched>>
  BY DEF TracerStep, Wait, NoChild, HandleLost, HandleStop, HandleSignal, HandleEntry,
         HandleReturn, HandleUnreadable, HandleFork, ResumeNewTracee, HandleExited,
         HandleSignaled, KeepTracees, traceeVars
<1>3. \A p \in Procs \ Skewed : code[p] # "sigkill" /\ at[p] # "free" => Kept(p)
  BY <1>1 DEF ReportComplete
<1>4. SUFFICES ASSUME NEW p \in Procs \ Skewed', code[p] # "sigkill", at'[p] # "free" PROVE Kept(p)'
  BY <1>2 DEF ReportComplete
<1>5. ASSUME dropped' = dropped, report \subseteq report', pending'[p] = pending[p],
             \/ at'[p] = at[p]
             \/ at[p] \notin {"enter", "leave", "free"} /\ at'[p] \notin {"kernel", "enter", "leave"}
      PROVE  Kept(p)'
  <2>1. Kept(p)
    BY <1>3, <1>4, <1>5 DEF Skewed
  <2>2. InFlight(p) \subseteq InFlight(p)'
    BY <1>2, <1>5 DEF InFlight
  <2> QED
    BY <1>2, <1>5, <2>1, <2>2
<1>6. ASSUME NEW q \in Procs, Wait(q) PROVE Kept(p)'
  <2>1. UNCHANGED <<dropped, report, pending>>
    BY <1>6 DEF Wait
  <2>2. at'[p] = at[p] \/ (at[p] = "zombie" /\ at'[p] = "reaped")
    BY <1>1, <1>6 DEF Wait
  <2> QED
    BY <1>5, <2>1, <2>2
<1>7. CASE NoChild \/ HandleLost \/ HandleFork
  BY <1>5, <1>7 DEF NoChild, HandleLost, HandleFork, traceeVars
<1>8. CASE HandleStop \/ HandleSignal
  <2>1. UNCHANGED <<dropped, report, pending>>
    BY <1>8 DEF HandleStop, HandleSignal
  <2>2. /\ at[g] \in {"sigstop", "ev_exec", "ev_exit", "signal"}
        /\ \E x \in {"user", "return", "exiting", "dying"} : at' = [at EXCEPT ![g] = x]
    BY <1>8 DEF HandleStop, HandleSignal, Handling, Held, Resume, Resumed
  <2>3. \/ at'[p] = at[p]
        \/ at[p] \notin {"enter", "leave", "free"} /\ at'[p] \notin {"kernel", "enter", "leave"}
    BY <1>1, <2>2
  <2> QED
    BY <1>5, <2>1, <2>3
<1>9. CASE HandleUnreadable
  <2>1. UNCHANGED <<dropped, report, pending>> /\ at' = [at EXCEPT ![g] = "free"]
    BY <1>9 DEF HandleUnreadable
  <2> QED
    BY <1>1, <1>4, <1>5, <2>1
<1>10. CASE HandleEntry \/ HandleReturn
  <2>1. /\ dropped' = dropped /\ report \subseteq report' /\ at[g] = got.st /\ at[g] \in {"enter", "leave"}
        /\ \A q \in Procs \ {g} : at'[q] = at[q] /\ pending'[q] = pending[q]
    BY <1>1, <1>10 DEF HandleEntry, HandleReturn, Handling, Held, Resume
  <2>2. at'[g] = IF at[g] = "enter" THEN "kernel" ELSE "user"
    BY <1>1, <1>10, <2>1 DEF HandleEntry, HandleReturn, Resume, Resumed
  <2>3. CASE p # g
    BY <1>5, <2>1, <2>3
  <2>4. CASE p = g
    <3>1. g \notin Skewed /\ Kept(g)
      BY <1>3, <1>4, <2>1, <2>4 DEF Skewed
    <3>2. entering[g] <=> at[g] = "enter"
      BY <1>1, <2>1, <3>1 DEF InStep, Outside, InCall
    <3>3. InFlight(g)' = {}
      <4>1. got' = got
        BY <1>10 DEF HandleEntry, HandleReturn
      <4> QED
        BY <2>1, <2>2, <4>1 DEF InFlight
    <3>4. CASE at[g] = "enter"
      <4>1. HandleEntry
        BY <1>10, <3>2, <3>4 DEF HandleReturn
      <4>2. call[g].kind = "probe" => pending'[g] = call[g]
        BY <1>1, <4>1 DEF HandleEntry
      <4>3. InFlight(g) \subseteq report'
        <5>1. CASE call[g].kind = "exec"
          <6>1. call[g].path \in Paths /\ PathArg(g) = call[g].path
            BY <1>1, <2>1, <3>4, <5>1 DEF Call, Probes, Execs, Others, PathArg
          <6>2. report' = report \cup {<<call[g].path, "exec">>}
            BY <4>1, <5>1, <6>1, CommandIsPath DEF HandleEntry
          <6> QED
            BY <3>4, <5>1, <6>2 DEF InFlight
        <5>2. CASE call[g].kind # "exec"
          BY <3>4, <5>2 DEF InFlight
        <5> QED
          BY <5>1, <5>2
      <4> QED
        BY <1>2, <2>1, <2>2, <2>4, <3>1, <3>3, <3>4, <4>2, <4>3
    <3>5. CASE at[g] = "leave"
      <4>1. HandleReturn
        BY <1>10, <3>2, <3>5 DEF HandleEntry
      <4>2. InFlight(g) \subseteq report'
        <5>1. CASE ok[g] /\ call[g].kind = "probe"
          <6>1. pending[g] = call[g] /\ pending[g] # NoCall
            BY <3>1, <3>5, <5>1 DEF NoCall, ExitCall
          <6>2. report' = report \cup {<<call[g].path, "open">>}
            BY <2>1, <3>5, <4>1, <5>1, <6>1 DEF HandleReturn, Succeeded
          <6> QED
            BY <3>5, <5>1, <6>2 DEF InFlight
        <5>2. CASE ~(ok[g] /\ call[g].kind = "probe")
          BY <3>5, <5>2 DEF InFlight
        <5> QED
          BY <5>1, <5>2
      <4> QED
        BY <1>2, <2>1, <2>2, <2>4, <3>1, <3>3, <3>5, <4>2
    <3> QED
      BY <2>1, <3>4, <3>5
  <2> QED
    BY <2>3, <2>4
<1>11. CASE ResumeNewTracee
  <2> DEFINE child == forked[g]
  <2>1. /\ child \in Procs /\ child # g /\ dropped[child] = "none"
        /\ UNCHANGED <<report, pending>> /\ dropped' = [dropped EXCEPT ![child] = at[child]]
        /\ at[child] \in Stops \cup {"zombie", "reaped"}
    BY <1>1, <1>11 DEF ResumeNewTracee, ForksHaveChildren, ChildrenAreNew, Reportable
  <2>2. /\ \A q \in Procs \ {child, g} : at'[q] = at[q]
        /\ at'[g] = at[g] \/ (at[g] = "ev_fork" /\ at'[g] = "return")
        /\ at'[child] = IF at[child] \in Stops THEN Resumed[at[child]] ELSE "reaped"
    BY <1>1, <1>11, <2>1 DEF ResumeNewTracee
  <2>3. p \notin Skewed /\ (p = child => at[child] \notin {"enter", "leave"})
    BY <1>1, <1>4, <2>1 DEF Skewed
  <2>4. \/ at'[p] = at[p]
        \/ at[p] \notin {"enter", "leave", "free"} /\ at'[p] \notin {"kernel", "enter", "leave"}
    BY <2>1, <2>2, <2>3 DEF Stops, Resumed
  <2>5. Kept(p)
    BY <1>3, <1>4, <2>3, <2>4
  <2>6. InFlight(p) \subseteq InFlight(p)'
    BY <1>2, <2>4 DEF InFlight
  <2> QED
    BY <1>2, <2>1, <2>4, <2>5, <2>6
<1>12. CASE HandleExited \/ HandleSignaled
  <2>1. /\ UNCHANGED <<at, report, dropped>> /\ at[g] = "reaped"
        /\ \A q \in Procs \ {g} : pending'[q] = pending[q]
    BY <1>1, <1>12 DEF HandleExited, HandleSignaled, Handling, EndsAreFinal, Forget, traceeVars
  <2>2. CASE p # g
    BY <1>5, <2>1, <2>2
  <2>3. CASE p = g
    <3>1. Kept(g) /\ InFlight(g) = {}
      BY <1>3, <1>4, <2>1, <2>3 DEF Skewed, InFlight
    <3> QED
      BY <1>2, <2>1, <2>3, <3>1
  <2> QED
    BY <2>2, <2>3
<1> QED
  BY <1>6, <1>7, <1>8, <1>9, <1>10, <1>11, <1>12 DEF TracerStep

-----------------------------------------------------------------------------
\* The invariant holds of every execution.
LEMMA ResultInvariant == Spec => []ResultInv
<1>1. Init => ResultInv
  BY ResultInit
<1>2. ResultInv /\ [Next]_vars => ResultInv'
  <2> SUFFICES ASSUME ResultInv, [Next]_vars PROVE ResultInv'
    OBVIOUS
  <2>1. SoundInv'
    BY SoundNext DEF ResultInv
  <2>2. CASE TracerStep
    BY <2>1, <2>2, TrackTracerStep, LaunchTracerStep, CompleteTracerStep, OkTracerStep DEF ResultInv
  <2>3. CASE TraceesNext /\ UNCHANGED tracerVars
    <3>1. CASE SetupDone \/ SetupFails
      BY <2>1, <2>3, <3>1, ResultSetup
    <3>2. ASSUME NEW p \in Procs, TraceeStep(p) \/ Signal(p) \/ Kill(p) PROVE ResultInv'
      <4>1. (tpc = "done" <=> outcome # "running")'
        BY <2>3 DEF ResultInv, tracerVars
      <4> QED
        BY <2>1, <2>3, <3>2, <4>1, TrackTraceeStep, LaunchTraceeStep, CompleteTraceeStep, OkTraceeStep
           DEF ResultInv
    <3> QED
      BY <2>3, <3>1, <3>2 DEF TraceesNext
  <2>4. CASE UNCHANGED vars
    <3>1. UNCHANGED <<at, code, call, ok, forked, launch, touched, tpc, got, tracked, pending, report,
                      outcome, dropped, untold>>
      BY <2>4 DEF vars, traceeVars, tracerVars
    <3>2. KilledAreDead' /\ TrackedRun' /\ AttachKnows' /\ ChildrenHeardOf' /\ FreedByFailure'
      BY <3>1 DEF ResultInv, KilledAreDead, TrackedRun, AttachKnows, ChildrenHeardOf, Announced,
                  Unannounced, FreedByFailure
    <3>3. NotLaunched'
      BY <3>1 DEF ResultInv, NotLaunched
    <3>4. ReportComplete'
      BY <3>1 DEF ResultInv, ReportComplete, InFlight, Skewed
    <3>5. OkIsOver' /\ (tpc = "done" <=> outcome # "running")'
      BY <3>1 DEF ResultInv, OkIsOver, Alive, Unannounced
    <3> QED
      BY <2>1, <3>2, <3>3, <3>4, <3>5 DEF ResultInv
  <2> QED
    BY <2>2, <2>3, <2>4 DEF Next
<1> QED
  BY <1>1, <1>2, PTL DEF Spec

\* parent_trace returns Ok only when the command ran: a failed chroot,
\* PTRACE_TRACEME or execve, and a Root that dies before, are errors.
THEOREM LaunchSafety == Spec => []NoReportWithoutLaunch
<1>1. ResultInv => NoReportWithoutLaunch
  BY DEF ResultInv, OkIsOver, NoReportWithoutLaunch
<1> QED
  BY <1>1, ResultInvariant, PTL

\* parent_trace that returns Ok leaves nobody alive but children it was never
\* told of.
THEOREM NobodyIsLeft == Spec => []NobodyLeftBehind
<1>1. ResultInv => NobodyLeftBehind
  BY DEF ResultInv, OkIsOver, NobodyLeftBehind
<1> QED
  BY <1>1, ResultInvariant, PTL

\* The report of a parent_trace that returns Ok misses nothing but what was
\* touched by processes that were SIGKILLed or lost a syscall stop in
\* resume_new_tracee.
THEOREM ReportIsComplete == Spec => []CompleteUnlessSkewed
<1>1. ResultInv => CompleteUnlessSkewed
  <2> SUFFICES ASSUME ResultInv, outcome = "ok", NEW p \in Procs \ Skewed, code[p] # "sigkill"
               PROVE  touched[p] \subseteq report
    BY DEF CompleteUnlessSkewed
  <2>1. at[p] # "free"
    BY DEF ResultInv, FreedByFailure
  <2>2. InFlight(p) = {}
    BY DEF ResultInv, OkIsOver, Alive, Stops, InFlight
  <2> QED
    BY <2>1, <2>2 DEF ResultInv, ReportComplete
<1> QED
  BY <1>1, ResultInvariant, PTL
=============================================================================
