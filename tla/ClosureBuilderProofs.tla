------------------------- MODULE ClosureBuilderProofs -------------------------
(***************************************************************************)
(* For any root, any scripts and any commands in them: the linker that a   *)
(* plan names and the libraries it looks for are in the bundle, under the  *)
(* names and below the directories that it looks into; so are the          *)
(* libraries of every program and the commands of every script; and        *)
(* scripts that call each other are followed to a bounded depth.           *)
(***************************************************************************)
EXTENDS ClosureBuilder, FiniteSetTheorems, WellFoundedInduction, TLAPS

\* All activations scan a script.
AllScan(s) == \A i \in 1..Len(s) : s[i].phase = "scan"

\* Activations as they stand on each other: those that scan do so for scripts
\* of their own, which are in done, and only the innermost may not scan.
Nested(s, done) ==
    /\ \E S : s \in Seq(S)
    /\ \A i \in 1..Len(s) : /\ {"script", "phase"} \subseteq DOMAIN s[i]
                            /\ s[i].script \in ScriptPaths \cup {NoPath}
    /\ \A i \in 2..Len(s) : s[i].phase = "scan"
    /\ \A i \in 1..Len(s) : s[i].phase = "scan" => s[i].script \in done
    /\ \A i, j \in 1..Len(s) :
          i # j /\ s[i].phase = "scan" /\ s[j].phase = "scan" => s[i].script # s[j].script

NestedInv == scanned \subseteq ScriptPaths /\ Nested(stack, scanned)

LEMMA NestedTail ==
    ASSUME NEW s, NEW done, Nested(s, done), s # <<>>
    PROVE  Nested(Tail(s), done) /\ AllScan(Tail(s))
<1>1. PICK S : s \in Seq(S)
    BY DEF Nested
<1>2. /\ Tail(s) \in Seq(S) /\ Len(s) \in Nat \ {0} /\ Len(Tail(s)) = Len(s) - 1
      /\ \A i \in 1..Len(Tail(s)) : Tail(s)[i] = s[i + 1] /\ i + 1 \in 2..Len(s)
    BY <1>1
<1> QED
    BY <1>2 DEF Nested, AllScan

LEMMA NestedPush ==
    ASSUME NEW below, NEW done, Nested(below, done), AllScan(below),
           NEW frame, {"script", "phase"} \subseteq DOMAIN frame,
           frame.script \in ScriptPaths \cup {NoPath}, frame.phase # "scan"
    PROVE  Nested(<<frame>> \o below, done)
<1> DEFINE s == <<frame>> \o below
<1>1. PICK S : below \in Seq(S)
    BY DEF Nested
<1>2. /\ s \in Seq(S \cup {frame}) /\ Len(s) \in Nat /\ Len(s) = Len(below) + 1
      /\ s[1] = frame
      /\ \A i \in 2..Len(s) : s[i] = below[i - 1] /\ i - 1 \in 1..Len(below)
    BY <1>1
<1> HIDE DEF s
<1>3. \A i \in 1..Len(s) : i = 1 \/ i \in 2..Len(s)
    BY <1>2
<1>4. \A i \in 2..Len(s) : /\ {"script", "phase"} \subseteq DOMAIN s[i]
                           /\ s[i].script \in ScriptPaths \cup {NoPath}
                           /\ s[i].phase = "scan" /\ s[i].script \in done
    BY <1>2 DEF Nested, AllScan
<1>5. \A i, j \in 2..Len(s) : i # j => s[i].script # s[j].script
  <2> TAKE i, j \in 2..Len(s)
  <2> HAVE i # j
  <2>1. /\ i - 1 # j - 1 /\ i - 1 \in 1..Len(below) /\ j - 1 \in 1..Len(below)
        /\ s[i] = below[i - 1] /\ s[j] = below[j - 1]
    BY <1>2
  <2>2. below[i - 1].phase = "scan" /\ below[j - 1].phase = "scan"
    BY <2>1 DEF AllScan
  <2> QED
    BY <2>1, <2>2 DEF Nested
<1>6. Nested(s, done)
    BY <1>2, <1>3, <1>4, <1>5 DEF Nested
<1> QED
    BY <1>6 DEF s

\* The innermost activation changes, and keeps its script and its phase.
LEMMA NestedTop ==
    ASSUME NEW s, NEW done, Nested(s, done), s # <<>>,
           NEW frame, {"script", "phase"} \subseteq DOMAIN frame,
           frame.script = s[1].script, frame.phase = s[1].phase
    PROVE  Nested([s EXCEPT ![1] = frame], done)
<1> DEFINE t == [s EXCEPT ![1] = frame]
<1>1. PICK S : s \in Seq(S)
    BY DEF Nested
<1>2. /\ t \in Seq(S \cup {frame}) /\ Len(t) = Len(s) /\ Len(s) \in Nat \ {0}
      /\ t[1] = frame
      /\ \A i \in 2..Len(s) : t[i] = s[i]
    BY <1>1
<1> HIDE DEF t
<1>3. \A i \in 1..Len(s) : i = 1 \/ i \in 2..Len(s)
    BY <1>2
<1>4. 1 \in 1..Len(s)
    BY <1>2
<1>5. \A i \in 1..Len(s) : /\ t[i].script = s[i].script /\ t[i].phase = s[i].phase
                           /\ {"script", "phase"} \subseteq DOMAIN t[i]
    BY <1>2, <1>3 DEF Nested
<1>6. Nested(t, done)
    BY <1>2, <1>5 DEF Nested
<1> QED
    BY <1>6 DEF t

\* The innermost activation goes on to scan a script not scanned before.
LEMMA NestedScan ==
    ASSUME NEW s, NEW done, Nested(s, done), s # <<>>, s[1].phase # "scan",
           NEW frame, {"script", "phase"} \subseteq DOMAIN frame,
           frame.script \in ScriptPaths, frame.script \notin done
    PROVE  Nested([s EXCEPT ![1] = frame], done \cup {frame.script})
<1> DEFINE t == [s EXCEPT ![1] = frame]
<1>1. PICK S : s \in Seq(S)
    BY DEF Nested
<1>2. /\ t \in Seq(S \cup {frame}) /\ Len(t) = Len(s) /\ Len(s) \in Nat \ {0}
      /\ t[1] = frame
      /\ \A i \in 2..Len(s) : t[i] = s[i]
    BY <1>1
<1> HIDE DEF t
<1>3. \A i \in 1..Len(s) : i = 1 \/ i \in 2..Len(s)
    BY <1>2
<1>4. \A i \in 2..Len(s) : i \in 1..Len(s) /\ t[i].script \in done
    BY <1>2 DEF Nested
<1>5. \A i, j \in 1..Len(t) :
         i # j /\ t[i].phase = "scan" /\ t[j].phase = "scan" => t[i].script # t[j].script
    BY <1>2, <1>3, <1>4 DEF Nested
<1>6. Nested(t, done \cup {frame.script})
    BY <1>2, <1>3, <1>4, <1>5 DEF Nested
<1> QED
    BY <1>6 DEF t

-----------------------------------------------------------------------------

\* Entering a path puts an activation that links on top, or breaks off.
LEMMA BreakNests ==
    ASSUME NEW below, Nested(below, scanned), Nested(<<>>, scanned), Break(below)
    PROVE  Nested(stack', scanned)
BY DEF Break

LEMMA EnterNests ==
    ASSUME NEW p, NEW below, Nested(below, scanned), AllScan(below), Nested(<<>>, scanned),
           Enter(p, below)
    PROVE  Nested(stack', scanned)
<1> DEFINE subject == IF p \in ScriptPaths THEN sys.shebang[p] ELSE p
           script  == IF p \in ScriptPaths THEN p ELSE NoPath
           frame   == NewFrame(subject, script, Ensure(files, {subject}))
<1>1. stack' = <<frame>> \o below \/ Break(below)
    BY DEF Enter
<1>2. /\ {"script", "phase"} \subseteq DOMAIN frame
      /\ frame.script \in ScriptPaths \cup {NoPath}
      /\ frame.phase # "scan"
    BY DEF NewFrame
<1> HIDE DEF frame
<1> QED
    BY <1>1, <1>2, NestedPush, BreakNests

LEMMA NestedInit == Init => NestedInv
<1> SUFFICES ASSUME Init PROVE NestedInv
    OBVIOUS
<1>1. stack = <<>> /\ scanned = {}
    BY DEF Init
<1>2. <<>> \in Seq({}) /\ Len(<<>>) = 0
    OBVIOUS
<1> QED
    BY <1>1, <1>2 DEF NestedInv, Nested

LEMMA NestedStep == NestedInv /\ [Next]_vars => NestedInv'
<1> SUFFICES ASSUME NestedInv, [Next]_vars PROVE NestedInv'
    OBVIOUS
<1> USE DEF NestedInv
<1>0. /\ Nested(<<>>, scanned) /\ AllScan(<<>>)
      /\ stack # <<>> => /\ Nested(Tail(stack), scanned) /\ AllScan(Tail(stack))
                         /\ {"script", "phase"} \subseteq DOMAIN stack[1] /\ Top = stack[1]
                         /\ stack[1].script \in ScriptPaths \cup {NoPath}
  <2>1. <<>> \in Seq({}) /\ Len(<<>>) = 0
    OBVIOUS
  <2>2. Nested(<<>>, scanned) /\ AllScan(<<>>)
    BY <2>1 DEF Nested, AllScan
  <2>3. ASSUME stack # <<>>
        PROVE  /\ {"script", "phase"} \subseteq DOMAIN stack[1] /\ Top = stack[1]
               /\ stack[1].script \in ScriptPaths \cup {NoPath}
    <3>1. PICK S : stack \in Seq(S)
        BY DEF Nested
    <3>2. 1 \in 1..Len(stack)
        BY <2>3, <3>1
    <3> QED
        BY <2>3, <3>1, <3>2 DEF Nested, Top
  <2> QED
    BY <2>2, <2>3, NestedTail
<1>1. CASE Begin
  <2>1. scanned' = scanned
    BY <1>1 DEF Begin
  <2>2. CASE Enter(Head(todo), <<>>)
    BY <1>0, <2>1, <2>2, EnterNests
  <2>3. CASE Break(<<>>)
    BY <1>0, <2>1, <2>3, BreakNests
  <2> QED
    BY <1>1, <2>2, <2>3 DEF Begin
<1>2. CASE Visit
  <2>1. stack # <<>> /\ scanned' = scanned
    BY <1>2 DEF Visit, Linking
  <2>2. CASE Break(Tail(stack))
    BY <1>0, <2>1, <2>2, BreakNests
  <2>3. ASSUME NEW f, NEW q, NEW v, NEW d,
               stack' = [stack EXCEPT ![1] = [stack[1] EXCEPT !.queue = q, !.visited = v, !.dirs = d]]
        PROVE  NestedInv'
    <3> DEFINE frame == [stack[1] EXCEPT !.queue = q, !.visited = v, !.dirs = d]
    <3>1. /\ {"script", "phase"} \subseteq DOMAIN frame
          /\ frame.script = stack[1].script /\ frame.phase = stack[1].phase
        BY <1>0, <2>1
    <3> HIDE DEF frame
    <3>2. Nested([stack EXCEPT ![1] = frame], scanned)
        BY <2>1, <3>1, NestedTop
    <3> QED
        BY <2>1, <2>3, <3>2 DEF frame
  <2>4. PICK f, list :
          \/ Break(Tail(stack))
          \/ stack' = [stack EXCEPT ![1] =
               [Top EXCEPT !.queue = (Top.queue \ {f}) \cup FilesOf(list),
                           !.visited = Top.visited \cup {f},
                           !.dirs = Top.dirs \cup DirsOf(Ensure(files, FilesOf(list)), FilesOf(list))]]
    BY <1>2, Zenon DEF Visit
  <2>5. Top = stack[1]
    BY <1>0, <2>1
  <2>6. CASE ~Break(Tail(stack))
    <3>1. PICK q, v, d :
            stack' = [stack EXCEPT ![1] = [Top EXCEPT !.queue = q, !.visited = v, !.dirs = d]]
      BY <2>4, <2>6, Zenon
    <3> QED
      BY <2>3, <2>5, <3>1
  <2> QED
    BY <2>2, <2>6
<1>3. CASE EndBinary
  <2>1. stack # <<>> /\ stack[1].phase = "link"
    BY <1>0, <1>3 DEF EndBinary, Linking
  <2>2. CASE stack' = Tail(stack) /\ scanned' = scanned
    BY <1>0, <2>1, <2>2
  <2>3. ASSUME NewToScan(stack[1].script), scanned' = scanned \cup {stack[1].script},
               NEW l, NEW c,
               stack' = [stack EXCEPT ![1] =
                   [[stack[1] EXCEPT !.linker = l] EXCEPT !.phase = "scan", !.cmds = c]]
        PROVE  NestedInv'
    <3> DEFINE frame == [[stack[1] EXCEPT !.linker = l] EXCEPT !.phase = "scan", !.cmds = c]
    <3>1. /\ {"script", "phase"} \subseteq DOMAIN frame
          /\ frame.script = stack[1].script
        BY <1>0, <2>1
    <3>2. frame.script \in ScriptPaths /\ frame.script \notin scanned
        BY <1>0, <2>1, <2>3, <3>1 DEF NewToScan
    <3>3. stack' = [stack EXCEPT ![1] = frame] /\ scanned' = scanned \cup {frame.script}
        BY <2>3, <3>1
    <3> HIDE DEF frame
    <3>4. Nested([stack EXCEPT ![1] = frame], scanned \cup {frame.script})
        BY <2>1, <3>1, <3>2, NestedScan
    <3> QED
        BY <3>2, <3>3, <3>4
  <2> DEFINE l == IF Substituted THEN HostLd ELSE IF sys.stub THEN NoPath ELSE Top.linker
             done == [Top EXCEPT !.linker = l]
  <2>4. CASE NewToScan(Top.script)
    <3>1. /\ stack' = [stack EXCEPT ![1] = [done EXCEPT !.phase = "scan",
                                                       !.cmds = sys.calls[Top.script]]]
          /\ scanned' = scanned \cup {Top.script}
        BY <1>3, <2>4 DEF EndBinary
    <3> HIDE DEF l
    <3> QED
        BY <1>0, <2>1, <2>3, <2>4, <3>1
  <2>5. CASE ~NewToScan(Top.script)
    BY <1>3, <2>2, <2>5 DEF EndBinary, Leave
  <2> QED
    BY <2>4, <2>5
<1>4. CASE ScanCommand
  <2>1. stack # <<>> /\ stack[1].phase = "scan" /\ scanned' = scanned
    BY <1>0, <1>4 DEF ScanCommand, Scanning
  <2> DEFINE rest(c) == [stack EXCEPT ![1].cmds = @ \ {c}]
  <2>2. ASSUME NEW c
        PROVE  Nested(rest(c), scanned) /\ AllScan(rest(c))
    <3> DEFINE frame == [stack[1] EXCEPT !.cmds = @ \ {c}]
    <3>1. /\ {"script", "phase"} \subseteq DOMAIN frame
          /\ frame.script = stack[1].script /\ frame.phase = stack[1].phase
        BY <1>0, <2>1
    <3>2. rest(c) = [stack EXCEPT ![1] = frame]
        OBVIOUS
    <3> HIDE DEF frame, rest
    <3>3. Nested(rest(c), scanned)
      <4>1. Nested([stack EXCEPT ![1] = frame], scanned)
        BY <2>1, <3>1, NestedTop
      <4> QED
        BY <3>2, <4>1
    <3>4. PICK S : stack \in Seq(S)
        BY DEF Nested
    <3>5. \A i \in 1..Len(rest(c)) : i = 1 \/ i \in 2..Len(rest(c))
        BY <3>2, <3>4
    <3>6. 1 \in 1..Len(stack) => rest(c)[1] = frame
        BY <3>2, <3>4
    <3>7. Len(rest(c)) = Len(stack)
        BY <3>2, <3>4
    <3> QED
        BY <2>1, <3>1, <3>3, <3>5, <3>6, <3>7 DEF Nested, AllScan
  <2>3. \E c : Enter(c, rest(c)) \/ Break(rest(c))
    BY <1>4 DEF ScanCommand
  <2> HIDE DEF rest
  <2> QED
    BY <1>0, <2>1, <2>2, <2>3, EnterNests, BreakNests
<1>5. CASE EndScan
    BY <1>0, <1>5 DEF EndScan, Scanning, Leave
<1>6. CASE EndEntries
    BY <1>6 DEF EndEntries
<1>7. CASE Finish
    BY <1>7 DEF Finish
<1>8. CASE UNCHANGED vars
    BY <1>8 DEF vars
<1> QED
    BY <1>1, <1>2, <1>3, <1>4, <1>5, <1>6, <1>7, <1>8 DEF Next

\* All activations but the innermost have a script each.
LEMMA NestedBound == NestedInv => NestingBounded
<1> SUFFICES ASSUME NestedInv PROVE NestingBounded
    OBVIOUS
<1>1. PICK S : stack \in Seq(S)
    BY DEF NestedInv, Nested
<1>2. Len(stack) \in Nat
    BY <1>1
<1> DEFINE f == [i \in 2..Len(stack) |-> stack[i].script]
<1>3. \A i \in 2..Len(stack) : i \in 1..Len(stack) /\ stack[i].script \in ScriptPaths
    BY <1>2 DEF NestedInv, Nested
<1>4. \A i, j \in 2..Len(stack) : i # j => stack[i].script # stack[j].script
    BY <1>3 DEF NestedInv, Nested
<1>5. f \in Injection(2..Len(stack), ScriptPaths)
    BY <1>3, <1>4 DEF Injection, IsInjective
<1>6. IsFiniteSet(ScriptPaths) /\ Cardinality(ScriptPaths) \in Nat
    BY PathsAreKnown, FS_Singleton, FS_Product, FS_CardinalityType DEF ScriptPaths
<1>7. Cardinality(2..Len(stack)) <= Cardinality(ScriptPaths)
    BY <1>5, <1>6, FS_Injection
<1>8. Cardinality(2..Len(stack)) = IF 2 > Len(stack) THEN 0 ELSE Len(stack) - 2 + 1
    BY <1>2, FS_Interval
<1> QED
    BY <1>2, <1>6, <1>7, <1>8 DEF NestingBounded

\* However scripts call each other, in loops or not, and whatever fails, the
\* planning of one path never nests deeper than there are scripts
\* (build_entry_plan, collect_bash_dependencies, scanned_scripts).
THEOREM ClosureNestingBounded == Spec => []NestingBounded
<1>1. Init => NestedInv
    BY NestedInit
<1>2. NestedInv /\ [Next]_vars => NestedInv'
    BY NestedStep
<1>3. NestedInv => NestingBounded
    BY NestedBound
<1> QED
    BY <1>1, <1>2, <1>3, PTL DEF Spec

-----------------------------------------------------------------------------
(* What the dynamic linker lists.                                          *)

\* Without induction: of the numbers for which something fails one is least.
LEMMA Least == \A T \in SUBSET Nat : T # {} => \E n \in T : \A m \in T : n <= m
<1>1. PICK R : R = OpToRel(<, Nat)
  OBVIOUS
<1>2. IsWellFoundedOn(R, Nat)
  BY <1>1, NatLessThanWellFounded
<1>3. \A a, b \in Nat : a < b => <<a, b>> \in R
  BY <1>1 DEF OpToRel
<1> SUFFICES ASSUME NEW T \in SUBSET Nat, T # {} PROVE \E n \in T : \A m \in T : n <= m
  OBVIOUS
<1>4. PICK x \in T : \A y \in T : ~ (<<y, x>> \in R)
  BY <1>2, WFMin
<1>5. ASSUME NEW y \in T PROVE x <= y
  <2>1. ~(y < x)
    BY <1>3, <1>4
  <2> QED
    BY <2>1
<1> QED
  BY <1>5

LEMMA MinIsLeast ==
  ASSUME NEW T \in SUBSET Nat, T # {}
  PROVE  Min(T) \in T /\ \A m \in T : Min(T) <= m
BY Least DEF Min

\* Where a name can have been found.
Hits(n) == {NoPath} \cup {p \in LibPaths : p[2] = n /\ sys.at[p] \in LibPaths}
LookedUp(L) == DOMAIN L \subseteq Libs /\ \A n \in DOMAIN L : L[n] \in Hits(n)

\* The parts of a root.
LEMMA RootIs ==
  ASSUME sys \in System
  PROVE  /\ \A p \in LibPaths : /\ sys.at[p] \in LibPaths \cup {NoPath}
                                /\ sys.at[p] # NoPath => sys.at[sys.at[p]] = sys.at[p]
         /\ \A f \in Elves : sys.needs[f] \in SUBSET Libs /\ sys.runpath[f] \in Seq(Range(Dirs))
         /\ sys.static \in SUBSET ProgPaths
         /\ \A s \in ScriptPaths : /\ sys.shebang[s] \in ProgPaths \cup {NoPath}
                                   /\ sys.calls[s] \in SUBSET (ProgPaths \cup ScriptPaths)
         /\ {sys.stub, sys.hostLd, sys.before} \subseteq BOOLEAN
         /\ sys.entries \in Seq(ProgPaths \cup ScriptPaths)
         /\ sys.traced \in Seq(Elves \cup {Ld})
         /\ \A t \in Range(sys.traced) \cap LibPaths : sys.at[t] = t
BY DEF System, Roots

\* Libraries, programs, scripts and linkers are different paths.
LEMMA PathsApart ==
  /\ Elves = LibPaths \cup ProgPaths /\ LibPaths \cap (ProgPaths \cup ScriptPaths) = {}
  /\ ProgPaths \cap ScriptPaths = {}
  /\ Ld \notin Elves \cup ScriptPaths /\ HostLd \notin Elves \cup ScriptPaths /\ HostLd # Ld
  /\ NoPath \notin Elves \cup ScriptPaths \cup {Ld, HostLd}
  /\ \A p \in LibPaths : p = <<p[1], p[2]>> /\ p[1] \in Range(Dirs) /\ p[2] \in Libs
  /\ \A d \in Range(Dirs), n \in Libs : <<d, n>> \in LibPaths
  /\ \A p \in ProgPaths \cup ScriptPaths : p = <<Bin, p[2]>>
  /\ Bin \in Range(Dirs) /\ Ld[1] \in Range(Dirs)
  /\ Clean(Ld) /\ Clean(HostLd)
BY PathsAreKnown DEF Elves, LibPaths, ProgPaths, ScriptPaths, Clean

\* The search for a name ends at a path of that name that leads to a file.
LEMMA FirstIsHit ==
  ASSUME sys \in System, NEW n \in Libs, NEW dirs \in Seq(Range(Dirs))
  PROVE  First(n, dirs) \in Hits(n)
<1>1. PICK there : there = {i \in DOMAIN dirs : sys.at[<<dirs[i], n>>] # NoPath}
  OBVIOUS
<1>2. First(n, dirs) = IF there = {} THEN NoPath ELSE <<dirs[Min(there)], n>>
  BY <1>1 DEF First
<1>3. CASE there # {}
  <2>1. there \in SUBSET Nat
    BY <1>1
  <2>2. Min(there) \in there
    BY <1>3, <2>1, MinIsLeast
  <2>3. PICK i : i = Min(there)
    OBVIOUS
  <2>4. i \in DOMAIN dirs /\ sys.at[<<dirs[i], n>>] # NoPath
    BY <1>1, <2>2, <2>3
  <2>5. dirs[i] \in Range(Dirs)
    BY <2>4
  <2>6. <<dirs[i], n>> \in LibPaths
    BY <2>5, PathsApart
  <2>7. sys.at[<<dirs[i], n>>] \in LibPaths
    BY <2>4, <2>6, RootIs
  <2> QED
    BY <1>2, <1>3, <2>3, <2>6, <2>7 DEF Hits
<1> QED
  BY <1>2, <1>3 DEF Hits

LEMMA MoreLookedUp ==
  ASSUME sys \in System, NEW subject \in Elves, NEW path \in Seq(Range(Dirs)), NEW L, LookedUp(L)
  PROVE  LookedUp(More(subject, path, L))
<1>1. \A n \in Libs : Needing(subject, L, n) \subseteq Elves
  <2>1. \A q \in Range(L) \ {NoPath} : sys.at[q] \in LibPaths
    BY DEF Range, LookedUp, Hits
  <2> QED
    BY <2>1 DEF Needing, Elves
<1>2. \A n \in Libs : Found(subject, path, L, n) \in Hits(n)
  <2> TAKE n \in Libs
  <2>1. PICK own : own = {First(n, sys.runpath[p]) : p \in Needing(subject, L, n)} \ {NoPath}
    OBVIOUS
  <2>2. own \subseteq Hits(n)
    <3>1. \A p \in Needing(subject, L, n) : sys.runpath[p] \in Seq(Range(Dirs))
      BY <1>1, RootIs
    <3> QED
      BY <2>1, <3>1, FirstIsHit
  <2>3. NoPath \in Hits(n) /\ First(n, path) \in Hits(n)
    BY FirstIsHit DEF Hits
  <2>4. Found(subject, path, L, n) =
          IF First(n, path) # NoPath THEN First(n, path)
          ELSE IF own = {} THEN NoPath ELSE CHOOSE p \in own : TRUE
    BY <2>1 DEF Found
  <2>5. own # {} => (CHOOSE p \in own : TRUE) \in own
    OBVIOUS
  <2> QED
    BY <2>2, <2>3, <2>4, <2>5
<1> QED
  BY <1>2 DEF More, LookedUp

\* Every list is made in rounds from the empty one.
LEMMA ListedLookedUp ==
  ASSUME sys \in System, NEW subject \in Elves, NEW path \in Seq(Range(Dirs))
  PROVE  LookedUp(Listed(subject, path))
<1> DEFINE Body(g, k) == [i \in 0..k |-> IF i = 0 THEN <<>> ELSE More(subject, path, g[i - 1])]
           Lists(g, k) == g = Body(g, k) /\ \A i \in 0..k : LookedUp(g[i])
           T == {k \in Nat : ~\E g : Lists(g, k)}
<1>1. LookedUp(<<>>)
  BY DEF LookedUp
<1>2. \E g : Lists(g, 0)
  <2>1. PICK g : g = [i \in 0..0 |-> <<>>]
    OBVIOUS
  <2>2. g = Body(g, 0)
    BY <2>1
  <2> QED
    BY <1>1, <2>1, <2>2
<1>3. ASSUME NEW k \in Nat, NEW g, Lists(g, k) PROVE \E h : Lists(h, k + 1)
  <2>1. PICK h : h = [i \in 0..(k + 1) |-> IF i = k + 1 THEN More(subject, path, g[k]) ELSE g[i]]
    OBVIOUS
  <2>2. \A i \in 0..k : h[i] = g[i] /\ g[i] = (IF i = 0 THEN <<>> ELSE More(subject, path, g[i - 1]))
    BY <1>3, <2>1
  <2>3. \A i \in 0..k : h[i] = (IF i = 0 THEN <<>> ELSE More(subject, path, h[i - 1]))
    <3> TAKE i \in 0..k
    <3>1. i # 0 => i - 1 \in 0..k
      OBVIOUS
    <3> QED
      BY <2>2, <3>1
  <2>4. h[k + 1] = More(subject, path, h[k])
    BY <2>1
  <2>5. \A i \in 0..(k + 1) : h[i] = (IF i = 0 THEN <<>> ELSE More(subject, path, h[i - 1]))
    BY <2>3, <2>4
  <2>6. h = Body(h, k + 1)
    BY <2>1, <2>5
  <2>7. LookedUp(h[k + 1])
    <3>1. LookedUp(g[k]) /\ h[k] = g[k]
      BY <1>3, <2>1
    <3> QED
      BY <2>4, <3>1, MoreLookedUp
  <2>8. \A i \in 0..(k + 1) : LookedUp(h[i])
    BY <1>3, <2>2, <2>7
  <2> QED
    BY <2>6, <2>8
<1> HIDE DEF Body, Lists
<1>4. T = {}
  <2> SUFFICES ASSUME T # {} PROVE FALSE
    OBVIOUS
  <2>1. PICK n \in T : \A m \in T : n <= m
    BY Least
  <2>2. n \in Nat /\ n # 0
    BY <1>2
  <2>3. n - 1 \in Nat /\ n - 1 \notin T /\ n = (n - 1) + 1
    BY <2>1, <2>2
  <2>4. \E g : Lists(g, n - 1)
    BY <2>3
  <2> QED
    BY <1>3, <2>3, <2>4
<1>5. Cardinality(Libs) \in Nat
  BY PathsAreKnown, FS_CardinalityType
<1>6. PICK g : Lists(g, Cardinality(Libs))
  BY <1>4, <1>5
<1>7. PICK h : h = Body(h, Cardinality(Libs)) /\ Listed(subject, path) = h[Cardinality(Libs)]
  BY <1>6 DEF Listed, Lists, Body
<1>8. \A k \in Nat : k <= Cardinality(Libs) => LookedUp(h[k])
  <2> DEFINE U == {k \in Nat : k <= Cardinality(Libs) /\ ~LookedUp(h[k])}
  <2> SUFFICES ASSUME U # {} PROVE FALSE
    OBVIOUS
  <2>1. PICK n \in U : \A m \in U : n <= m
    BY Least
  <2>2. \A i \in 0..Cardinality(Libs) : h[i] = (IF i = 0 THEN <<>> ELSE More(subject, path, h[i - 1]))
    BY <1>7 DEF Body
  <2>3. n \in 0..Cardinality(Libs)
    BY <1>5
  <2>4. n # 0
    BY <1>1, <2>2, <2>3
  <2>5. n - 1 \in Nat /\ n - 1 <= Cardinality(Libs) /\ n - 1 \notin U
    BY <1>5, <2>1, <2>3, <2>4
  <2>6. LookedUp(h[n - 1])
    BY <2>5
  <2>7. h[n] = More(subject, path, h[n - 1])
    BY <2>2, <2>3, <2>4
  <2> QED
    BY <2>6, <2>7, MoreLookedUp
<1> QED
  BY <1>5, <1>7, <1>8

LEMMA TracedIsLookedUp ==
  ASSUME sys \in System, NEW f \in Elves
  PROVE  LookedUp(Traced(f))
<1>1. SearchPaths(f) \in Seq(Range(Dirs))
  <2>1. f[1] \in Range(Dirs)
    BY PathsApart
  <2>2. Defaults \in Seq(Range(Dirs))
    BY PathsAreKnown
  <2> QED
    BY <2>1, <2>2, RootIs DEF SearchPaths
<1>2. LookedUp(<<>>)
  BY DEF LookedUp
<1> QED
  BY <1>1, <1>2, ListedLookedUp DEF Traced

-----------------------------------------------------------------------------
(* What holds while the closure is built.                                  *)

\* The libraries that a visit of f puts into the bundle.
LibsOf(f) == FilesOf(Traced(f))

\* What can be listed, however far one follows the libraries.
Closed(V) == \A f \in V : ~Breaks(f) /\ LibsOf(f) \subseteq V
Good(p) == ~Orphan(p) /\ \E V \in SUBSET Elves : p \in V /\ Closed(V)

\* A program that may be in the map without its libraries.
Lost(p) == Orphan(p) \/ Breaks(p)

\* All that is listed for f is in F, and dirs and the aliases A lead to it.
Has(F, A, f, dirs) ==
    /\ ~Breaks(f)
    /\ \A n \in DOMAIN Traced(f) :
         LET q == sys.at[Traced(f)[n]]
         IN  Clean(q) => /\ q \in DOMAIN F /\ q[1] \in dirs
                         /\ q = <<q[1], n>> \/ <<q, <<q[1], n>>>> \in A

LinkerThere(F, k) ==
    /\ k = Ld => ~sys.stub /\ Ld \in DOMAIN F
    /\ k = HostLd => sys.stub /\ sys.hostLd /\ HostLd \in DOMAIN F

Dynamic(p) == p \in ProgPaths /\ p \notin sys.static

\* A plan, or an activation whose binary is done.
Done(F, A, x) ==
    /\ LinkerThere(F, x.linker)
    /\ x.linker # NoPath => Dynamic(x.subject) /\ Has(F, A, x.subject, x.dirs)
    /\ Dynamic(x.subject) => Good(x.subject)

\* An activation that searches: what it visited has its libraries, and it has
\* found no file that the subject can do without.
LinkFrame(F, A, x) ==
    /\ x.linker = IF Dynamic(x.subject) THEN Ld ELSE NoPath
    /\ x.script # NoPath => x.subject = sys.shebang[x.script]
    /\ x.linker = Ld =>
         /\ Ld \in DOMAIN F /\ ~Orphan(x.subject)
         /\ x.queue \cup x.visited \in SUBSET Elves
         /\ x.subject \in x.queue \cup x.visited
         /\ x.subject \notin x.visited => x.queue = {x.subject}
         /\ \A f \in x.visited : Has(F, A, f, x.dirs) /\ LibsOf(f) \subseteq x.queue \cup x.visited
         /\ \A V \in SUBSET Elves :
              x.subject \in V /\ Closed(V) => x.queue \cup x.visited \subseteq V

ScanFrame(F, A, sc, x) ==
    /\ x.script \in sc /\ x.cmds \in SUBSET sys.calls[x.script] /\ Done(F, A, x)

FilesOk(F) ==
    /\ \A s \in DOMAIN F : F[s] = IF s = HostLd THEN Ld ELSE s
    /\ \A s \in DOMAIN F \cap LibPaths : sys.at[s] = s

\* Of a stub and the linker for it, the former is there only for a moment, or
\* because it came back.
StubOk(F, S) ==
    /\ HostLd \in DOMAIN F => sys.stub /\ sys.hostLd
    /\ sys.stub /\ sys.hostLd /\ Ld \in DOMAIN F =>
         StubBack \/ (S # <<>> /\ S[1].phase = "link" /\ S[1].linker = Ld)

AliasOk(A) ==
    \A a \in A : a[1] \in LibPaths /\ \E q \in LibPaths : q[2] = a[2][2] /\ sys.at[q] = a[1]

TodoOk(stg, td) ==
    /\ stg = "entries" => \A i \in 1..Len(td) : td[i] \in ProgPaths \cup ScriptPaths
    /\ stg = "traced" => \A i \in 1..Len(td) : td[i] \in Range(sys.traced)

FramesOk(stg, F, A, sc, S) ==
    /\ \A i \in 2..Len(S) : S[i].phase = "scan"
    /\ \A i \in 1..Len(S) : S[i].phase = "scan" => ScanFrame(F, A, sc, S[i])
    /\ S # <<>> /\ S[1].phase = "link" => LinkFrame(F, A, S[1])
    /\ stg = "entries" => \A i \in 1..Len(S) : S[i].subject \in ProgPaths

PlansOk(F, A, P) == \A i \in 1..Len(P) : Done(F, A, P[i])

\* A program in F has its libraries there, or will have them.
ProgsOk(F, S) ==
    \A p \in DOMAIN F : Dynamic(p) =>
        \/ Lost(p) \/ LibsOf(p) \subseteq DOMAIN F
        \/ S # <<>> /\ S[1].phase = "link" /\ S[1].subject = p /\ p \notin S[1].visited

\* A command that a scan is done with.
Settled(F, c) ==
    \/ c \in DOMAIN F
    \/ c \in ScriptPaths /\ (sys.shebang[c] = NoPath \/ (Dynamic(sys.shebang[c]) /\ ~Good(sys.shebang[c])))

Awaited(S, s, c) ==
    \E i \in 1..Len(S) :
        /\ S[i].phase = "scan" /\ S[i].script = s
        /\ c \in S[i].cmds \/ (c \in ScriptPaths /\ i = 2 /\ S[1].phase = "link" /\ S[1].script = c)

ScansOk(F, S, sc) == \A s \in sc : \A c \in sys.calls[s] : Settled(F, c) \/ Awaited(S, s, c)

BuildOk(stg, td, S, F, A, sc, P) ==
    /\ FilesOk(F) /\ StubOk(F, S) /\ AliasOk(A) /\ TodoOk(stg, td)
    /\ FramesOk(stg, F, A, sc, S) /\ PlansOk(F, A, P) /\ ProgsOk(F, S) /\ ScansOk(F, S, sc)

\* What build returns.
EndOk(F, A, sc, P) ==
    /\ FilesOk(F) /\ AliasOk(A)
    /\ \A i \in 1..Len(P) :
         /\ P[i].linker # NoPath =>
              /\ Dynamic(P[i].subject) /\ Has(F, A, P[i].subject, P[i].dirs)
              /\ P[i].linker \in DOMAIN F
                   \/ (P[i].linker = HostLd /\ sys.before /\ StubBack)
         /\ Dynamic(P[i].subject) => Good(P[i].subject)
    /\ \A p \in DOMAIN F : Dynamic(p) => Lost(p) \/ LibsOf(p) \subseteq DOMAIN F
    /\ \A s \in sc : \A c \in sys.calls[s] : Settled(F, c) \/ ~Clean(c)

Building == stage \in {"entries", "traced"}

ClosureInv ==
    /\ TypeOK
    /\ ~Building => stack = <<>>
    /\ Building => BuildOk(stage, todo, stack, files, aliases, scanned, plans)
    /\ stage = "done" => EndOk(files, aliases, scanned, plans)

-----------------------------------------------------------------------------
(* What the invariant is good for at the end.                              *)

LEMMA LookedUpIs ==
  ASSUME sys \in System, NEW L, LookedUp(L)
  PROVE  /\ DOMAIN L \subseteq Libs
         /\ \A n \in DOMAIN L :
              L[n] # NoPath =>
                /\ L[n] \in LibPaths /\ L[n][2] = n /\ sys.at[L[n]] \in LibPaths
                /\ sys.at[sys.at[L[n]]] = sys.at[L[n]]
<1>1. ASSUME NEW n \in DOMAIN L, L[n] # NoPath
      PROVE  /\ L[n] \in LibPaths /\ L[n][2] = n /\ sys.at[L[n]] \in LibPaths
             /\ sys.at[sys.at[L[n]]] = sys.at[L[n]]
  <2>1. L[n] \in LibPaths /\ L[n][2] = n /\ sys.at[L[n]] \in LibPaths
    BY <1>1 DEF LookedUp, Hits
  <2>2. sys.at[L[n]] # NoPath
    BY <2>1, PathsApart
  <2> QED
    BY <2>1, <2>2, RootIs
<1> QED
  BY <1>1 DEF LookedUp

LEMMA LibsAreFiles ==
  ASSUME sys \in System, NEW f \in Elves
  PROVE  /\ DOMAIN Traced(f) \subseteq Libs
         /\ \A n \in DOMAIN Traced(f) :
              Traced(f)[n] # NoPath =>
                /\ Traced(f)[n] \in LibPaths /\ Traced(f)[n][2] = n
                /\ sys.at[Traced(f)[n]] \in LibPaths
                /\ sys.at[sys.at[Traced(f)[n]]] = sys.at[Traced(f)[n]]
BY TracedIsLookedUp, LookedUpIs

\* What does not break misses nothing; of a stub there is no list.
LEMMA SoundIsComplete == ASSUME NEW f, ~Breaks(f) PROVE ~Missing(Traced(f))
BY DEF Breaks, Fails

LEMMA StubListsNothing ==
  ASSUME sys.stub, NEW f
  PROVE  LibsOf(f) = {}
<1>1. Traced(f) = <<>>
  BY DEF Traced
<1> QED
  BY <1>1 DEF LibsOf, FilesOf, Bundled

\* A part of a list misses nothing.
LEMMA PartialIs ==
  ASSUME sys \in System, NEW f \in Elves, NEW part \in Partial(f)
  PROVE  LookedUp(part) /\ ~Missing(part)
<1>1. CASE Fails(f)
  <2>1. part = <<>>
    BY <1>1 DEF Partial
  <2> QED
    BY <2>1 DEF LookedUp, Missing, Range
<1>2. CASE ~Fails(f)
  <2>1. PICK L : L = Traced(f)
    OBVIOUS
  <2>2. LookedUp(L) /\ ~Missing(L)
    BY <1>2, <2>1, TracedIsLookedUp DEF Fails
  <2>3. PICK names \in SUBSET DOMAIN L : part = [n \in names |-> L[n]]
    BY <1>2, <2>1 DEF Partial, Restrict
  <2> QED
    BY <2>2, <2>3 DEF LookedUp, Missing, Range
<1> QED
  BY <1>1, <1>2

LEMMA PlanFields ==
  ASSUME NEW x \in Plan
  PROVE  /\ x.subject \in ProgPaths /\ x.script \in ScriptPaths \cup {NoPath}
         /\ x.dirs \in SUBSET Range(Dirs) /\ x.linker \in {Ld, HostLd, NoPath}
BY DEF Plan

LEMMA FrameFields ==
  ASSUME NEW x \in Frame
  PROVE  /\ x.subject \in Elves \cup {Ld} /\ x.script \in ScriptPaths \cup {NoPath}
         /\ x.phase \in {"link", "scan"} /\ x.queue \in SUBSET (Elves \cup {Ld})
         /\ x.visited \in SUBSET (Elves \cup {Ld}) /\ x.dirs \in SUBSET Range(Dirs)
         /\ x.linker \in {Ld, HostLd, NoPath} /\ x.cmds \in SUBSET (ProgPaths \cup ScriptPaths)
BY DEF Frame

LEMMA PlansTyped ==
  ASSUME TypeOK
  PROVE  /\ sys \in System /\ plans \in Seq(Plan) /\ stack \in Seq(Frame)
         /\ DOMAIN plans = 1..Len(plans)
         /\ \A i \in DOMAIN plans : plans[i] \in Plan
<1>1. sys \in System /\ plans \in Seq(Plan) /\ stack \in Seq(Frame)
  BY DEF TypeOK
<1> QED
  BY <1>1

LEMMA HasFinds ==
  ASSUME sys \in System, NEW f \in Elves, ~Missing(Traced(f)), NEW n \in DOMAIN Traced(f)
  PROVE  Traced(f)[n] # NoPath
BY DEF Missing, Range

\* A name that is in one directory of a plan is picked from some directory.
LEMMA PickedIs ==
  ASSUME NEW dirs, NEW n, NEW d \in dirs \cap Range(Dirs), PlacedAt(<<d, n>>) # {}
  PROVE  \E e \in Range(Dirs) : Picked(dirs, n) = PlacedAt(<<e, n>>) /\ PlacedAt(<<e, n>>) # {}
<1>1. PICK there : there = {i \in DOMAIN Dirs : Dirs[i] \in dirs /\ PlacedAt(<<Dirs[i], n>>) # {}}
  OBVIOUS
<1>2. Picked(dirs, n) = IF there = {} THEN {} ELSE PlacedAt(<<Dirs[Min(there)], n>>)
  BY <1>1 DEF Picked
<1>3. there # {}
  <2>1. PICK i \in DOMAIN Dirs : Dirs[i] = d
    BY DEF Range
  <2> QED
    BY <1>1, <2>1
<1>4. there \in SUBSET Nat
  <2>1. DOMAIN Dirs \subseteq Nat
    BY PathsAreKnown
  <2> QED
    BY <1>1, <2>1
<1>5. Min(there) \in there
  BY <1>3, <1>4, MinIsLeast
<1>6. PICK i \in there : i = Min(there)
  BY <1>5
<1>7. Dirs[i] \in Range(Dirs) /\ PlacedAt(<<Dirs[i], n>>) # {}
  BY <1>1 DEF Range
<1> QED
  BY <1>2, <1>3, <1>6, <1>7

LEMMA InvLibraries == ClosureInv => LibrariesFound
<1> SUFFICES ASSUME ClosureInv, stage = "done", NEW i \in DOMAIN plans, plans[i].linker # NoPath,
                    NEW n \in DOMAIN Traced(plans[i].subject),
                    Clean(sys.at[Traced(plans[i].subject)[n]])
             PROVE  /\ Picked(plans[i].dirs, n) # {}
                    /\ Ambiguous(n) \/ sys.at[Traced(plans[i].subject)[n]] \in Picked(plans[i].dirs, n)
  BY DEF LibrariesFound
<1>1. PICK f : f = plans[i].subject
  OBVIOUS
<1>2. PICK path : path = Traced(f)[n]
  OBVIOUS
<1>3. PICK q : q = sys.at[path]
  OBVIOUS
<1>4. sys \in System /\ i \in 1..Len(plans) /\ plans[i].dirs \subseteq Range(Dirs)
  BY PlansTyped, PlanFields DEF ClosureInv
<1>5. FilesOk(files) /\ AliasOk(aliases) /\ f \in Elves /\ Has(files, aliases, f, plans[i].dirs)
  BY <1>1, <1>4, PathsApart DEF ClosureInv, EndOk, Dynamic
<1>6. ~Missing(Traced(f))
  <2>1. ~Breaks(f)
    BY <1>5 DEF Has
  <2> QED
    BY <2>1, SoundIsComplete
<1>7. /\ n \in Libs /\ path \in LibPaths /\ path[2] = n /\ q \in LibPaths /\ sys.at[q] = q
  BY <1>1, <1>2, <1>3, <1>4, <1>5, <1>6, HasFinds, LibsAreFiles
<1>8. /\ q \in DOMAIN files /\ q[1] \in plans[i].dirs
      /\ q = <<q[1], n>> \/ <<q, <<q[1], n>>>> \in aliases
  BY <1>1, <1>2, <1>3, <1>5 DEF Has
<1>9. q \in PlacedAt(<<q[1], n>>)
  <2>1. files[q] = q
    BY <1>5, <1>7, <1>8, PathsApart DEF FilesOk
  <2> QED
    BY <1>8, <2>1 DEF PlacedAt
<1>10. q[1] \in plans[i].dirs \cap Range(Dirs)
  BY <1>4, <1>8
<1>11. PICK e \in Range(Dirs) : Picked(plans[i].dirs, n) = PlacedAt(<<e, n>>) /\ PlacedAt(<<e, n>>) # {}
  BY <1>9, <1>10, PickedIs
<1>12. PICK s : s \in PlacedAt(<<e, n>>)
  BY <1>11
<1>13. \E t \in LibPaths : t[2] = n /\ sys.at[t] = s
  <2>1. CASE files[s] = <<e, n>>
    <3>1. s \in DOMAIN files /\ <<e, n>> \in LibPaths
      BY <1>7, <1>12, PathsApart DEF PlacedAt
    <3>2. s = <<e, n>>
      BY <1>5, <2>1, <3>1, PathsApart DEF FilesOk
    <3> QED
      BY <1>5, <3>1, <3>2 DEF FilesOk
  <2>2. CASE <<s, <<e, n>>>> \in aliases
    BY <1>5, <2>2 DEF AliasOk
  <2> QED
    BY <1>12, <2>1, <2>2 DEF PlacedAt
<1>14. PICK t \in LibPaths : t[2] = n /\ sys.at[t] = s
  BY <1>13
<1>15. s # NoPath /\ q # NoPath
  <2>1. s \in LibPaths
    <3>1. CASE files[s] = <<e, n>>
      <4>1. s \in DOMAIN files /\ <<e, n>> \in LibPaths
        BY <1>7, <1>12, PathsApart DEF PlacedAt
      <4> QED
        BY <1>5, <3>1, <4>1, PathsApart DEF FilesOk
    <3>2. CASE <<s, <<e, n>>>> \in aliases
      BY <1>5, <3>2 DEF AliasOk
    <3> QED
      BY <1>12, <3>1, <3>2 DEF PlacedAt
  <2> QED
    BY <1>7, <2>1, PathsApart
<1>16. s # q => Ambiguous(n)
  <2> SUFFICES ASSUME s # q PROVE Ambiguous(n)
    OBVIOUS
  <2>1. /\ t = <<t[1], n>> /\ t[1] \in Range(Dirs)
        /\ path = <<path[1], n>> /\ path[1] \in Range(Dirs)
    BY <1>7, <1>14, PathsApart
  <2>2. sys.at[<<t[1], n>>] = s /\ sys.at[<<path[1], n>>] = q
    BY <1>3, <1>14, <2>1
  <2>3. PICK d1 \in Range(Dirs), d2 \in Range(Dirs) : d1 = t[1] /\ d2 = path[1]
    BY <2>1
  <2> QED
    BY <1>15, <2>2, <2>3 DEF Ambiguous
<1> QED
  BY <1>1, <1>2, <1>3, <1>11, <1>12, <1>16

LEMMA InvLinker == ClosureInv => LinkerServes
<1> SUFFICES ASSUME ClosureInv, stage = "done" PROVE LinkerServes
  BY DEF LinkerServes
<1>1. DOMAIN plans = 1..Len(plans)
  BY DEF ClosureInv, TypeOK
<1> QED
  BY <1>1 DEF ClosureInv, EndOk, LinkerServes

LEMMA InvPrograms == ClosureInv => ProgramsHaveLibraries
<1> SUFFICES ASSUME ClosureInv, stage = "done",
                    NEW p \in (DOMAIN files \cap ProgPaths) \ sys.static,
                    ~((Orphan(p) \/ Breaks(p)) /\ \A i \in DOMAIN plans : plans[i].subject # p)
             PROVE  /\ ~Missing(Traced(p))
                    /\ \A l \in Range(Traced(p)) : Clean(sys.at[l]) => sys.at[l] \in DOMAIN files
  BY DEF ProgramsHaveLibraries
<1>1. Dynamic(p) /\ EndOk(files, aliases, scanned, plans)
  BY DEF ClosureInv, Dynamic
<1>2. ~Lost(p)
  <2>1. CASE \E i \in DOMAIN plans : plans[i].subject = p
    <3>1. PICK i \in 1..Len(plans) : plans[i].subject = p
      BY <2>1, PlansTyped DEF ClosureInv
    <3>2. Good(p)
      BY <1>1, <3>1 DEF EndOk
    <3> QED
      BY <3>2 DEF Good, Closed, Lost
  <2>2. CASE ~(\E i \in DOMAIN plans : plans[i].subject = p)
    BY <2>2 DEF Lost
  <2> QED
    BY <2>1, <2>2
<1>3. LibsOf(p) \subseteq DOMAIN files
  BY <1>1, <1>2 DEF EndOk
<1>4. \A l \in Range(Traced(p)) : Clean(sys.at[l]) => sys.at[l] \in LibsOf(p)
  BY DEF LibsOf, FilesOf, Bundled, Range
<1>5. ~Missing(Traced(p))
  BY <1>2, SoundIsComplete DEF Lost
<1> QED
  BY <1>3, <1>4, <1>5

LEMMA InvScanned == ClosureInv => ScannedComplete
<1> SUFFICES ASSUME ClosureInv, stage = "done", NEW s \in scanned, NEW c \in sys.calls[s],
                    c \notin DOMAIN files, Clean(c)
             PROVE  c \in ScriptPaths /\ \A i \in DOMAIN plans : plans[i].subject # sys.shebang[c]
  BY DEF ScannedComplete
<1>1. /\ c \in ScriptPaths
      /\ sys.shebang[c] = NoPath \/ (Dynamic(sys.shebang[c]) /\ ~Good(sys.shebang[c]))
  BY DEF ClosureInv, EndOk, Settled
<1>2. ASSUME NEW i \in DOMAIN plans PROVE plans[i].subject # sys.shebang[c]
  <2>1. i \in 1..Len(plans) /\ plans[i].subject \in ProgPaths
    BY PlansTyped, PlanFields DEF ClosureInv
  <2>2. Dynamic(plans[i].subject) => Good(plans[i].subject)
    BY <2>1 DEF ClosureInv, EndOk
  <2>3. plans[i].subject # NoPath
    BY <2>1, PathsApart
  <2> QED
    BY <1>1, <2>2, <2>3
<1> QED
  BY <1>1, <1>2

-----------------------------------------------------------------------------
(* A root does not change: what is said of it holds before and after.       *)

\* The dynamic linker does not change what it says.
LEMMA SameList == ASSUME sys' = sys PROVE \A f : Traced(f)' = Traced(f)
BY DEF First, Needing, More, Found, Traced, Listed, SearchPaths

LEMMA SameLibs == ASSUME sys' = sys PROVE \A f : LibsOf(f)' = LibsOf(f)
BY SameList DEF LibsOf, FilesOf, Bundled

LEMMA SameFaults ==
  ASSUME sys' = sys
  PROVE  /\ \A f : (Breaks(f)' <=> Breaks(f)) /\ (Orphan(f)' <=> Orphan(f)) /\ (Lost(f)' <=> Lost(f))
         /\ StubBack' <=> StubBack
<1>1. \A f : Breaks(f)' <=> Breaks(f)
  BY SameList DEF Breaks, Fails
<1>2. \A f : Orphan(f)' <=> Orphan(f)
  BY DEF Orphan, LinkerOf
<1> QED
  BY <1>1, <1>2 DEF Lost, StubBack

LEMMA SameGood == ASSUME sys' = sys PROVE \A f : Good(f)' <=> Good(f)
BY SameFaults, SameLibs DEF Good, Closed

LEMMA SameHas ==
  ASSUME sys' = sys
  PROVE \A F, A, f, dirs : Has(F, A, f, dirs)' <=> Has(F, A, f, dirs)
BY SameList, SameFaults DEF Has

LEMMA SameDone ==
  ASSUME sys' = sys
  PROVE \A F, A, x : Done(F, A, x)' <=> Done(F, A, x)
BY SameGood, SameHas DEF Done, Dynamic, LinkerThere

LEMMA SameSettled ==
  ASSUME sys' = sys
  PROVE \A F, c : Settled(F, c)' <=> Settled(F, c)
BY SameGood DEF Settled, Dynamic

LEMMA SameFrames ==
  ASSUME sys' = sys
  PROVE  FramesOk(stage, files, aliases, scanned, stack)'
           <=> FramesOk(stage', files', aliases', scanned', stack')
<1>1. \A F, A, x : LinkFrame(F, A, x)' <=> LinkFrame(F, A, x)
  BY SameFaults, SameLibs, SameHas DEF LinkFrame, Dynamic, Closed
<1>2. \A F, A, sc, x : ScanFrame(F, A, sc, x)' <=> ScanFrame(F, A, sc, x)
  BY SameDone DEF ScanFrame
<1> QED
  BY <1>1, <1>2 DEF FramesOk

LEMMA SameBuild ==
  ASSUME sys' = sys
  PROVE  BuildOk(stage, todo, stack, files, aliases, scanned, plans)'
           <=> BuildOk(stage', todo', stack', files', aliases', scanned', plans')
<1>1. PlansOk(files, aliases, plans)' <=> PlansOk(files', aliases', plans')
  BY SameDone DEF PlansOk
<1>2. ProgsOk(files, stack)' <=> ProgsOk(files', stack')
  BY SameFaults, SameLibs DEF ProgsOk, Dynamic
<1>3. ScansOk(files, stack, scanned)' <=> ScansOk(files', stack', scanned')
  BY SameSettled DEF ScansOk, Awaited
<1>4. /\ FilesOk(files)' <=> FilesOk(files')
      /\ StubOk(files, stack)' <=> StubOk(files', stack')
      /\ AliasOk(aliases)' <=> AliasOk(aliases')
      /\ TodoOk(stage, todo)' <=> TodoOk(stage', todo')
  BY SameFaults DEF FilesOk, StubOk, AliasOk, TodoOk
<1> QED
  BY <1>1, <1>2, <1>3, <1>4, SameFrames DEF BuildOk

LEMMA SameEnd ==
  ASSUME sys' = sys
  PROVE  EndOk(files, aliases, scanned, plans)' <=> EndOk(files', aliases', scanned', plans')
<1>1. /\ FilesOk(files)' <=> FilesOk(files')
      /\ AliasOk(aliases)' <=> AliasOk(aliases')
  BY DEF FilesOk, AliasOk
<1> QED
  BY <1>1, SameFaults, SameLibs, SameGood, SameHas, SameSettled DEF EndOk, Dynamic

-----------------------------------------------------------------------------
(* A map that grows, and the stack.                                         *)

\* The map and the aliases grow, but for a stub that is replaced.
Grows(F, F2, A, A2) ==
    /\ A \subseteq A2 /\ DOMAIN F \ {Ld} \subseteq DOMAIN F2
    /\ Ld \in DOMAIN F /\ ~sys.stub => Ld \in DOMAIN F2

\* What has its libraries keeps them.
LEMMA HasGrows ==
  ASSUME sys \in System, NEW F, NEW F2, NEW A, NEW A2, Grows(F, F2, A, A2),
         NEW f \in Elves, NEW dirs, NEW dirs2, dirs \subseteq dirs2, Has(F, A, f, dirs)
  PROVE  Has(F2, A2, f, dirs2)
<1>1. ~Breaks(f) /\ ~Missing(Traced(f))
  <2>1. ~Breaks(f)
    BY DEF Has
  <2> QED
    BY <2>1, SoundIsComplete
<1>2. ASSUME NEW n \in DOMAIN Traced(f), NEW q, q = sys.at[Traced(f)[n]], Clean(q)
      PROVE  q \in DOMAIN F2 /\ q[1] \in dirs2 /\ (q = <<q[1], n>> \/ <<q, <<q[1], n>>>> \in A2)
  <2>1. q \in LibPaths
    BY <1>1, <1>2, HasFinds, LibsAreFiles
  <2>2. q # Ld
    BY <2>1, PathsApart
  <2>3. q \in DOMAIN F /\ q[1] \in dirs /\ (q = <<q[1], n>> \/ <<q, <<q[1], n>>>> \in A)
    BY <1>2 DEF Has
  <2> QED
    BY <2>2, <2>3 DEF Grows
<1> QED
  BY <1>1, <1>2 DEF Has

LEMMA DoneGrows ==
  ASSUME sys \in System, NEW F, NEW F2, NEW A, NEW A2, Grows(F, F2, A, A2),
         NEW x, Done(F, A, x)
  PROVE  Done(F2, A2, x)
<1>1. LinkerThere(F2, x.linker)
  BY PathsApart DEF Done, LinkerThere, Grows
<1>2. x.linker # NoPath => Dynamic(x.subject) /\ Has(F2, A2, x.subject, x.dirs)
  BY HasGrows, PathsApart DEF Done, Dynamic
<1> QED
  BY <1>1, <1>2 DEF Done

LEMMA PlansGrow ==
  ASSUME sys \in System, NEW F, NEW F2, NEW A, NEW A2, Grows(F, F2, A, A2),
         NEW P, PlansOk(F, A, P)
  PROVE  PlansOk(F2, A2, P)
BY DoneGrows DEF PlansOk

LEMMA SettledGrows ==
  ASSUME NEW F, NEW F2, NEW A, NEW A2, Grows(F, F2, A, A2),
         NEW c \in ProgPaths \cup ScriptPaths, Settled(F, c)
  PROVE  Settled(F2, c)
BY PathsApart DEF Settled, Grows

LEMMA ScanGrows ==
  ASSUME sys \in System, NEW F, NEW F2, NEW A, NEW A2, Grows(F, F2, A, A2),
         NEW sc, NEW sc2, sc \subseteq sc2, NEW x, ScanFrame(F, A, sc, x)
  PROVE  ScanFrame(F2, A2, sc2, x)
BY DoneGrows DEF ScanFrame

LEMMA PushIs ==
  ASSUME NEW S \in Seq(Frame), NEW x \in Frame
  PROVE  /\ <<x>> \o S \in Seq(Frame) /\ Len(<<x>> \o S) = Len(S) + 1 /\ Len(S) \in Nat
         /\ (<<x>> \o S)[1] = x /\ <<x>> \o S # <<>>
         /\ \A i \in 2..Len(<<x>> \o S) : (<<x>> \o S)[i] = S[i - 1] /\ i - 1 \in 1..Len(S)
OBVIOUS

LEMMA TailIs ==
  ASSUME NEW S \in Seq(Frame), S # <<>>
  PROVE  /\ Tail(S) \in Seq(Frame) /\ Len(Tail(S)) = Len(S) - 1 /\ Len(S) \in Nat \ {0}
         /\ Head(S) = S[1] /\ S[1] \in Frame
         /\ \A i \in 1..Len(Tail(S)) : Tail(S)[i] = S[i + 1] /\ i + 1 \in 2..Len(S)
OBVIOUS

LEMMA TopIs ==
  ASSUME NEW S \in Seq(Frame), S # <<>>, NEW x \in Frame
  PROVE  /\ [S EXCEPT ![1] = x] \in Seq(Frame) /\ Len([S EXCEPT ![1] = x]) = Len(S)
         /\ Len(S) \in Nat \ {0} /\ [S EXCEPT ![1] = x] # <<>>
         /\ [S EXCEPT ![1] = x][1] = x
         /\ \A i \in 2..Len(S) : [S EXCEPT ![1] = x][i] = S[i]
OBVIOUS

\* Nothing is searched, and the map grows.
LEMMA FramesStay ==
  ASSUME sys \in System, NEW stg, NEW S \in Seq(Frame), NEW sc,
         NEW F, NEW F2, NEW A, NEW A2, Grows(F, F2, A, A2),
         FramesOk(stg, F, A, sc, S), S = <<>> \/ S[1].phase = "scan"
  PROVE  /\ \A i \in 1..Len(S) : S[i].phase = "scan" /\ ScanFrame(F2, A2, sc, S[i])
         /\ FramesOk(stg, F2, A2, sc, S)
<1>1. \A i \in 1..Len(S) : S[i].phase = "scan"
  <2> TAKE i \in 1..Len(S)
  <2>1. CASE i = 1
    BY <2>1
  <2>2. CASE i \in 2..Len(S)
    BY <2>2 DEF FramesOk
  <2> QED
    BY <2>1, <2>2
<1>2. \A i \in 1..Len(S) : ScanFrame(F2, A2, sc, S[i])
  BY <1>1, ScanGrows DEF FramesOk
<1> QED
  BY <1>1, <1>2 DEF FramesOk

\* An activation comes on top, or goes, or is changed.
LEMMA FramesPush ==
  ASSUME sys \in System, NEW stg, NEW S \in Seq(Frame), NEW x \in Frame, NEW sc,
         NEW F, NEW F2, NEW A, NEW A2, Grows(F, F2, A, A2),
         FramesOk(stg, F, A, sc, S), S = <<>> \/ S[1].phase = "scan",
         x.phase = "link", LinkFrame(F2, A2, x), stg = "entries" => x.subject \in ProgPaths
  PROVE  FramesOk(stg, F2, A2, sc, <<x>> \o S)
<1>1. PICK T : T = <<x>> \o S
  OBVIOUS
<1>2. /\ T \in Seq(Frame) /\ Len(T) = Len(S) + 1 /\ Len(S) \in Nat /\ T[1] = x
      /\ \A i \in 2..Len(T) : T[i] = S[i - 1] /\ i - 1 \in 1..Len(S)
  BY <1>1, PushIs
<1>3. \A i \in 1..Len(S) : S[i].phase = "scan" /\ ScanFrame(F2, A2, sc, S[i])
  BY FramesStay
<1>5. \A i \in 1..Len(T) : i = 1 \/ i \in 2..Len(T)
  BY <1>2
<1>6. \A i \in 2..Len(T) : T[i].phase = "scan" /\ ScanFrame(F2, A2, sc, T[i])
  BY <1>2, <1>3
<1>7. stg = "entries" => \A i \in 1..Len(T) : T[i].subject \in ProgPaths
  BY <1>2, <1>5 DEF FramesOk
<1>8. FramesOk(stg, F2, A2, sc, T)
  BY <1>2, <1>5, <1>6, <1>7 DEF FramesOk
<1> QED
  BY <1>1, <1>8

LEMMA FramesTail ==
  ASSUME sys \in System, NEW stg, NEW S \in Seq(Frame), S # <<>>, NEW sc, NEW sc2, sc \subseteq sc2,
         NEW F, NEW F2, NEW A, NEW A2, Grows(F, F2, A, A2), FramesOk(stg, F, A, sc, S)
  PROVE  FramesOk(stg, F2, A2, sc2, Tail(S))
<1>1. PICK T : T = Tail(S)
  OBVIOUS
<1>2. /\ T \in Seq(Frame) /\ Len(T) = Len(S) - 1 /\ Len(S) \in Nat \ {0}
      /\ \A i \in 1..Len(T) : T[i] = S[i + 1] /\ i + 1 \in 2..Len(S) /\ i + 1 \in 1..Len(S)
  BY <1>1, TailIs
<1>3. \A i \in 1..Len(T) : T[i].phase = "scan" /\ ScanFrame(F2, A2, sc2, T[i])
  BY <1>2, ScanGrows DEF FramesOk
<1>4. stg = "entries" => \A i \in 1..Len(T) : T[i].subject \in ProgPaths
  BY <1>2 DEF FramesOk
<1>5. T # <<>> => T[1].phase = "scan"
  BY <1>2, <1>3
<1>6. FramesOk(stg, F2, A2, sc2, T)
  BY <1>2, <1>3, <1>4, <1>5 DEF FramesOk
<1> QED
  BY <1>1, <1>6

LEMMA FramesTop ==
  ASSUME sys \in System, NEW stg, NEW S \in Seq(Frame), S # <<>>, NEW sc, NEW sc2, sc \subseteq sc2,
         NEW F, NEW F2, NEW A, NEW A2, Grows(F, F2, A, A2), FramesOk(stg, F, A, sc, S),
         NEW x \in Frame, x.phase = "link" => LinkFrame(F2, A2, x),
         x.phase = "scan" => ScanFrame(F2, A2, sc2, x), x.subject = S[1].subject
  PROVE  FramesOk(stg, F2, A2, sc2, [S EXCEPT ![1] = x])
<1>1. PICK T : T = [S EXCEPT ![1] = x]
  OBVIOUS
<1>2. /\ T \in Seq(Frame) /\ Len(T) = Len(S) /\ Len(S) \in Nat \ {0} /\ T[1] = x
      /\ \A i \in 2..Len(S) : T[i] = S[i]
  BY <1>1, TopIs
<1>3. \A i \in 1..Len(T) : i = 1 \/ i \in 2..Len(T)
  BY <1>2
<1>4. \A i \in 2..Len(T) : T[i].phase = "scan" /\ ScanFrame(F2, A2, sc2, T[i])
  <2> TAKE i \in 2..Len(T)
  <2>1. i \in 2..Len(S) /\ i \in 1..Len(S) /\ T[i] = S[i]
    BY <1>2
  <2>2. T[i].phase = "scan" /\ ScanFrame(F, A, sc, T[i])
    BY <2>1 DEF FramesOk
  <2> QED
    BY <2>2, ScanGrows
<1>5. stg = "entries" => \A i \in 1..Len(T) : T[i].subject \in ProgPaths
  BY <1>2, <1>3 DEF FramesOk
<1>6. FramesOk(stg, F2, A2, sc2, T)
  BY <1>2, <1>3, <1>4, <1>5 DEF FramesOk
<1> QED
  BY <1>1, <1>6

\* What Enter(p, S) makes of the map, and the activation that it adds.
SubjectOf(p) == IF p \in ScriptPaths THEN sys.shebang[p] ELSE p
ScriptOf(p)  == IF p \in ScriptPaths THEN p ELSE NoPath
FrameOf(p, F) == NewFrame(SubjectOf(p), ScriptOf(p), Ensure(F, {SubjectOf(p)}))
FilesWith(p, F) ==
    IF FrameOf(p, F).linker = NoPath THEN Ensure(F, {SubjectOf(p)})
    ELSE Ensure(Ensure(F, {SubjectOf(p)}), {Ld})

\* A path that may be planned, and a state in which nothing is searched.
Enterable(stg, p) ==
    /\ p \in Elves \cup ScriptPaths \cup {Ld} /\ Plannable(p) /\ ~Orphan(SubjectOf(p))
    /\ p = Ld => Ld \in Range(sys.traced)
    /\ p \in LibPaths => sys.at[p] = p
    /\ stg = "entries" => p \in ProgPaths \cup ScriptPaths

StateOk(stg, S, F, A, sc, P) ==
    /\ FilesOk(F) /\ StubOk(F, S) /\ FramesOk(stg, F, A, sc, S) /\ PlansOk(F, A, P) /\ ProgsOk(F, S)

Ready(stg, S, F, A, sc, P) ==
    sys \in System /\ S \in Seq(Frame) /\ (S = <<>> \/ S[1].phase = "scan") /\ StateOk(stg, S, F, A, sc, P)

Entered(stg, T, F2, S, F, A, sc, P, p) ==
    /\ StateOk(stg, T, F2, A, sc, P)
    /\ T \in Seq(Frame) /\ T # <<>> /\ T[1] \in Frame
    /\ T = <<T[1]>> \o S /\ T[1].phase = "link" /\ T[1].script = ScriptOf(p)
    /\ Grows(F, F2, A, A)
    /\ SubjectOf(p) \in DOMAIN F2 /\ DOMAIN F2 \subseteq DOMAIN F \cup Elves \cup {Ld}

LEMMA SubjectIs ==
  ASSUME sys \in System, NEW p \in Elves \cup ScriptPaths \cup {Ld}, Plannable(p)
  PROVE  SubjectOf(p) \in Elves \cup {Ld}
<1>1. p \in ScriptPaths => sys.shebang[p] \in ProgPaths
  BY RootIs DEF Plannable
<1> QED
  BY <1>1, PathsApart DEF SubjectOf

\* A program without its interpreter stays in the map, and nothing can be
\* planned that needs it.
Strayed(stg, S, F, F2, A, sc, P, p) ==
    /\ StateOk(stg, S, F2, A, sc, P) /\ Grows(F, F2, A, A)
    /\ SubjectOf(p) \in DOMAIN F2 /\ DOMAIN F2 \subseteq DOMAIN F \cup Elves
    /\ Dynamic(SubjectOf(p)) /\ ~Good(SubjectOf(p))

LEMMA OrphanStays ==
  ASSUME NEW stg, NEW S, NEW F, NEW A, NEW sc, NEW P, Ready(stg, S, F, A, sc, P),
         NEW p \in Elves \cup ScriptPaths \cup {Ld}, Plannable(p), Orphan(SubjectOf(p)),
         NEW F2, F2 = Ensure(F, {SubjectOf(p)})
  PROVE  Strayed(stg, S, F, F2, A, sc, P, p)
<1>0. /\ sys \in System /\ S \in Seq(Frame) /\ (S = <<>> \/ S[1].phase = "scan")
      /\ FilesOk(F) /\ StubOk(F, S) /\ FramesOk(stg, F, A, sc, S) /\ PlansOk(F, A, P) /\ ProgsOk(F, S)
  BY DEF Ready, StateOk
<1>1. PICK q : q = SubjectOf(p)
  OBVIOUS
<1>2. Dynamic(q) /\ ~Good(q) /\ Lost(q)
  <2>1. q \notin sys.static \cup LibPaths \cup {Ld}
    BY <1>1, PathsApart DEF Orphan, LinkerOf
  <2>2. q \in ProgPaths
    BY <1>0, <1>1, <2>1, SubjectIs DEF Elves
  <2> QED
    BY <1>1, <2>1, <2>2 DEF Dynamic, Good, Lost
<1>3. q \in Elves /\ q \notin LibPaths \cup ScriptPaths /\ q # Ld /\ q # HostLd
  BY <1>2, PathsApart DEF Dynamic
<1>4. /\ DOMAIN F2 = DOMAIN F \cup {q} /\ \A s \in DOMAIN F : F2[s] = F[s]
      /\ q \notin DOMAIN F => F2[q] = q
  BY <1>1 DEF Ensure
<1>5. Grows(F, F2, A, A)
  BY <1>4 DEF Grows
<1>6. FilesOk(F2)
  BY <1>0, <1>3, <1>4 DEF FilesOk
<1>7. StubOk(F2, S)
  BY <1>0, <1>3, <1>4 DEF StubOk
<1>8. FramesOk(stg, F2, A, sc, S) /\ PlansOk(F2, A, P)
  BY <1>0, <1>5, FramesStay, PlansGrow
<1>9. ProgsOk(F2, S)
  <2> SUFFICES ASSUME NEW t \in DOMAIN F2, Dynamic(t), ~Lost(t) PROVE LibsOf(t) \subseteq DOMAIN F2
    BY DEF ProgsOk
  <2>1. t \in DOMAIN F
    BY <1>2, <1>4
  <2>2. LibsOf(t) \subseteq DOMAIN F
    BY <1>0, <2>1 DEF ProgsOk
  <2> QED
    BY <1>4, <2>2
<1> QED
  BY <1>1, <1>2, <1>3, <1>4, <1>5, <1>6, <1>7, <1>8, <1>9 DEF Strayed, StateOk

\* A path that may be planned can be entered whenever nothing is searched.
LEMMA EnterOk ==
  ASSUME NEW stg, NEW S, NEW F, NEW A, NEW sc, NEW P, NEW p,
         Ready(stg, S, F, A, sc, P), Enterable(stg, p),
         NEW T, T = <<FrameOf(p, F)>> \o S, NEW F2, F2 = FilesWith(p, F)
  PROVE  Entered(stg, T, F2, S, F, A, sc, P, p)
<1>0. /\ sys \in System /\ S \in Seq(Frame) /\ (S = <<>> \/ S[1].phase = "scan")
      /\ FilesOk(F) /\ StubOk(F, S) /\ FramesOk(stg, F, A, sc, S) /\ PlansOk(F, A, P) /\ ProgsOk(F, S)
      /\ p \in Elves \cup ScriptPaths \cup {Ld} /\ Plannable(p) /\ ~Orphan(SubjectOf(p))
      /\ p = Ld => Ld \in Range(sys.traced)
      /\ p \in LibPaths => sys.at[p] = p
      /\ stg = "entries" => p \in ProgPaths \cup ScriptPaths
  BY DEF Ready, StateOk, Enterable
<1>a. PICK subject : subject = SubjectOf(p)
  OBVIOUS
<1>b. PICK script : script = ScriptOf(p)
  OBVIOUS
<1>c. PICK x : x = NewFrame(subject, script, Ensure(F, {subject}))
  OBVIOUS
<1>d. /\ x = FrameOf(p, F)
      /\ F2 = (IF x.linker = NoPath THEN Ensure(F, {subject}) ELSE Ensure(Ensure(F, {subject}), {Ld}))
  BY <1>a, <1>b, <1>c DEF FrameOf, FilesWith
<1>1. /\ subject \in Elves \cup {Ld} /\ script \in ScriptPaths \cup {NoPath}
      /\ subject = Ld => p = Ld
      /\ subject \in LibPaths => p = subject
      /\ script # NoPath => subject = sys.shebang[script]
      /\ stg = "entries" => subject \in ProgPaths
  <2>1. CASE p \in ScriptPaths
    <3>1. sys.shebang[p] \in ProgPaths
      BY <1>0, <2>1, RootIs DEF Plannable
    <3>2. subject = sys.shebang[p] /\ script = p
      BY <1>0, <1>a, <1>b, <2>1 DEF SubjectOf, ScriptOf
    <3> QED
      BY <1>0, <2>1, <3>1, <3>2, PathsApart
  <2>2. CASE p \notin ScriptPaths
    <3>1. subject = p /\ script = NoPath
      BY <1>0, <1>a, <1>b, <2>2 DEF SubjectOf, ScriptOf
    <3> QED
      BY <1>0, <2>2, <3>1, PathsApart
  <2> QED
    BY <1>0, <2>1, <2>2
<1>2. subject # HostLd /\ subject # NoPath /\ subject[1] \in Range(Dirs)
  BY <1>0, <1>1, PathsApart
<1>3. PICK F1 : F1 = Ensure(F, {subject})
  OBVIOUS
<1>4. /\ DOMAIN F1 = DOMAIN F \cup {subject} /\ F1[subject] = subject
      /\ \A s \in DOMAIN F : F1[s] = F[s]
  <2>1. DOMAIN F1 = DOMAIN F \cup {subject} /\ \A s \in DOMAIN F : F1[s] = F[s]
    BY <1>0, <1>3 DEF Ensure
  <2>2. CASE subject \in DOMAIN F
    BY <1>0, <1>2, <2>1, <2>2 DEF FilesOk
  <2>3. CASE subject \notin DOMAIN F
    BY <1>0, <1>3, <2>3 DEF Ensure
  <2> QED
    BY <1>0, <2>1, <2>2, <2>3
<1>5. /\ x.subject = subject /\ x.script = script /\ x.phase = "link" /\ x.queue = {subject}
      /\ x.visited = {} /\ x.dirs = {subject[1]} /\ x.cmds = {}
      /\ x.linker = IF subject \in sys.static \cup LibPaths \cup {Ld} THEN NoPath ELSE Ld
  BY <1>0, <1>3, <1>4, <1>c DEF NewFrame, LinkerOf
<1>6. x = [subject |-> subject, script |-> script, phase |-> "link",
           queue |-> {subject}, visited |-> {}, dirs |-> {subject[1]},
           linker |-> x.linker, cmds |-> {}]
  BY <1>0, <1>3, <1>4, <1>c DEF NewFrame
<1>7. x \in Frame
  BY <1>0, <1>1, <1>2, <1>5, <1>6 DEF Frame
<1>8. x.linker = (IF Dynamic(subject) THEN Ld ELSE NoPath) /\ x.linker \in {Ld, NoPath} /\ Ld # NoPath
  BY <1>0, <1>1, <1>5, PathsApart, RootIs DEF Dynamic
<1>9. /\ DOMAIN F1 \subseteq DOMAIN F2 /\ DOMAIN F2 \subseteq DOMAIN F1 \cup {Ld}
      /\ x.linker = Ld => Ld \in DOMAIN F2
      /\ x.linker = NoPath => DOMAIN F2 = DOMAIN F1
      /\ \A s \in DOMAIN F1 : F2[s] = F1[s]
      /\ Ld \in DOMAIN F2 => F2[Ld] = Ld
  <2>1. Ld \in DOMAIN F1 => F1[Ld] = Ld
    BY <1>0, <1>4, PathsApart DEF FilesOk
  <2>2. CASE x.linker = NoPath
    BY <1>0, <1>3, <1>8, <1>d, <2>1, <2>2
  <2>3. CASE x.linker # NoPath
    <3>1. F2 = Ensure(F1, {Ld})
      BY <1>0, <1>3, <1>d, <2>3
    <3>2. DOMAIN F2 = DOMAIN F1 \cup {Ld} /\ \A s \in DOMAIN F1 : F2[s] = F1[s]
      BY <1>0, <3>1 DEF Ensure
    <3>3. F2[Ld] = Ld
      BY <1>0, <2>1, <3>1, <3>2 DEF Ensure
    <3> QED
      BY <1>0, <2>3, <3>2, <3>3
  <2> QED
    BY <1>0, <2>2, <2>3
<1>10. Grows(F, F2, A, A)
  BY <1>0, <1>4, <1>9 DEF Grows
<1>11. FilesOk(F2)
  <2>1. \A s \in DOMAIN F2 : F2[s] = IF s = HostLd THEN Ld ELSE s
    <3> TAKE s \in DOMAIN F2
    <3>1. CASE s \in DOMAIN F
      BY <1>0, <1>4, <1>9, <3>1 DEF FilesOk
    <3>2. CASE s = subject
      BY <1>0, <1>2, <1>4, <1>9, <3>2
    <3>3. CASE s = Ld
      BY <1>0, <1>9, <3>3, PathsApart
    <3> QED
      BY <1>0, <1>4, <1>9, <3>1, <3>2, <3>3
  <2>2. \A s \in DOMAIN F2 \cap LibPaths : sys.at[s] = s
    <3> TAKE s \in DOMAIN F2 \cap LibPaths
    <3>1. s # Ld
      BY <1>0, PathsApart
    <3>2. s \in DOMAIN F \/ s = subject
      BY <1>0, <1>4, <1>9, <3>1
    <3> QED
      BY <1>0, <1>1, <3>2 DEF FilesOk
  <2> QED
    BY <1>0, <2>1, <2>2 DEF FilesOk
<1>12. LinkFrame(F2, A, x)
  <2>1. x.linker = Ld => subject \in Elves
    BY <1>0, <1>1, <1>8 DEF Dynamic, Elves
  <2> QED
    <3>1. x.linker = (IF Dynamic(x.subject) THEN Ld ELSE NoPath)
      BY <1>0, <1>5, <1>8
    <3>2. x.script # NoPath => x.subject = sys.shebang[x.script]
      BY <1>0, <1>1, <1>5
    <3>3. /\ x.queue \cup x.visited = {x.subject} /\ x.queue = {x.subject} /\ x.visited = {}
          /\ x.linker = Ld => Ld \in DOMAIN F2 /\ x.subject \in Elves
          /\ ~Orphan(x.subject)
      BY <1>0, <1>5, <1>9, <1>a, <2>1
    <3> QED
      BY <1>0, <3>1, <3>2, <3>3 DEF LinkFrame
<1>13. FramesOk(stg, F2, A, sc, <<x>> \o S)
  BY <1>0, <1>1, <1>5, <1>7, <1>10, <1>12, FramesPush
<1>14. PlansOk(F2, A, P)
  BY <1>0, <1>10, PlansGrow
<1>15. T = <<x>> \o S
  BY <1>0, <1>d
<1>16. T \in Seq(Frame) /\ T # <<>> /\ T[1] = x
  BY <1>0, <1>7, <1>15, PushIs
<1>17. StubOk(F2, T)
  <2>1. HostLd \in DOMAIN F2 => HostLd \in DOMAIN F
    BY <1>0, <1>2, <1>4, <1>9, PathsApart
  <2>2. CASE x.linker = Ld
    BY <1>0, <1>5, <1>16, <2>1, <2>2 DEF StubOk
  <2>3. CASE x.linker = NoPath
    <3>1. Ld \in DOMAIN F2 => Ld \in DOMAIN F \/ subject = Ld
      BY <1>0, <1>4, <1>9, <2>3
    <3>2. S # <<>> => S[1].phase # "link"
      BY <1>0
    <3> QED
      BY <1>0, <1>1, <2>1, <3>1, <3>2 DEF StubOk, StubBack
  <2> QED
    BY <1>0, <1>8, <2>2, <2>3
<1>18. ProgsOk(F2, T)
  <2> SUFFICES ASSUME NEW q \in DOMAIN F2, Dynamic(q)
               PROVE  \/ Lost(q) \/ LibsOf(q) \subseteq DOMAIN F2
                      \/ T # <<>> /\ T[1].phase = "link" /\ T[1].subject = q /\ q \notin T[1].visited
    BY <1>0 DEF ProgsOk
  <2>1. q # Ld
    BY <1>0, PathsApart DEF Dynamic
  <2>2. CASE q = subject
    BY <1>0, <1>5, <1>16, <2>2
  <2>3. CASE q # subject
    <3>1. q \in DOMAIN F
      BY <1>0, <1>4, <1>9, <2>1, <2>3
    <3>2. Lost(q) \/ LibsOf(q) \subseteq DOMAIN F
      BY <1>0, <3>1 DEF ProgsOk
    <3> QED
      BY <1>0, <1>4, <1>9, <3>2
  <2> QED
    BY <1>0, <2>2, <2>3
<1> QED
  BY <1>0, <1>1, <1>4, <1>5, <1>7, <1>9, <1>10, <1>11, <1>13, <1>14, <1>15, <1>16, <1>17, <1>18, <1>a, <1>b DEF Entered, StateOk

-----------------------------------------------------------------------------
(* Rounds of the search, the end of a binary, the end of the build.         *)

\* What some commands wait for while the stack changes.
LEMMA AwaitedTop ==
  ASSUME NEW S \in Seq(Frame), S # <<>>, NEW x \in Frame,
         x.phase = S[1].phase, x.script = S[1].script, x.cmds = S[1].cmds,
         NEW s, NEW c, Awaited(S, s, c)
  PROVE  Awaited([S EXCEPT ![1] = x], s, c)
<1>1. PICK T : T = [S EXCEPT ![1] = x]
  OBVIOUS
<1>2. /\ Len(T) = Len(S) /\ Len(S) \in Nat \ {0} /\ T[1] = x
      /\ \A i \in 2..Len(S) : T[i] = S[i]
  BY <1>1, TopIs
<1>3. \A i \in 1..Len(S) : i = 1 \/ i \in 2..Len(S)
  BY <1>2
<1>4. \A i \in 1..Len(S) : T[i].phase = S[i].phase /\ T[i].script = S[i].script /\ T[i].cmds = S[i].cmds
  BY <1>2, <1>3
<1>5. 1 \in 1..Len(S)
  BY <1>2
<1>6. Awaited(T, s, c)
  BY <1>2, <1>4, <1>5 DEF Awaited
<1> QED
  BY <1>1, <1>6

\* The innermost activation goes, and c is not the script it was for.
LEMMA AwaitedTail ==
  ASSUME NEW S \in Seq(Frame), S # <<>>, NEW s, NEW c, Awaited(S, s, c),
         S[1].phase = "link" => S[1].script # c, S[1].phase = "scan" => S[1].cmds = {}
  PROVE  Awaited(Tail(S), s, c)
<1>1. PICK T : T = Tail(S)
  OBVIOUS
<1>2. /\ Len(T) = Len(S) - 1 /\ Len(S) \in Nat \ {0} /\ S[1] \in Frame
      /\ \A i \in 1..Len(T) : T[i] = S[i + 1]
  BY <1>1, TailIs
<1>3. PICK i \in 1..Len(S) :
        /\ S[i].phase = "scan" /\ S[i].script = s
        /\ c \in S[i].cmds \/ (c \in ScriptPaths /\ i = 2 /\ S[1].phase = "link" /\ S[1].script = c)
  BY DEF Awaited
<1>4. c \in S[i].cmds
  BY <1>3
<1>5. i # 1
  BY <1>3, <1>4
<1>6. i - 1 \in 1..Len(T) /\ T[i - 1] = S[i]
  BY <1>2, <1>5
<1>7. Awaited(T, s, c)
  BY <1>3, <1>4, <1>6 DEF Awaited
<1> QED
  BY <1>1, <1>7

LEMMA VisitedLibs ==
  ASSUME sys \in System, NEW f \in Elves, ~Breaks(f), NEW q \in LibsOf(f)
  PROVE  q \in LibPaths /\ sys.at[q] = q /\ q # Ld /\ q # HostLd /\ Clean(q)
<1>1. PICK n \in DOMAIN Traced(f) : q = sys.at[Traced(f)[n]] /\ Clean(sys.at[Traced(f)[n]])
  BY DEF LibsOf, FilesOf, Bundled
<1>2. Traced(f)[n] # NoPath
  BY SoundIsComplete, HasFinds
<1>3. q \in LibPaths /\ sys.at[q] = q
  BY <1>1, <1>2, LibsAreFiles
<1> QED
  BY <1>1, <1>3, PathsApart

\* What a list, or a part of it, puts into the bundle.
Gathered(F, A, L, F2, A2) ==
    /\ FilesOk(F2) /\ AliasOk(A2) /\ Grows(F, F2, A, A2)
    /\ DOMAIN F2 = DOMAIN F \cup FilesOf(L) /\ FilesOf(L) \subseteq LibPaths
    /\ A2 \subseteq A \cup (LibPaths \X LibPaths)
    /\ \A q \in FilesOf(L) : F2[q] = q /\ q # Ld /\ q # HostLd

LEMMA GatherGrows ==
  ASSUME sys \in System, NEW F, NEW A, FilesOk(F), AliasOk(A), NEW L, LookedUp(L), ~Missing(L),
         NEW F2, F2 = Ensure(F, FilesOf(L)), NEW A2, A2 = A \cup AliasesOf(L)
  PROVE  Gathered(F, A, L, F2, A2)
<1>1. \A n \in DOMAIN L :
        /\ L[n] \in LibPaths /\ L[n][2] = n /\ sys.at[L[n]] \in LibPaths
        /\ sys.at[sys.at[L[n]]] = sys.at[L[n]]
  BY LookedUpIs DEF Missing, Range
<1>2. PICK R : R = FilesOf(L)
  OBVIOUS
<1>3. \A q \in R : q \in LibPaths /\ sys.at[q] = q /\ q # Ld /\ q # HostLd
  BY <1>1, <1>2, PathsApart DEF FilesOf, Bundled
<1>4. DOMAIN F2 = DOMAIN F \cup R /\ \A s \in DOMAIN F : F2[s] = F[s]
  BY <1>2 DEF Ensure
<1>5. \A q \in R : F2[q] = q
  <2> TAKE q \in R
  <2>1. CASE q \in DOMAIN F
    BY <1>3, <1>4, <2>1 DEF FilesOk
  <2>2. CASE q \notin DOMAIN F
    BY <1>2, <2>2 DEF Ensure
  <2> QED
    BY <2>1, <2>2
<1>6. FilesOk(F2)
  BY <1>3, <1>4, <1>5 DEF FilesOk
<1>7. ASSUME NEW n \in DOMAIN L
      PROVE  \A a \in Aliases(sys.at[L[n]], L[n]) :
               /\ a \in LibPaths \X LibPaths
               /\ a[1] \in LibPaths /\ \E q \in LibPaths : q[2] = a[2][2] /\ sys.at[q] = a[1]
  <2>1. PICK p \in LibPaths, q \in LibPaths : p = L[n] /\ q = sys.at[L[n]]
    BY <1>1
  <2>2. <<q[1], p[2]>> \in LibPaths
    BY PathsApart
  <2>3. \A a \in Aliases(q, p) : a \in LibPaths \X LibPaths /\ a[1] = q /\ a[2][2] = p[2]
    BY <2>2 DEF Aliases
  <2> QED
    BY <2>1, <2>3
<1>8. \A a \in AliasesOf(L) :
        /\ a \in LibPaths \X LibPaths
        /\ a[1] \in LibPaths /\ \E q \in LibPaths : q[2] = a[2][2] /\ sys.at[q] = a[1]
  BY <1>7 DEF AliasesOf, Bundled
<1>9. AliasOk(A2) /\ A2 \subseteq A \cup (LibPaths \X LibPaths)
  BY <1>8 DEF AliasOk
<1>10. Grows(F, F2, A, A2)
  BY <1>4 DEF Grows
<1> QED
  BY <1>2, <1>3, <1>4, <1>5, <1>6, <1>9, <1>10 DEF Gathered

\* A round in which all that the linker lists is dealt with.
ListRound(F, A, x, f, F2, A2, y) ==
    /\ x \in Frame /\ FilesOk(F) /\ AliasOk(A) /\ LinkFrame(F, A, x)
    /\ f \in x.queue /\ f \notin x.visited /\ x.linker = Ld /\ ~Breaks(f)
    /\ F2 = Ensure(F, LibsOf(f)) /\ A2 = A \cup AliasesOf(Traced(f))
    /\ y = [x EXCEPT !.queue = (x.queue \ {f}) \cup LibsOf(f), !.visited = x.visited \cup {f},
                     !.dirs = x.dirs \cup DirsOf(F2, LibsOf(f))]

ListedTo(F, A, x, f, F2, A2, y) ==
    /\ y \in Frame /\ FilesOk(F2) /\ AliasOk(A2) /\ Grows(F, F2, A, A2) /\ LinkFrame(F2, A2, y)
    /\ DOMAIN F2 = DOMAIN F \cup LibsOf(f) /\ LibsOf(f) \subseteq LibPaths
    /\ A2 \subseteq A \cup (LibPaths \X LibPaths)
    /\ y.phase = x.phase /\ y.script = x.script /\ y.cmds = x.cmds
    /\ y.subject = x.subject /\ y.linker = x.linker

LEMMA VisitLists ==
  ASSUME sys \in System, NEW F, NEW A, NEW x, NEW f, NEW F2, NEW A2, NEW y,
         ListRound(F, A, x, f, F2, A2, y)
  PROVE  ListedTo(F, A, x, f, F2, A2, y)
<1>0. /\ x \in Frame /\ FilesOk(F) /\ AliasOk(A) /\ LinkFrame(F, A, x)
      /\ f \in x.queue /\ f \notin x.visited /\ x.linker = Ld /\ ~Breaks(f)
      /\ F2 = Ensure(F, LibsOf(f)) /\ A2 = A \cup AliasesOf(Traced(f))
      /\ y = [x EXCEPT !.queue = (x.queue \ {f}) \cup LibsOf(f), !.visited = x.visited \cup {f},
                       !.dirs = x.dirs \cup DirsOf(F2, LibsOf(f))]
  BY DEF ListRound
<1>1. f \in Elves /\ x.queue \cup x.visited \in SUBSET Elves /\ Dynamic(x.subject)
  BY <1>0, PathsApart DEF LinkFrame
<1>2. PICK L : L = LibsOf(f)
  OBVIOUS
<1>3. LookedUp(Traced(f)) /\ ~Missing(Traced(f))
  BY <1>0, <1>1, TracedIsLookedUp, SoundIsComplete
<1>4. Gathered(F, A, Traced(f), F2, A2)
  BY <1>0, <1>3, GatherGrows DEF LibsOf
<1>5. /\ FilesOk(F2) /\ AliasOk(A2) /\ Grows(F, F2, A, A2)
      /\ DOMAIN F2 = DOMAIN F \cup L /\ L \subseteq LibPaths
      /\ A2 \subseteq A \cup (LibPaths \X LibPaths)
      /\ \A q \in L : F2[q] = q /\ q # Ld /\ q # HostLd
  BY <1>2, <1>4 DEF Gathered, LibsOf
<1>7. \A n \in DOMAIN Traced(f) :
        /\ Traced(f)[n] \in LibPaths /\ Traced(f)[n][2] = n /\ sys.at[Traced(f)[n]] \in LibPaths
  BY <1>1, <1>3, HasFinds, LibsAreFiles
<1>10. PICK D : D = x.dirs \cup DirsOf(F2, L)
  BY <1>0
<1>11. PICK Q : Q = (x.queue \ {f}) \cup L
  BY <1>0
<1>12. y = [x EXCEPT !.queue = Q, !.visited = x.visited \cup {f}, !.dirs = D]
  BY <1>0, <1>2, <1>10, <1>11
<1>13. /\ y.queue = Q /\ y.visited = x.visited \cup {f} /\ y.dirs = D
       /\ y.subject = x.subject /\ y.script = x.script /\ y.phase = x.phase
       /\ y.linker = x.linker /\ y.cmds = x.cmds
  BY <1>0, <1>12 DEF Frame
<1>14. D \in SUBSET Range(Dirs) /\ \A q \in L : q[1] \in D
  <2>1. \A q \in L : F2[q][1] = q[1] /\ q[1] \in Range(Dirs)
    BY <1>5, PathsApart
  <2>2. x.dirs \in SUBSET Range(Dirs)
    BY <1>0, FrameFields
  <2> QED
    BY <1>0, <1>10, <2>1, <2>2 DEF DirsOf
<1>15. y \in Frame
  <2>1. Q \in SUBSET (Elves \cup {Ld}) /\ x.visited \cup {f} \in SUBSET (Elves \cup {Ld})
    BY <1>0, <1>1, <1>5, <1>11, PathsApart
  <2> QED
    BY <1>0, <1>12, <1>14, <2>1 DEF Frame
<1>16. Has(F2, A2, f, D)
  <2> SUFFICES ASSUME NEW n \in DOMAIN Traced(f), NEW q, q = sys.at[Traced(f)[n]], Clean(q)
               PROVE  q \in DOMAIN F2 /\ q[1] \in D /\ (q = <<q[1], n>> \/ <<q, <<q[1], n>>>> \in A2)
    BY <1>0 DEF Has
  <2>1. q \in L
    BY <1>2 DEF LibsOf, FilesOf, Bundled
  <2>2. q = <<q[1], n>> \/ <<q, <<q[1], n>>>> \in A2
    <3> SUFFICES ASSUME q # <<q[1], n>> PROVE <<q, <<q[1], n>>>> \in A2
      BY <1>0
    <3>1. Traced(f)[n][2] = n
      BY <1>0, <1>7
    <3>2. <<q, <<q[1], n>>>> \in Aliases(q, Traced(f)[n])
      BY <1>0, <3>1 DEF Aliases
    <3>3. Aliases(q, Traced(f)[n]) \subseteq A2
      BY <1>0 DEF AliasesOf, Bundled
    <3> QED
      BY <1>0, <3>2, <3>3
  <2> QED
    BY <1>5, <1>14, <2>1, <2>2
<1>17. \A g \in x.visited : Has(F2, A2, g, D)
  <2> TAKE g \in x.visited
  <2>1. g \in Elves /\ Has(F, A, g, x.dirs)
    BY <1>0, <1>1 DEF LinkFrame
  <2>2. x.dirs \subseteq D
    BY <1>0, <1>10
  <2> QED
    BY <1>5, <2>1, <2>2, HasGrows
<1>18. LinkFrame(F2, A2, y)
  <2>1. /\ y.linker = IF Dynamic(y.subject) THEN Ld ELSE NoPath
        /\ y.script # NoPath => y.subject = sys.shebang[y.script]
    BY <1>0, <1>13 DEF LinkFrame
  <2>2. Ld \in DOMAIN F2 /\ ~Orphan(y.subject)
    BY <1>0, <1>5, <1>13 DEF LinkFrame
  <2>3. y.queue \cup y.visited = x.queue \cup x.visited \cup L
    BY <1>0, <1>11, <1>13
  <2>4. y.queue \cup y.visited \in SUBSET Elves
    BY <1>1, <1>5, <2>3, PathsApart
  <2>5. y.subject \in y.queue \cup y.visited
    BY <1>0, <1>13, <2>3 DEF LinkFrame
  <2>6. y.subject \in y.visited
    <3>1. x.subject \notin x.visited => x.queue = {x.subject}
      BY <1>0 DEF LinkFrame
    <3> QED
      BY <1>0, <1>13, <3>1
  <2>7. \A g \in y.visited : Has(F2, A2, g, y.dirs) /\ LibsOf(g) \subseteq y.queue \cup y.visited
    <3> TAKE g \in y.visited
    <3>1. CASE g = f
      BY <1>2, <1>13, <1>16, <2>3, <3>1
    <3>2. CASE g # f
      <4>1. g \in x.visited
        BY <1>0, <1>13, <3>2
      <4>2. LibsOf(g) \subseteq x.queue \cup x.visited
        BY <1>0, <4>1 DEF LinkFrame
      <4> QED
        BY <1>0, <1>13, <1>17, <2>3, <4>1, <4>2
    <3> QED
      BY <1>0, <3>1, <3>2
  <2>8. ASSUME NEW V \in SUBSET Elves, y.subject \in V, Closed(V)
        PROVE  y.queue \cup y.visited \subseteq V
    <3>1. x.queue \cup x.visited \subseteq V
      BY <1>0, <1>13, <2>8 DEF LinkFrame
    <3>2. L \subseteq V
      BY <1>0, <1>2, <2>8, <3>1 DEF Closed
    <3> QED
      BY <1>0, <2>3, <3>1, <3>2
  <2> QED
    BY <1>0, <2>1, <2>2, <2>4, <2>5, <2>6, <2>7, <2>8 DEF LinkFrame
<1> QED
  BY <1>2, <1>5, <1>13, <1>15, <1>18 DEF ListedTo

\* A round for which the linker is not run.
SkipRound(F, A, x, f, y) ==
    /\ x \in Frame /\ LinkFrame(F, A, x) /\ f \in x.queue /\ (f \in x.visited \/ x.linker = NoPath)
    /\ y = [x EXCEPT !.queue = x.queue \ {f}, !.visited = x.visited \cup {f}, !.dirs = x.dirs]

Skipped(F, A, x, y) ==
    /\ y \in Frame /\ LinkFrame(F, A, y)
    /\ y.phase = x.phase /\ y.script = x.script /\ y.cmds = x.cmds
    /\ y.subject = x.subject /\ y.linker = x.linker
    /\ Dynamic(x.subject) => x.subject \in x.visited

LEMMA VisitSkips ==
  ASSUME sys \in System, NEW F, NEW A, NEW x, NEW f, NEW y, SkipRound(F, A, x, f, y)
  PROVE  Skipped(F, A, x, y)
<1>0. /\ x \in Frame /\ LinkFrame(F, A, x) /\ f \in x.queue /\ (f \in x.visited \/ x.linker = NoPath)
      /\ y = [x EXCEPT !.queue = x.queue \ {f}, !.visited = x.visited \cup {f}, !.dirs = x.dirs]
  BY DEF SkipRound
<1>1. /\ y.queue = x.queue \ {f} /\ y.visited = x.visited \cup {f} /\ y.dirs = x.dirs
      /\ y.subject = x.subject /\ y.script = x.script /\ y.phase = x.phase
      /\ y.linker = x.linker /\ y.cmds = x.cmds
  BY <1>0 DEF Frame
<1>2. y \in Frame
  BY <1>0 DEF Frame
<1>3. Ld # NoPath
  BY PathsApart
<1>4. x.linker = Ld => y.queue \cup y.visited = x.queue \cup x.visited /\ y.visited = x.visited
  BY <1>0, <1>1, <1>3
<1>5. x.linker = Ld => y.subject \in y.visited
  <2>1. x.linker = Ld /\ x.subject \notin x.visited => x.queue = {x.subject}
    BY <1>0 DEF LinkFrame
  <2> QED
    BY <1>0, <1>1, <2>1
<1>6. LinkFrame(F, A, y)
  BY <1>0, <1>1, <1>4, <1>5 DEF LinkFrame
<1>7. Dynamic(x.subject) => x.linker = Ld
  BY <1>0 DEF LinkFrame
<1> QED
  BY <1>1, <1>2, <1>4, <1>5, <1>6, <1>7 DEF Skipped

\* A round that breaks off: nothing that can be listed, libraries included, can
\* have led here; and a stub is put back, as it lists nothing.
LEMMA VisitBreaks ==
  ASSUME sys \in System, NEW F, NEW A, NEW x \in Frame, LinkFrame(F, A, x),
         NEW f \in x.queue, x.linker = Ld, Breaks(f)
  PROVE  /\ Dynamic(x.subject) /\ ~Good(x.subject)
         /\ x.subject \notin x.visited => Lost(x.subject)
         /\ sys.stub => StubBack
<1>1. Dynamic(x.subject) /\ ~Orphan(x.subject) /\ x.subject \in Elves
  BY PathsApart DEF LinkFrame, Dynamic
<1>2. ASSUME NEW V \in SUBSET Elves, x.subject \in V, Closed(V) PROVE FALSE
  <2>1. f \in V
    BY <1>2 DEF LinkFrame
  <2> QED
    BY <1>2, <2>1 DEF Closed
<1>3. x.subject \notin x.visited => x.queue = {x.subject}
  BY DEF LinkFrame
<1>4. sys.stub => StubBack
  <2> SUFFICES ASSUME sys.stub PROVE StubBack
    OBVIOUS
  <2>1. Breaks(x.subject)
    <3>1. CASE Breaks(x.subject)
      BY <3>1
    <3>2. CASE ~Breaks(x.subject)
      <4>1. Closed({x.subject})
        BY <3>2, StubListsNothing DEF Closed
      <4> QED
        BY <1>1, <1>2, <4>1
    <3> QED
      BY <3>1, <3>2
  <2>2. x.subject \in ProgPaths \ (sys.static \cup sys.orphans)
    BY <1>1, PathsApart DEF Dynamic, Orphan, LinkerOf
  <2> QED
    BY <2>1, <2>2 DEF StubBack
<1> QED
  BY <1>1, <1>2, <1>3, <1>4 DEF Good, Lost

Subst(x) == x.linker = Ld /\ sys.stub /\ sys.hostLd
FilesAtEnd(F, x) == IF Subst(x) THEN InPlaceOfStub(F) ELSE F

BinaryEnd(F, A, x, F2, y) ==
    /\ x \in Frame /\ FilesOk(F) /\ LinkFrame(F, A, x) /\ x.queue = {}
    /\ F2 = IF x.script = NoPath THEN FilesAtEnd(F, x) ELSE Ensure(FilesAtEnd(F, x), {x.script})
    /\ y = [x EXCEPT !.linker = IF Subst(x) THEN HostLd ELSE IF sys.stub THEN NoPath ELSE x.linker]

BinaryEnded(F, A, x, F2, y) ==
    /\ y \in Frame /\ FilesOk(F2) /\ Grows(F, F2, A, A) /\ Done(F2, A, y)
    /\ y.subject = x.subject /\ y.dirs = x.dirs /\ y.script = x.script
    /\ x.script # NoPath => x.script \in DOMAIN F2
    /\ DOMAIN F2 \subseteq DOMAIN F \cup {HostLd} \cup ScriptPaths
    /\ HostLd \in DOMAIN F2 => HostLd \in DOMAIN F \/ Subst(x)
    /\ Ld \in DOMAIN F2 => Ld \in DOMAIN F /\ ~Subst(x)
    /\ Dynamic(x.subject) => x.subject \in x.visited

\* The queue is empty: what was visited is closed, and the linker is there.
LEMMA EndsBinary ==
  ASSUME sys \in System, NEW F, NEW A, NEW x, NEW F2, NEW y, BinaryEnd(F, A, x, F2, y)
  PROVE  BinaryEnded(F, A, x, F2, y)
<1>a. PICK subst \in BOOLEAN : subst <=> Subst(x)
  OBVIOUS
<1>b. PICK F1 : F1 = (IF subst THEN InPlaceOfStub(F) ELSE F)
  OBVIOUS
<1>c. PICK k : k = (IF subst THEN HostLd ELSE IF sys.stub THEN NoPath ELSE x.linker)
  OBVIOUS
<1>0. /\ x \in Frame /\ FilesOk(F) /\ LinkFrame(F, A, x) /\ x.queue = {}
      /\ subst <=> (x.linker = Ld /\ sys.stub /\ sys.hostLd)
      /\ F1 = (IF subst THEN InPlaceOfStub(F) ELSE F)
      /\ F2 = (IF x.script = NoPath THEN F1 ELSE Ensure(F1, {x.script}))
      /\ k = (IF subst THEN HostLd ELSE IF sys.stub THEN NoPath ELSE x.linker)
      /\ y = [x EXCEPT !.linker = k]
  BY <1>a, <1>b, <1>c DEF BinaryEnd, FilesAtEnd, Subst
<1>1. /\ x.script \in ScriptPaths \cup {NoPath} /\ x.linker \in {Ld, HostLd, NoPath}
      /\ x.linker = (IF Dynamic(x.subject) THEN Ld ELSE NoPath)
  BY <1>0, FrameFields DEF LinkFrame
<1>2. /\ Ld # HostLd /\ Ld # NoPath /\ HostLd # NoPath
      /\ Ld \notin ScriptPaths /\ HostLd \notin ScriptPaths /\ Ld \notin LibPaths /\ HostLd \notin LibPaths
      /\ LibPaths \cap ScriptPaths = {}
  BY <1>0, PathsApart
<1>3. /\ DOMAIN F1 = IF subst THEN (DOMAIN F \ {Ld}) \cup {HostLd} ELSE DOMAIN F
      /\ \A s \in DOMAIN F1 : F1[s] = IF s = HostLd THEN Ld ELSE s
  <2>1. CASE subst
    <3>1. DestOfLd(F) = Ld
      BY <1>0, <1>2 DEF DestOfLd, FilesOk
    <3>2. F1 = [s \in (DOMAIN F \ {Ld}) \cup {HostLd} |-> IF s = HostLd THEN Ld ELSE F[s]]
      BY <1>0, <2>1, <3>1 DEF InPlaceOfStub
    <3> QED
      BY <1>0, <2>1, <3>2 DEF FilesOk
  <2>2. CASE ~subst
    BY <1>0, <2>2 DEF FilesOk
  <2> QED
    BY <1>0, <2>1, <2>2
<1>4. /\ DOMAIN F2 = DOMAIN F1 \cup ({x.script} \ {NoPath})
      /\ \A s \in DOMAIN F2 : F2[s] = IF s = HostLd THEN Ld ELSE s
  <2>1. CASE x.script = NoPath
    <3>1. F2 = F1 /\ {x.script} \ {NoPath} = {}
      BY <1>0, <2>1
    <3> QED
      BY <1>0, <1>3, <3>1
  <2>2. CASE x.script # NoPath
    <3>1. F2 = Ensure(F1, {x.script})
      BY <1>0, <2>2
    <3>2. DOMAIN F2 = DOMAIN F1 \cup {x.script} /\ \A s \in DOMAIN F1 : F2[s] = F1[s]
      BY <1>0, <3>1 DEF Ensure
    <3>3. x.script \notin DOMAIN F1 => F2[x.script] = x.script
      BY <1>0, <3>1 DEF Ensure
    <3> QED
      BY <1>1, <1>2, <1>3, <2>2, <3>2, <3>3
  <2> QED
    BY <1>0, <2>1, <2>2
<1>5. FilesOk(F2)
  <2>1. \A s \in DOMAIN F2 \cap LibPaths : s \in DOMAIN F
    BY <1>0, <1>1, <1>2, <1>3, <1>4
  <2> QED
    BY <1>0, <1>4, <2>1 DEF FilesOk
<1>6. Grows(F, F2, A, A)
  BY <1>0, <1>3, <1>4 DEF Grows
<1>7. /\ y.subject = x.subject /\ y.dirs = x.dirs /\ y.linker = k /\ k \in {Ld, HostLd, NoPath}
      /\ y \in Frame
  BY <1>0, <1>1 DEF Frame
<1>8. x.linker = Ld =>
        /\ Dynamic(x.subject) /\ x.subject \in x.visited /\ x.visited \in SUBSET Elves
        /\ \A f \in x.visited : Has(F, A, f, x.dirs) /\ LibsOf(f) \subseteq x.visited
        /\ Ld \in DOMAIN F /\ ~Orphan(x.subject)
  BY <1>0, <1>1, <1>2 DEF LinkFrame
<1>9. Done(F2, A, y)
  <2>1. LinkerThere(F2, y.linker)
    <3>1. CASE subst
      BY <1>0, <1>2, <1>3, <1>4, <1>7, <3>1 DEF LinkerThere
    <3>2. CASE ~subst /\ ~sys.stub
      BY <1>0, <1>1, <1>2, <1>3, <1>4, <1>7, <1>8, <3>2 DEF LinkerThere
    <3>3. CASE ~subst /\ sys.stub
      BY <1>0, <1>2, <1>7, <3>3 DEF LinkerThere
    <3> QED
      BY <1>0, <3>1, <3>2, <3>3
  <2>2. y.linker # NoPath => x.linker = Ld
    BY <1>0, <1>1, <1>2, <1>7
  <2>3. x.linker = Ld => Has(F2, A, x.subject, x.dirs)
    BY <1>0, <1>6, <1>8, HasGrows
  <2>4. Dynamic(x.subject) => Good(x.subject)
    <3> SUFFICES ASSUME Dynamic(x.subject) PROVE Good(x.subject)
      OBVIOUS
    <3>1. x.linker = Ld
      BY <1>0, <1>1
    <3>2. Closed(x.visited)
      BY <1>0, <1>8, <3>1 DEF Closed, Has
    <3> QED
      BY <1>0, <1>8, <3>1, <3>2 DEF Good
  <2> QED
    BY <1>0, <1>7, <1>8, <2>1, <2>2, <2>3, <2>4 DEF Done
<1>10. y.script = x.script
  BY <1>0 DEF Frame
<1> QED
  BY <1>0, <1>1, <1>2, <1>3, <1>4, <1>5, <1>6, <1>7, <1>8, <1>9, <1>10 DEF BinaryEnded, Subst

LEMMA KeptIs ==
  ASSUME NEW F
  PROVE  /\ \A s \in DOMAIN Kept(F) : s \in DOMAIN F /\ Kept(F)[s] = F[s]
         /\ \A s \in DOMAIN F : Clean(s) /\ s \notin {Ld, HostLd} => s \in DOMAIN Kept(F)
         /\ Ld \in DOMAIN F /\ HostLd \notin DOMAIN F => Ld \in DOMAIN Kept(F)
         /\ HostLd \in DOMAIN F => HostLd \in DOMAIN Kept(F) \/ (sys.before /\ Ld \in DOMAIN F)
<1>1. PICK loser : loser = (IF ~({Ld, HostLd} \subseteq DOMAIN F /\ F[Ld] = F[HostLd]) THEN {}
                            ELSE IF sys.before THEN {HostLd} ELSE {Ld})
  OBVIOUS
<1>2. Kept(F) = [s \in {c \in DOMAIN F : Clean(c)} \ loser |-> F[s]]
  BY <1>1 DEF Kept
<1>3. Clean(Ld) /\ Clean(HostLd) /\ Ld # HostLd
  BY PathsApart
<1>4. DOMAIN Kept(F) = {c \in DOMAIN F : Clean(c)} \ loser /\ loser \subseteq {Ld, HostLd}
  BY <1>1, <1>2
<1>5. Ld \in DOMAIN F /\ HostLd \notin DOMAIN F => Ld \in DOMAIN Kept(F)
  BY <1>1, <1>3, <1>4
<1>6. HostLd \in DOMAIN F => HostLd \in DOMAIN Kept(F) \/ (sys.before /\ Ld \in DOMAIN F)
  BY <1>1, <1>3, <1>4
<1> QED
  BY <1>2, <1>4, <1>5, <1>6

\* What is kept is what was promised: only linkers lose to each other.
LEMMA FinishEnds ==
  ASSUME sys \in System, NEW stg, NEW td, NEW F, NEW A, NEW sc, NEW P \in Seq(Plan),
         sc \in SUBSET ScriptPaths, BuildOk(stg, td, <<>>, F, A, sc, P)
  PROVE  EndOk(Kept(F), A, sc, P)
<1>1. /\ FilesOk(F) /\ StubOk(F, <<>>) /\ AliasOk(A) /\ PlansOk(F, A, P) /\ ProgsOk(F, <<>>)
      /\ ScansOk(F, <<>>, sc)
  BY DEF BuildOk
<1>2. PICK K : K = Kept(F)
  OBVIOUS
<1>3. /\ \A s \in DOMAIN K : s \in DOMAIN F /\ K[s] = F[s]
      /\ \A s \in DOMAIN F : Clean(s) /\ s \notin {Ld, HostLd} => s \in DOMAIN K
      /\ Ld \in DOMAIN F /\ HostLd \notin DOMAIN F => Ld \in DOMAIN K
      /\ HostLd \in DOMAIN F => HostLd \in DOMAIN K \/ (sys.before /\ Ld \in DOMAIN F)
  BY <1>2, KeptIs
<1>4. FilesOk(K)
  BY <1>1, <1>3 DEF FilesOk
<1>5. ASSUME NEW i \in 1..Len(P)
      PROVE  /\ P[i].linker # NoPath =>
                  /\ Dynamic(P[i].subject) /\ Has(K, A, P[i].subject, P[i].dirs)
                  /\ P[i].linker \in DOMAIN K
                       \/ (P[i].linker = HostLd /\ sys.before /\ StubBack)
             /\ Dynamic(P[i].subject) => Good(P[i].subject)
  <2>1. PICK x \in Plan : x = P[i]
    OBVIOUS
  <2>2. Done(F, A, x)
    BY <1>1, <2>1 DEF PlansOk
  <2>3. x.linker \in {Ld, HostLd, NoPath}
    BY PlanFields
  <2>4. ASSUME x.linker # NoPath PROVE Dynamic(x.subject) /\ Has(K, A, x.subject, x.dirs)
    <3>1. Dynamic(x.subject) /\ Has(F, A, x.subject, x.dirs) /\ x.subject \in Elves
      BY <2>2, <2>4, PathsApart DEF Done, Dynamic
    <3>2. ~Breaks(x.subject)
      BY <3>1 DEF Has
    <3>3. ASSUME NEW n \in DOMAIN Traced(x.subject), NEW q, q = sys.at[Traced(x.subject)[n]], Clean(q)
          PROVE  q \in DOMAIN K /\ q[1] \in x.dirs /\ (q = <<q[1], n>> \/ <<q, <<q[1], n>>>> \in A)
      <4>1. q \in DOMAIN F /\ q[1] \in x.dirs /\ (q = <<q[1], n>> \/ <<q, <<q[1], n>>>> \in A)
        BY <3>1, <3>3 DEF Has
      <4>2. q \in LibsOf(x.subject)
        BY <3>3 DEF LibsOf, FilesOf, Bundled
      <4>3. q \notin {Ld, HostLd}
        BY <3>1, <3>2, <4>2, VisitedLibs
      <4> QED
        BY <1>3, <3>3, <4>1, <4>3
    <3> QED
      BY <3>1, <3>2, <3>3 DEF Has
  <2>5. CASE x.linker = Ld
    <3>1. ~sys.stub /\ Ld \in DOMAIN F
      BY <2>2, <2>5 DEF Done, LinkerThere
    <3>2. HostLd \notin DOMAIN F
      BY <1>1, <3>1 DEF StubOk
    <3> QED
      BY <1>3, <2>1, <2>2, <2>4, <2>5, <3>1, <3>2 DEF Done
  <2>6. CASE x.linker = HostLd
    <3>1. sys.stub /\ sys.hostLd /\ HostLd \in DOMAIN F
      BY <2>2, <2>6 DEF Done, LinkerThere
    <3>2. Ld \in DOMAIN F => StubBack
      BY <1>1, <3>1 DEF StubOk
    <3> QED
      BY <1>3, <2>1, <2>2, <2>4, <2>6, <3>1, <3>2 DEF Done
  <2>7. CASE x.linker = NoPath
    BY <2>1, <2>2, <2>7 DEF Done
  <2> QED
    BY <2>3, <2>5, <2>6, <2>7
<1>6. ASSUME NEW p \in DOMAIN K, Dynamic(p), ~Lost(p) PROVE LibsOf(p) \subseteq DOMAIN K
  <2>1. p \in DOMAIN F /\ p \in Elves
    BY <1>3, <1>6, PathsApart DEF Dynamic
  <2>2. LibsOf(p) \subseteq DOMAIN F
    BY <1>1, <1>6, <2>1 DEF ProgsOk
  <2>3. ~Breaks(p)
    BY <1>6 DEF Lost
  <2> QED
    BY <1>3, <2>1, <2>2, <2>3, VisitedLibs
<1>7. ASSUME NEW s \in sc, NEW c \in sys.calls[s], Clean(c) PROVE Settled(K, c)
  <2>1. Settled(F, c)
    <3>1. ~Awaited(<<>>, s, c)
      BY DEF Awaited
    <3> QED
      BY <1>1, <3>1 DEF ScansOk
  <2>2. c \in ProgPaths \cup ScriptPaths
    BY RootIs
  <2>3. c \notin {Ld, HostLd}
    BY <2>2, PathsApart
  <2> QED
    BY <1>3, <1>7, <2>1, <2>3 DEF Settled
<1>8. EndOk(K, A, sc, P)
  BY <1>1, <1>4, <1>5, <1>6, <1>7 DEF EndOk
<1> QED
  BY <1>2, <1>8

-----------------------------------------------------------------------------
(* The invariant, step by step.                                             *)

\* Destinations follow from FilesOk.
LEMMA BuildTypes ==
  ASSUME TypeOK, sys' = sys, stage' \in {"entries", "traced", "done", "failed"},
         todo' \in Seq(Elves \cup ScriptPaths \cup {Ld}), stack' \in Seq(Frame),
         FilesOk(files'), DOMAIN files' \subseteq Sources, aliases' \subseteq Sources \X Places,
         scanned' \subseteq ScriptPaths, plans' \in Seq(Plan)
  PROVE  TypeOK'
<1>1. Range(files') \subseteq Places
  BY PathsApart DEF FilesOk, Range, Places, Sources
<1> QED
  BY <1>1 DEF TypeOK

LEMMA InvHolds ==
  ASSUME sys' = sys, TypeOK', stage' \in {"entries", "traced"},
         BuildOk(stage', todo', stack', files', aliases', scanned', plans')
  PROVE  ClosureInv'
BY SameBuild DEF ClosureInv, Building

LEMMA InvFails ==
  ASSUME TypeOK', stage' = "failed", stack' = <<>>
  PROVE  ClosureInv'
BY DEF ClosureInv, Building

LEMMA InvParts ==
  ASSUME ClosureInv, Building
  PROVE  /\ TypeOK /\ sys \in System /\ stack \in Seq(Frame) /\ plans \in Seq(Plan)
         /\ FilesOk(files) /\ StubOk(files, stack) /\ AliasOk(aliases) /\ TodoOk(stage, todo)
         /\ FramesOk(stage, files, aliases, scanned, stack) /\ PlansOk(files, aliases, plans)
         /\ ProgsOk(files, stack) /\ ScansOk(files, stack, scanned)
         /\ stage \in {"entries", "traced"}
BY PlansTyped DEF ClosureInv, BuildOk, Building

LEMMA EnterIs ==
  ASSUME NEW p, NEW below, Enter(p, below)
  PROVE  IF Orphan(SubjectOf(p))
         THEN files' = Ensure(files, {SubjectOf(p)}) /\ Break(below)
         ELSE /\ files' = FilesWith(p, files) /\ stack' = <<FrameOf(p, files)>> \o below
              /\ stage' = stage
BY DEF Enter, FilesWith, FrameOf, SubjectOf, ScriptOf

LEMMA CallsAre ==
  ASSUME sys \in System, NEW s \in ScriptPaths, NEW c \in sys.calls[s]
  PROVE  c \in ProgPaths \cup ScriptPaths
BY RootIs

\* Before the first entry.
LEMMA InitInv == Init => ClosureInv
<1> SUFFICES ASSUME Init PROVE ClosureInv
  OBVIOUS
<1>1. /\ sys \in System /\ stage = "entries" /\ todo = sys.entries
      /\ stack = <<>> /\ plans = <<>> /\ files = <<>> /\ aliases = {} /\ scanned = {}
  BY FamiliesAreKnown DEF Init
<1>2. DOMAIN files = {} /\ stack \in Seq(Frame) /\ plans \in Seq(Plan) /\ Len(plans) = 0 /\ Len(stack) = 0
  BY <1>1
<1>3. todo \in Seq(ProgPaths \cup ScriptPaths)
  BY <1>1, RootIs
<1>4. TypeOK
  <2>1. todo \in Seq(Elves \cup ScriptPaths \cup {Ld})
    BY <1>3 DEF Elves
  <2> QED
    BY <1>1, <1>2, <2>1 DEF TypeOK, Range
<1>5. /\ FilesOk(files) /\ StubOk(files, stack) /\ AliasOk(aliases) /\ PlansOk(files, aliases, plans)
      /\ ProgsOk(files, stack) /\ ScansOk(files, stack, scanned)
  BY <1>1, <1>2 DEF FilesOk, StubOk, AliasOk, PlansOk, ProgsOk, ScansOk
<1>6. TodoOk(stage, todo)
  BY <1>1, <1>3 DEF TodoOk
<1>7. FramesOk(stage, files, aliases, scanned, stack)
  BY <1>1, <1>2 DEF FramesOk
<1> QED
  BY <1>1, <1>4, <1>5, <1>6, <1>7 DEF ClosureInv, BuildOk, Building

\* The next path, when nothing is active.
LEMMA BeginKeeps == ClosureInv /\ Begin => ClosureInv'
<1> SUFFICES ASSUME ClosureInv, Begin PROVE ClosureInv'
  OBVIOUS
<1>1. /\ stack = <<>> /\ todo # <<>> /\ todo' = Tail(todo) /\ Building
      /\ UNCHANGED <<sys, aliases, scanned, plans>>
  BY DEF Begin, Building
<1>2. /\ TypeOK /\ sys \in System /\ stack \in Seq(Frame) /\ plans \in Seq(Plan)
      /\ FilesOk(files) /\ StubOk(files, stack) /\ AliasOk(aliases) /\ TodoOk(stage, todo)
      /\ FramesOk(stage, files, aliases, scanned, stack) /\ PlansOk(files, aliases, plans)
      /\ ProgsOk(files, stack) /\ ScansOk(files, stack, scanned)
      /\ stage \in {"entries", "traced"}
  BY <1>1, InvParts
<1>3. /\ todo \in Seq(Elves \cup ScriptPaths \cup {Ld}) /\ DOMAIN files \subseteq Sources
      /\ aliases \subseteq Sources \X Places /\ scanned \subseteq ScriptPaths
  BY <1>2 DEF TypeOK
<1>4. PICK p \in Elves \cup ScriptPaths \cup {Ld} : p = Head(todo) /\ p = todo[1] /\ 1 \in 1..Len(todo)
  BY <1>1, <1>3
<1>5. todo' \in Seq(Elves \cup ScriptPaths \cup {Ld}) /\ TodoOk(stage, todo')
  <2>1. /\ todo' \in Seq(Elves \cup ScriptPaths \cup {Ld}) /\ Len(todo') = Len(todo) - 1
        /\ \A i \in 1..Len(todo') : todo'[i] = todo[i + 1] /\ i + 1 \in 1..Len(todo)
    BY <1>1, <1>3
  <2> QED
    BY <1>2, <2>1 DEF TodoOk
<1>6. CASE ~Plannable(p)
  <2>1. stage' = "failed" /\ stack' = <<>> /\ files' = files
    BY <1>4, <1>6 DEF Begin, Break
  <2>2. TypeOK'
    BY <1>1, <1>2, <1>3, <1>5, <2>1, BuildTypes
  <2> QED
    BY <2>1, <2>2, InvFails
<1>a. Ready(stage, stack, files, aliases, scanned, plans)
  BY <1>1, <1>2 DEF Ready, StateOk
<1>b. CASE Plannable(p) /\ Orphan(SubjectOf(p))
  <2>1. Enter(p, <<>>)
    BY <1>4, <1>b DEF Begin
  <2>2. files' = Ensure(files, {SubjectOf(p)}) /\ Break(<<>>)
    BY <1>b, <2>1, EnterIs
  <2>3. stage' = "failed" /\ stack' = <<>>
    BY <2>2 DEF Break
  <2>4. Strayed(stage, stack, files, files', aliases, scanned, plans, p)
    BY <1>4, <1>a, <1>b, <2>2, OrphanStays
  <2>5. FilesOk(files') /\ DOMAIN files' \subseteq Sources
    BY <1>3, <2>4 DEF Strayed, StateOk, Sources
  <2>6. TypeOK'
    BY <1>1, <1>2, <1>3, <1>5, <2>3, <2>5, BuildTypes
  <2> QED
    BY <2>3, <2>6, InvFails
<1>7. CASE Plannable(p) /\ ~Orphan(SubjectOf(p))
  <2>0. Enter(p, <<>>)
    BY <1>4, <1>7 DEF Begin
  <2>1. stage' = stage
    BY <1>7, <2>0, EnterIs
  <2>2. files' = FilesWith(p, files) /\ stack' = <<FrameOf(p, files)>> \o stack
    BY <1>1, <1>7, <2>0, EnterIs
  <2>6. /\ p = Ld => Ld \in Range(sys.traced)
        /\ p \in LibPaths => sys.at[p] = p
        /\ stage = "entries" => p \in ProgPaths \cup ScriptPaths
    <3>1. CASE stage = "entries"
      <4>1. p \in ProgPaths \cup ScriptPaths
        BY <1>2, <1>4, <3>1 DEF TodoOk
      <4> QED
        BY <4>1, PathsApart
    <3>2. CASE stage = "traced"
      <4>1. p \in Range(sys.traced)
        BY <1>2, <1>4, <3>2 DEF TodoOk
      <4> QED
        BY <1>2, <3>2, <4>1, RootIs
    <3> QED
      BY <1>2, <3>1, <3>2
  <2>7. /\ stack' \in Seq(Frame) /\ FilesOk(files') /\ StubOk(files', stack')
        /\ FramesOk(stage, files', aliases, scanned, stack') /\ PlansOk(files', aliases, plans)
        /\ ProgsOk(files', stack') /\ Grows(files, files', aliases, aliases)
        /\ DOMAIN files' \subseteq DOMAIN files \cup Elves \cup {Ld}
    <3>1. Enterable(stage, p)
      BY <1>7, <2>6 DEF Enterable
    <3>2. Entered(stage, stack', files', stack, files, aliases, scanned, plans, p)
      BY <1>a, <2>2, <3>1, EnterOk
    <3> QED
      BY <3>2 DEF Entered, StateOk
  <2>8. ScansOk(files', stack', scanned)
    <3> SUFFICES ASSUME NEW s \in scanned, NEW c \in sys.calls[s] PROVE Settled(files', c)
      BY DEF ScansOk
    <3>1. ~Awaited(stack, s, c)
      BY <1>1 DEF Awaited
    <3>2. Settled(files, c)
      BY <1>2, <3>1 DEF ScansOk
    <3>3. c \in ProgPaths \cup ScriptPaths
      BY <1>2, <1>3, CallsAre
    <3> QED
      BY <2>7, <3>2, <3>3, SettledGrows
  <2>9. DOMAIN files' \subseteq Sources
    BY <1>3, <2>7 DEF Sources
  <2>10. BuildOk(stage', todo', stack', files', aliases', scanned', plans')
    BY <1>1, <1>2, <1>5, <2>1, <2>7, <2>8 DEF BuildOk
  <2>11. TypeOK'
    BY <1>1, <1>2, <1>3, <1>5, <2>1, <2>7, <2>9, BuildTypes
  <2> QED
    BY <1>1, <1>2, <2>1, <2>10, <2>11, InvHolds
<1> QED
  BY <1>6, <1>7, <1>b

LEMMA ScansTop ==
  ASSUME sys \in System, NEW S \in Seq(Frame), S # <<>>, NEW x \in Frame,
         x.phase = S[1].phase, x.script = S[1].script, x.cmds = S[1].cmds,
         NEW F, NEW F2, NEW A, NEW A2, Grows(F, F2, A, A2),
         NEW sc \in SUBSET ScriptPaths, ScansOk(F, S, sc)
  PROVE  ScansOk(F2, [S EXCEPT ![1] = x], sc)
<1>1. PICK T : T = [S EXCEPT ![1] = x]
  OBVIOUS
<1>2. ASSUME NEW s \in sc, NEW c \in sys.calls[s] PROVE Settled(F2, c) \/ Awaited(T, s, c)
  <2>1. CASE Settled(F, c)
    <3>1. c \in ProgPaths \cup ScriptPaths
      BY CallsAre
    <3> QED
      BY <2>1, <3>1, SettledGrows
  <2>2. CASE Awaited(S, s, c)
    BY <1>1, <2>2, AwaitedTop
  <2> QED
    BY <2>1, <2>2 DEF ScansOk
<1>3. ScansOk(F2, T, sc)
  BY <1>2 DEF ScansOk
<1> QED
  BY <1>1, <1>3

\* The three kinds of rounds.
Skips(x, f) ==
    /\ f \in x.visited \/ x.linker = NoPath
    /\ files' = Ensure(files, {}) /\ aliases' = aliases /\ stage' = stage
    /\ stack' = [stack EXCEPT ![1] = [x EXCEPT !.queue = x.queue \ {f},
                                               !.visited = x.visited \cup {f}, !.dirs = x.dirs]]
Lists(x, f) ==
    /\ f \notin x.visited /\ x.linker # NoPath /\ ~Breaks(f)
    /\ files' = Ensure(files, LibsOf(f)) /\ stage' = stage
    /\ aliases' = aliases \cup AliasesOf(Traced(f))
    /\ stack' = [stack EXCEPT ![1] =
                   [x EXCEPT !.queue = (x.queue \ {f}) \cup LibsOf(f), !.visited = x.visited \cup {f},
                             !.dirs = x.dirs \cup DirsOf(files', LibsOf(f))]]
BreaksOff(x, f) ==
    /\ x.linker # NoPath /\ Breaks(f) /\ Break(Tail(stack))
    /\ \E part \in Partial(f) : /\ files' = Ensure(files, FilesOf(part))
                                /\ aliases' = aliases \cup AliasesOf(part)

LEMMA VisitIs ==
  ASSUME Visit, stack \in Seq(Frame)
  PROVE  /\ stack # <<>> /\ sys' = sys /\ todo' = todo /\ scanned' = scanned /\ plans' = plans
         /\ \E x \in Frame : \E f \in x.queue :
              /\ x = stack[1] /\ x.phase = "link"
              /\ Skips(x, f) \/ Lists(x, f) \/ BreaksOff(x, f)
<1>1. stack # <<>> /\ sys' = sys /\ todo' = todo /\ scanned' = scanned /\ plans' = plans
  BY DEF Visit, Linking
<1>2. PICK x \in Frame : x = stack[1] /\ x = Head(stack)
  BY <1>1, TailIs
<1>3. x.phase = "link"
  BY <1>2 DEF Visit, Linking, Top
<1>4. PICK f \in Top.queue :
         LET idle == f \in Top.visited \/ Top.linker = NoPath
             list == IF idle THEN <<>> ELSE Traced(f)
             srcs == FilesOf(list)
         IN  IF ~idle /\ Breaks(f)
             THEN /\ \E part \in Partial(f) : Gather(part)
                  /\ Break(Tail(stack))
             ELSE /\ Gather(list)
                  /\ stack' = [stack EXCEPT ![1] =
                       [Top EXCEPT !.queue = (Top.queue \ {f}) \cup srcs,
                                   !.visited = Top.visited \cup {f},
                                   !.dirs = Top.dirs \cup DirsOf(Ensure(files, srcs), srcs)]]
                  /\ UNCHANGED stage
  BY DEF Visit
<1>a. Top = x /\ f \in x.queue
  BY <1>2, <1>4 DEF Top
<1>5. CASE f \in x.visited \/ x.linker = NoPath
  <2>1. FilesOf(<<>>) = {} /\ AliasesOf(<<>>) = {}
    BY DEF FilesOf, AliasesOf, Bundled
  <2>2. \A fs : DirsOf(fs, {}) = {}
    BY DEF DirsOf
  <2>3. /\ files' = Ensure(files, {}) /\ aliases' = aliases \cup {} /\ stage' = stage
        /\ stack' = [stack EXCEPT ![1] = [x EXCEPT !.queue = (x.queue \ {f}) \cup {},
                                 !.visited = x.visited \cup {f}, !.dirs = x.dirs \cup {}]]
    BY <1>4, <1>a, <1>2, <1>5, <2>1, <2>2 DEF Gather
  <2>4. (x.queue \ {f}) \cup {} = x.queue \ {f} /\ x.dirs \cup {} = x.dirs /\ aliases \cup {} = aliases
    OBVIOUS
  <2>5. Skips(x, f)
    BY <1>5, <2>3, <2>4 DEF Skips
  <2> QED
    BY <1>1, <1>2, <1>3, <1>a, <2>5
<1>6. CASE ~(f \in x.visited \/ x.linker = NoPath)
  <2>1. CASE Breaks(f)
    <3>1. BreaksOff(x, f)
      BY <1>4, <1>a, <1>2, <1>6, <2>1 DEF BreaksOff, Gather
    <3> QED
      BY <1>1, <1>2, <1>3, <1>a, <3>1
  <2>2. CASE ~Breaks(f)
    <3>1. Lists(x, f)
      BY <1>4, <1>a, <1>2, <1>6, <2>2 DEF Lists, LibsOf, Gather
    <3> QED
      BY <1>1, <1>2, <1>3, <1>a, <3>1
  <2> QED
    BY <2>1, <2>2
<1> QED
  BY <1>5, <1>6

\* What holds while something is active.
LEMMA SoundNow ==
  ASSUME ClosureInv, stack # <<>>
  PROVE  /\ TypeOK /\ sys \in System /\ stack \in Seq(Frame) /\ plans \in Seq(Plan)
         /\ FilesOk(files) /\ StubOk(files, stack) /\ AliasOk(aliases) /\ TodoOk(stage, todo)
         /\ FramesOk(stage, files, aliases, scanned, stack) /\ PlansOk(files, aliases, plans)
         /\ ProgsOk(files, stack) /\ ScansOk(files, stack, scanned)
         /\ stage \in {"entries", "traced"}
         /\ todo \in Seq(Elves \cup ScriptPaths \cup {Ld}) /\ DOMAIN files \subseteq Sources
         /\ aliases \subseteq Sources \X Places /\ scanned \in SUBSET ScriptPaths
<1>1. Building
  BY DEF ClosureInv
<1>2. TypeOK /\ BuildOk(stage, todo, stack, files, aliases, scanned, plans)
  BY <1>1 DEF ClosureInv
<1>3. /\ sys \in System /\ stack \in Seq(Frame) /\ plans \in Seq(Plan)
      /\ todo \in Seq(Elves \cup ScriptPaths \cup {Ld}) /\ DOMAIN files \subseteq Sources
      /\ aliases \subseteq Sources \X Places /\ scanned \in SUBSET ScriptPaths
  BY <1>2 DEF TypeOK
<1> QED
  BY <1>1, <1>2, <1>3 DEF BuildOk, Building

\* A round without the linker.
LEMMA SkipKeeps ==
  ASSUME ClosureInv, stack # <<>>, NEW x \in Frame, NEW f \in x.queue,
         x = stack[1], x.phase = "link", Skips(x, f),
         sys' = sys, todo' = todo, scanned' = scanned, plans' = plans
  PROVE  ClosureInv'
<1>1. /\ TypeOK /\ sys \in System /\ stack \in Seq(Frame) /\ plans \in Seq(Plan)
      /\ FilesOk(files) /\ StubOk(files, stack) /\ AliasOk(aliases) /\ TodoOk(stage, todo)
      /\ FramesOk(stage, files, aliases, scanned, stack) /\ PlansOk(files, aliases, plans)
      /\ ProgsOk(files, stack) /\ ScansOk(files, stack, scanned)
      /\ stage \in {"entries", "traced"}
      /\ todo \in Seq(Elves \cup ScriptPaths \cup {Ld}) /\ DOMAIN files \subseteq Sources
      /\ aliases \subseteq Sources \X Places /\ scanned \in SUBSET ScriptPaths
  BY SoundNow
<1>2. PICK y : y = [x EXCEPT !.queue = x.queue \ {f}, !.visited = x.visited \cup {f}, !.dirs = x.dirs]
  OBVIOUS
<1>3. PICK F : F = Ensure(files, {})
  OBVIOUS
<1>4. /\ f \in x.visited \/ x.linker = NoPath
      /\ files' = F /\ aliases' = aliases /\ stage' = stage /\ stack' = [stack EXCEPT ![1] = y]
  BY <1>2, <1>3 DEF Skips
<1>5. DOMAIN F = DOMAIN files /\ \A s \in DOMAIN F : F[s] = files[s]
  BY <1>3 DEF Ensure
<1>6. LinkFrame(files, aliases, x)
  BY <1>1 DEF FramesOk
<1>c. SkipRound(files, aliases, x, f, y)
  BY <1>2, <1>4, <1>6 DEF SkipRound
<1>d. Skipped(files, aliases, x, y)
  BY <1>1, <1>c, VisitSkips
<1>7. /\ y \in Frame /\ LinkFrame(files, aliases, y)
      /\ y.phase = x.phase /\ y.script = x.script /\ y.cmds = x.cmds
      /\ y.subject = x.subject /\ y.linker = x.linker
      /\ Dynamic(x.subject) => x.subject \in x.visited
  BY <1>d DEF Skipped
<1>8. Grows(files, F, aliases, aliases)
  BY <1>5 DEF Grows
<1>9. LinkFrame(F, aliases, y)
  BY <1>5, <1>7 DEF LinkFrame, Has
<1>10. PICK T : T = [stack EXCEPT ![1] = y]
  OBVIOUS
<1>11. T \in Seq(Frame) /\ T # <<>> /\ T[1] = y
  BY <1>1, <1>7, <1>10, TopIs
<1>12. FilesOk(F)
  BY <1>1, <1>5 DEF FilesOk
<1>13. StubOk(F, T)
  BY <1>1, <1>5, <1>7, <1>11 DEF StubOk
<1>14. FramesOk(stage, F, aliases, scanned, T)
  BY <1>1, <1>7, <1>8, <1>9, <1>10, FramesTop
<1>15. PlansOk(F, aliases, plans)
  BY <1>1, <1>8, PlansGrow
<1>16. ProgsOk(F, T)
  BY <1>1, <1>5, <1>7 DEF ProgsOk
<1>17. ScansOk(F, T, scanned)
  BY <1>1, <1>7, <1>8, <1>10, ScansTop
<1>18. BuildOk(stage', todo', stack', files', aliases', scanned', plans')
  BY <1>1, <1>4, <1>10, <1>12, <1>13, <1>14, <1>15, <1>16, <1>17 DEF BuildOk
<1>19. TypeOK'
  BY <1>1, <1>4, <1>5, <1>10, <1>11, <1>12, BuildTypes
<1> QED
  BY <1>1, <1>4, <1>18, <1>19, InvHolds

\* A round of the linker.
LEMMA ListKeeps ==
  ASSUME ClosureInv, stack # <<>>, NEW x \in Frame, NEW f \in x.queue,
         x = stack[1], x.phase = "link", Lists(x, f),
         sys' = sys, todo' = todo, scanned' = scanned, plans' = plans
  PROVE  ClosureInv'
<1>1. /\ TypeOK /\ sys \in System /\ stack \in Seq(Frame) /\ plans \in Seq(Plan)
      /\ FilesOk(files) /\ StubOk(files, stack) /\ AliasOk(aliases) /\ TodoOk(stage, todo)
      /\ FramesOk(stage, files, aliases, scanned, stack) /\ PlansOk(files, aliases, plans)
      /\ ProgsOk(files, stack) /\ ScansOk(files, stack, scanned)
      /\ stage \in {"entries", "traced"}
      /\ todo \in Seq(Elves \cup ScriptPaths \cup {Ld}) /\ DOMAIN files \subseteq Sources
      /\ aliases \subseteq Sources \X Places /\ scanned \in SUBSET ScriptPaths
  BY SoundNow
<1>2. PICK F : F = Ensure(files, LibsOf(f))
  OBVIOUS
<1>3. PICK A : A = aliases \cup AliasesOf(Traced(f))
  OBVIOUS
<1>4. PICK y : y = [x EXCEPT !.queue = (x.queue \ {f}) \cup LibsOf(f), !.visited = x.visited \cup {f},
                             !.dirs = x.dirs \cup DirsOf(F, LibsOf(f))]
  OBVIOUS
<1>5. /\ f \notin x.visited /\ x.linker # NoPath /\ ~Breaks(f)
      /\ files' = F /\ aliases' = A /\ stage' = stage /\ stack' = [stack EXCEPT ![1] = y]
  BY <1>2, <1>3, <1>4 DEF Lists
<1>6. LinkFrame(files, aliases, x) /\ x.linker = Ld
  <2>1. LinkFrame(files, aliases, x)
    BY <1>1 DEF FramesOk
  <2> QED
    BY <1>5, <2>1 DEF LinkFrame
<1>c. ListRound(files, aliases, x, f, F, A, y)
  BY <1>1, <1>2, <1>3, <1>4, <1>5, <1>6 DEF ListRound
<1>d. ListedTo(files, aliases, x, f, F, A, y)
  BY <1>1, <1>c, VisitLists
<1>7. /\ y \in Frame /\ FilesOk(F) /\ AliasOk(A) /\ Grows(files, F, aliases, A) /\ LinkFrame(F, A, y)
      /\ DOMAIN F = DOMAIN files \cup LibsOf(f) /\ LibsOf(f) \subseteq LibPaths
      /\ A \subseteq aliases \cup (LibPaths \X LibPaths)
      /\ y.phase = x.phase /\ y.script = x.script /\ y.cmds = x.cmds
      /\ y.subject = x.subject /\ y.linker = x.linker
  BY <1>d DEF ListedTo
<1>10. PICK T : T = [stack EXCEPT ![1] = y]
  OBVIOUS
<1>11. T \in Seq(Frame) /\ T # <<>> /\ T[1] = y
  BY <1>1, <1>7, <1>10, TopIs
<1>12. HostLd \notin LibPaths /\ Ld \notin LibPaths /\ LibPaths \cap ProgPaths = {}
  BY PathsApart
<1>13. StubOk(F, T)
  BY <1>1, <1>7, <1>11, <1>12 DEF StubOk
<1>14. FramesOk(stage, F, A, scanned, T)
  BY <1>1, <1>7, <1>10, FramesTop
<1>15. PlansOk(F, A, plans)
  BY <1>1, <1>7, PlansGrow
<1>16. ProgsOk(F, T)
  <2> SUFFICES ASSUME NEW p \in DOMAIN F, Dynamic(p), ~Lost(p) PROVE LibsOf(p) \subseteq DOMAIN F
    BY DEF ProgsOk
  <2>1. p \in DOMAIN files
    BY <1>7, <1>12 DEF Dynamic
  <2>2. LibsOf(p) \subseteq DOMAIN files \/ (x.subject = p /\ p \notin x.visited)
    BY <1>1, <2>1 DEF ProgsOk
  <2>3. CASE x.subject = p /\ p \notin x.visited
    <3>1. x.queue = {p}
      BY <1>6, <2>3 DEF LinkFrame
    <3> QED
      BY <1>7, <3>1
  <2> QED
    BY <1>7, <2>2, <2>3
<1>17. ScansOk(F, T, scanned)
  BY <1>1, <1>7, <1>10, ScansTop
<1>18. BuildOk(stage', todo', stack', files', aliases', scanned', plans')
  BY <1>1, <1>5, <1>7, <1>10, <1>13, <1>14, <1>15, <1>16, <1>17 DEF BuildOk
<1>19. DOMAIN F \subseteq Sources /\ A \subseteq Sources \X Places
  <2>1. LibPaths \subseteq Sources /\ LibPaths \subseteq Places
    BY <1>12 DEF Sources, Places, Elves
  <2> QED
    BY <1>1, <1>7, <2>1
<1>20. TypeOK'
  BY <1>1, <1>5, <1>7, <1>10, <1>11, <1>19, BuildTypes
<1> QED
  BY <1>1, <1>5, <1>18, <1>20, InvHolds

\* A search is broken off: the script below it goes on without the command.
LEMMA BreakKeeps ==
  ASSUME ClosureInv, stack # <<>>, NEW x \in Frame, NEW f \in x.queue,
         x = stack[1], x.phase = "link", BreaksOff(x, f),
         sys' = sys, todo' = todo, scanned' = scanned, plans' = plans
  PROVE  ClosureInv'
<1>1. /\ TypeOK /\ sys \in System /\ stack \in Seq(Frame) /\ plans \in Seq(Plan)
      /\ FilesOk(files) /\ StubOk(files, stack) /\ AliasOk(aliases) /\ TodoOk(stage, todo)
      /\ FramesOk(stage, files, aliases, scanned, stack) /\ PlansOk(files, aliases, plans)
      /\ ProgsOk(files, stack) /\ ScansOk(files, stack, scanned)
      /\ stage \in {"entries", "traced"}
      /\ todo \in Seq(Elves \cup ScriptPaths \cup {Ld}) /\ DOMAIN files \subseteq Sources
      /\ aliases \subseteq Sources \X Places /\ scanned \in SUBSET ScriptPaths
  BY SoundNow
<1>2. PICK part \in Partial(f) : /\ files' = Ensure(files, FilesOf(part))
                                 /\ aliases' = aliases \cup AliasesOf(part)
  BY DEF BreaksOff
<1>3. PICK T, F, A : T = Tail(stack) /\ F = files' /\ A = aliases'
  OBVIOUS
<1>4. x.linker # NoPath /\ Breaks(f) /\ Break(T)
  BY <1>3 DEF BreaksOff
<1>5. LinkFrame(files, aliases, x) /\ x.linker = Ld /\ f \in Elves
  <2>1. LinkFrame(files, aliases, x)
    BY <1>1 DEF FramesOk
  <2> QED
    BY <1>4, <2>1 DEF LinkFrame
<1>6. /\ Dynamic(x.subject) /\ ~Good(x.subject)
      /\ x.subject \notin x.visited => Lost(x.subject)
      /\ sys.stub => StubBack
  BY <1>1, <1>4, <1>5, VisitBreaks
<1>7. T \in Seq(Frame)
  BY <1>1, <1>3, TailIs
<1>8. Gathered(files, aliases, part, F, A)
  <2>1. LookedUp(part) /\ ~Missing(part)
    BY <1>1, <1>5, PartialIs
  <2> QED
    BY <1>1, <1>2, <1>3, <2>1, GatherGrows
<1>9. /\ FilesOk(F) /\ AliasOk(A) /\ Grows(files, F, aliases, A)
      /\ DOMAIN files \subseteq DOMAIN F /\ DOMAIN F \subseteq DOMAIN files \cup LibPaths
      /\ A \subseteq aliases \cup (LibPaths \X LibPaths)
  BY <1>8 DEF Gathered
<1>10. HostLd \notin LibPaths /\ Ld \notin LibPaths /\ LibPaths \cap ProgPaths = {}
  BY PathsApart
<1>11. DOMAIN F \subseteq Sources /\ A \subseteq Sources \X Places
  <2>1. LibPaths \subseteq Sources /\ LibPaths \subseteq Places
    BY <1>10 DEF Sources, Places, Elves
  <2> QED
    BY <1>1, <1>9, <2>1
<1>12. CASE T = <<>>
  <2>1. stage' = "failed" /\ stack' = <<>>
    BY <1>4, <1>12 DEF Break
  <2>2. TypeOK'
    BY <1>1, <1>3, <1>9, <1>11, <2>1, BuildTypes
  <2> QED
    BY <2>1, <2>2, InvFails
<1>13. CASE T # <<>>
  <2>1. stage' = stage /\ stack' = T
    BY <1>4, <1>13 DEF Break
  <2>2. FramesOk(stage, F, A, scanned, T)
    BY <1>1, <1>3, <1>9, FramesTail
  <2>3. PlansOk(F, A, plans)
    BY <1>1, <1>9, PlansGrow
  <2>4. StubOk(F, T)
    BY <1>1, <1>6, <1>9, <1>10 DEF StubOk
  <2>5. ProgsOk(F, T)
    <3> SUFFICES ASSUME NEW p \in DOMAIN F, Dynamic(p), ~Lost(p) PROVE LibsOf(p) \subseteq DOMAIN F
      BY DEF ProgsOk
    <3>1. p \in DOMAIN files
      BY <1>9, <1>10 DEF Dynamic
    <3>2. LibsOf(p) \subseteq DOMAIN files
      BY <1>1, <1>6, <3>1 DEF ProgsOk
    <3> QED
      BY <1>9, <3>2
  <2>6. ScansOk(F, T, scanned)
    <3> SUFFICES ASSUME NEW s \in scanned, NEW c \in sys.calls[s], ~Settled(F, c) PROVE Awaited(T, s, c)
      BY DEF ScansOk
    <3>1. c \in ProgPaths \cup ScriptPaths
      BY <1>1, CallsAre
    <3>2. ~Settled(files, c)
      BY <1>9, <3>1, SettledGrows
    <3>3. Awaited(stack, s, c)
      BY <1>1, <3>2 DEF ScansOk
    <3>4. x.script # c
      <4> SUFFICES ASSUME x.script = c PROVE FALSE
        OBVIOUS
      <4>1. c \in ScriptPaths /\ c # NoPath
        BY <3>1, FrameFields, PathsApart
      <4>2. x.subject = sys.shebang[c]
        BY <1>5, <4>1 DEF LinkFrame
      <4> QED
        BY <1>6, <3>2, <4>1, <4>2 DEF Settled
    <3> QED
      BY <1>1, <1>3, <3>3, <3>4, AwaitedTail
  <2>7. BuildOk(stage', todo', stack', files', aliases', scanned', plans')
    BY <1>1, <1>3, <1>9, <2>1, <2>2, <2>3, <2>4, <2>5, <2>6 DEF BuildOk
  <2>8. TypeOK'
    BY <1>1, <1>3, <1>7, <1>9, <1>11, <2>1, BuildTypes
  <2> QED
    BY <1>1, <2>1, <2>7, <2>8, InvHolds
<1> QED
  BY <1>12, <1>13

LEMMA VisitKeeps == ClosureInv /\ Visit => ClosureInv'
<1> SUFFICES ASSUME ClosureInv, Visit PROVE ClosureInv'
  OBVIOUS
<1>1. stack \in Seq(Frame)
  BY DEF ClosureInv, TypeOK
<1>2. stack # <<>> /\ sys' = sys /\ todo' = todo /\ scanned' = scanned /\ plans' = plans
  BY <1>1, VisitIs
<1>3. PICK x \in Frame, f \in Elves \cup {Ld} :
        /\ f \in x.queue /\ x = stack[1] /\ x.phase = "link"
        /\ Skips(x, f) \/ Lists(x, f) \/ BreaksOff(x, f)
  BY <1>1, VisitIs, FrameFields
<1> QED
  BY <1>2, <1>3, SkipKeeps, ListKeeps, BreakKeeps

\* The ways to end a binary: the script is scanned, or the activation is left.
Leaves(y) ==
    /\ stack' = Tail(stack)
    /\ plans' = IF Len(stack) > 1 \/ stage # "entries" THEN plans
                ELSE Append(plans, [subject |-> y.subject, script |-> y.script,
                                    dirs |-> y.dirs, linker |-> y.linker])

LEMMA EndBinaryIs ==
  ASSUME EndBinary, stack \in Seq(Frame)
  PROVE  /\ stack # <<>> /\ sys' = sys /\ stage' = stage /\ todo' = todo /\ aliases' = aliases
         /\ \E x, y :
              /\ x \in Frame
              /\ x = stack[1] /\ x.phase = "link" /\ x.queue = {}
              /\ y = [x EXCEPT !.linker = IF Subst(x) THEN HostLd ELSE IF sys.stub THEN NoPath ELSE x.linker]
              /\ files' = IF x.script = NoPath THEN FilesAtEnd(files, x)
                          ELSE Ensure(FilesAtEnd(files, x), {x.script})
              /\ \/ /\ x.script # NoPath /\ scanned' = scanned \cup {x.script} /\ plans' = plans
                    /\ stack' = [stack EXCEPT ![1] = [y EXCEPT !.phase = "scan", !.cmds = sys.calls[x.script]]]
                 \/ Leaves(y) /\ scanned' = scanned
<1>1. /\ stack # <<>> /\ sys' = sys /\ stage' = stage /\ todo' = todo /\ aliases' = aliases
      /\ Top.phase = "link" /\ Top.queue = {}
  BY DEF EndBinary, Linking
<1>2. PICK x \in Frame : x = stack[1] /\ x = Top
  BY <1>1, TailIs DEF Top
<1>3. PICK y : y = [x EXCEPT !.linker = IF Subst(x) THEN HostLd ELSE IF sys.stub THEN NoPath ELSE x.linker]
  OBVIOUS
<1>4. Substituted <=> Subst(x)
  BY <1>2 DEF Substituted, Subst
<1>5. /\ files' = IF x.script = NoPath THEN FilesAtEnd(files, x) ELSE Ensure(FilesAtEnd(files, x), {x.script})
      /\ IF NewToScan(x.script)
         THEN /\ stack' = [stack EXCEPT ![1] = [y EXCEPT !.phase = "scan", !.cmds = sys.calls[x.script]]]
              /\ scanned' = scanned \cup {x.script}
              /\ UNCHANGED plans
         ELSE Leave(y) /\ UNCHANGED scanned
  BY <1>2, <1>3, <1>4 DEF EndBinary, FilesAtEnd
<1>6. CASE NewToScan(x.script)
  BY <1>1, <1>2, <1>3, <1>5, <1>6 DEF NewToScan
<1>7. CASE ~NewToScan(x.script)
  BY <1>1, <1>2, <1>3, <1>5, <1>7 DEF Leave, Leaves
<1> QED
  BY <1>6, <1>7

\* What is in the map when the activation at the top is done with its binary,
\* for any stack on which it searches no more.
BinaryDone(x, y) ==
    /\ x = stack[1] /\ x.phase = "link" /\ x.queue = {}
    /\ y = [x EXCEPT !.linker = IF Subst(x) THEN HostLd ELSE IF sys.stub THEN NoPath ELSE x.linker]
    /\ files' = IF x.script = NoPath THEN FilesAtEnd(files, x)
                ELSE Ensure(FilesAtEnd(files, x), {x.script})

LEMMA BinaryDoneIs ==
  ASSUME ClosureInv, stack # <<>>, sys' = sys, NEW x \in Frame, NEW y, BinaryDone(x, y)
  PROVE  /\ BinaryEnded(files, aliases, x, files', y)
         /\ x.script # NoPath => x.script \in ScriptPaths
         /\ DOMAIN files' \subseteq Sources
         /\ PlansOk(files', aliases, plans)
         /\ \A T : StubOk(files', T) /\ ProgsOk(files', T)
<1>1. /\ TypeOK /\ sys \in System /\ stack \in Seq(Frame) /\ plans \in Seq(Plan)
      /\ FilesOk(files) /\ StubOk(files, stack) /\ AliasOk(aliases) /\ TodoOk(stage, todo)
      /\ FramesOk(stage, files, aliases, scanned, stack) /\ PlansOk(files, aliases, plans)
      /\ ProgsOk(files, stack) /\ ScansOk(files, stack, scanned)
      /\ stage \in {"entries", "traced"}
      /\ todo \in Seq(Elves \cup ScriptPaths \cup {Ld}) /\ DOMAIN files \subseteq Sources
      /\ aliases \subseteq Sources \X Places /\ scanned \in SUBSET ScriptPaths
  BY SoundNow
<1>2. PICK F : F = files'
  OBVIOUS
<1>3. LinkFrame(files, aliases, x)
  BY <1>1 DEF FramesOk, BinaryDone
<1>4. BinaryEnd(files, aliases, x, F, y)
  BY <1>1, <1>2, <1>3 DEF BinaryDone, BinaryEnd
<1>5. BinaryEnded(files, aliases, x, F, y)
  BY <1>1, <1>4, EndsBinary
<1>6. /\ Grows(files, F, aliases, aliases)
      /\ DOMAIN F \subseteq DOMAIN files \cup {HostLd} \cup ScriptPaths
      /\ HostLd \in DOMAIN F => HostLd \in DOMAIN files \/ Subst(x)
      /\ Ld \in DOMAIN F => Ld \in DOMAIN files /\ ~Subst(x)
      /\ Dynamic(x.subject) => x.subject \in x.visited
  BY <1>5 DEF BinaryEnded
<1>7. PlansOk(F, aliases, plans)
  BY <1>1, <1>6, PlansGrow
<1>8. DOMAIN F \subseteq Sources
  BY <1>1, <1>6 DEF Sources
<1>9. ASSUME NEW T PROVE StubOk(F, T)
  <2>1. HostLd \in DOMAIN F => sys.stub /\ sys.hostLd
    BY <1>1, <1>6 DEF StubOk, Subst
  <2>2. sys.stub /\ sys.hostLd /\ Ld \in DOMAIN F => StubBack
    <3>1. x = stack[1]
      BY DEF BinaryDone
    <3> QED
      BY <1>1, <1>6, <3>1 DEF StubOk, Subst
  <2> QED
    BY <2>1, <2>2 DEF StubOk
<1>10. ASSUME NEW T PROVE ProgsOk(F, T)
  <2> SUFFICES ASSUME NEW p \in DOMAIN F, Dynamic(p), ~Lost(p) PROVE LibsOf(p) \subseteq DOMAIN F
    BY DEF ProgsOk
  <2>1. p \in DOMAIN files /\ p \in Elves
    BY <1>6, PathsApart DEF Dynamic
  <2>2. x = stack[1]
    BY DEF BinaryDone
  <2>3. LibsOf(p) \subseteq DOMAIN files
    BY <1>1, <1>6, <2>1, <2>2 DEF ProgsOk
  <2>4. \A q \in LibsOf(p) : q # Ld
    <3>1. ~Breaks(p)
      BY DEF Lost
    <3> QED
      BY <1>1, <2>1, <3>1, VisitedLibs
  <2> QED
    BY <1>6, <2>3, <2>4 DEF Grows
<1>11. x.script # NoPath => x.script \in ScriptPaths
  BY FrameFields
<1> QED
  BY <1>2, <1>5, <1>7, <1>8, <1>9, <1>10, <1>11

\* The script is scanned from now on.
LEMMA ScanBegins ==
  ASSUME ClosureInv, stack # <<>>, NEW x \in Frame, NEW y, BinaryDone(x, y),
         sys' = sys, stage' = stage, todo' = todo, aliases' = aliases, plans' = plans,
         x.script # NoPath, scanned' = scanned \cup {x.script},
         stack' = [stack EXCEPT ![1] = [y EXCEPT !.phase = "scan", !.cmds = sys.calls[x.script]]]
  PROVE  ClosureInv'
<1>1. /\ TypeOK /\ sys \in System /\ stack \in Seq(Frame) /\ plans \in Seq(Plan)
      /\ FilesOk(files) /\ StubOk(files, stack) /\ AliasOk(aliases) /\ TodoOk(stage, todo)
      /\ FramesOk(stage, files, aliases, scanned, stack) /\ PlansOk(files, aliases, plans)
      /\ ProgsOk(files, stack) /\ ScansOk(files, stack, scanned)
      /\ stage \in {"entries", "traced"}
      /\ todo \in Seq(Elves \cup ScriptPaths \cup {Ld}) /\ DOMAIN files \subseteq Sources
      /\ aliases \subseteq Sources \X Places /\ scanned \in SUBSET ScriptPaths
  BY SoundNow
<1>2. PICK F : F = files'
  OBVIOUS
<1>3. /\ BinaryEnded(files, aliases, x, F, y) /\ x.script \in ScriptPaths
      /\ DOMAIN F \subseteq Sources /\ PlansOk(F, aliases, plans)
      /\ \A T : StubOk(F, T) /\ ProgsOk(F, T)
      /\ x = stack[1] /\ x.phase = "link"
  BY <1>2, BinaryDoneIs DEF BinaryDone
<1>4. /\ y \in Frame /\ FilesOk(F) /\ Grows(files, F, aliases, aliases) /\ Done(F, aliases, y)
      /\ y.subject = x.subject /\ y.script = x.script /\ x.script \in DOMAIN F
  BY <1>3 DEF BinaryEnded
<1>5. PICK s : s = x.script
  OBVIOUS
<1>6. PICK C : C = sys.calls[s]
  OBVIOUS
<1>7. PICK z : z = [y EXCEPT !.phase = "scan", !.cmds = C]
  OBVIOUS
<1>8. C \in SUBSET (ProgPaths \cup ScriptPaths)
  BY <1>1, <1>3, <1>5, <1>6, RootIs
<1>9. /\ z \in Frame /\ z.phase = "scan" /\ z.cmds = C /\ z.script = s /\ z.subject = x.subject
      /\ z.linker = y.linker /\ z.dirs = y.dirs
  BY <1>4, <1>5, <1>7, <1>8 DEF Frame
<1>10. PICK sc : sc = scanned \cup {s}
  OBVIOUS
<1>11. ScanFrame(F, aliases, sc, z)
  <2>1. Done(F, aliases, z)
    BY <1>4, <1>9 DEF Done
  <2> QED
    BY <1>6, <1>9, <1>10, <2>1 DEF ScanFrame
<1>12. PICK T : T = [stack EXCEPT ![1] = z]
  OBVIOUS
<1>13. stack' = T /\ scanned' = sc
  BY <1>5, <1>6, <1>7, <1>10, <1>12
<1>14. /\ T \in Seq(Frame) /\ Len(T) = Len(stack) /\ Len(stack) \in Nat \ {0} /\ T # <<>> /\ T[1] = z
       /\ \A i \in 2..Len(stack) : T[i] = stack[i]
  BY <1>1, <1>9, <1>12, TopIs
<1>15. FramesOk(stage, F, aliases, sc, T)
  BY <1>1, <1>3, <1>4, <1>9, <1>10, <1>11, <1>12, FramesTop
<1>16. ScansOk(F, T, sc)
  <2> SUFFICES ASSUME NEW t \in sc, NEW c \in sys.calls[t], ~Settled(F, c) PROVE Awaited(T, t, c)
    BY DEF ScansOk
  <2>1. CASE t = s
    <3>1. 1 \in 1..Len(T)
      BY <1>14
    <3> QED
      BY <1>6, <1>9, <1>14, <2>1, <3>1 DEF Awaited
  <2>2. CASE t # s
    <3>1. t \in scanned
      BY <1>10, <2>2
    <3>2. c \in ProgPaths \cup ScriptPaths
      BY <1>1, <3>1, CallsAre
    <3>3. ~Settled(files, c)
      BY <1>4, <3>2, SettledGrows
    <3>4. Awaited(stack, t, c)
      BY <1>1, <3>1, <3>3 DEF ScansOk
    <3>5. c # s
      BY <1>4, <1>5 DEF Settled
    <3>6. PICK i \in 1..Len(stack) :
            /\ stack[i].phase = "scan" /\ stack[i].script = t /\ c \in stack[i].cmds
      BY <1>3, <1>5, <3>4, <3>5 DEF Awaited
    <3>7. i \in 2..Len(stack) /\ i \in 1..Len(T)
      BY <1>3, <1>14, <3>6
    <3> QED
      BY <1>14, <3>6, <3>7 DEF Awaited
  <2> QED
    BY <2>1, <2>2
<1>17. BuildOk(stage', todo', stack', files', aliases', scanned', plans')
  BY <1>1, <1>2, <1>3, <1>4, <1>13, <1>15, <1>16 DEF BuildOk
<1>18. sc \subseteq ScriptPaths
  BY <1>1, <1>3, <1>5, <1>10
<1>19. TypeOK'
  BY <1>1, <1>2, <1>3, <1>4, <1>13, <1>14, <1>18, BuildTypes
<1> QED
  BY <1>1, <1>17, <1>19, InvHolds

\* The plan of what is left.
PlansWith(S, y, stg, P) ==
    IF Len(S) > 1 \/ stg # "entries" THEN P
    ELSE Append(P, [subject |-> y.subject, script |-> y.script, dirs |-> y.dirs, linker |-> y.linker])

LEMMA PlansAfter ==
  ASSUME NEW S, NEW y \in Frame, NEW stg, NEW P \in Seq(Plan), NEW F, NEW A,
         PlansOk(F, A, P), Done(F, A, y), stg = "entries" => y.subject \in ProgPaths,
         NEW Q, Q = PlansWith(S, y, stg, P)
  PROVE  Q \in Seq(Plan) /\ PlansOk(F, A, Q)
<1>1. CASE Len(S) > 1 \/ stg # "entries"
  BY <1>1 DEF PlansWith
<1>2. CASE ~(Len(S) > 1 \/ stg # "entries")
  <2>1. PICK p : p = [subject |-> y.subject, script |-> y.script, dirs |-> y.dirs, linker |-> y.linker]
    OBVIOUS
  <2>2. p \in Plan
    BY <1>2, <2>1, FrameFields DEF Plan
  <2>3. p.subject = y.subject /\ p.dirs = y.dirs /\ p.linker = y.linker
    BY <2>1
  <2>4. Done(F, A, p)
    BY <2>3 DEF Done
  <2>5. Q = Append(P, p)
    BY <1>2, <2>1 DEF PlansWith
  <2>6. Q \in Seq(Plan) /\ Len(Q) = Len(P) + 1 /\ Len(P) \in Nat /\ Q[Len(P) + 1] = p
        /\ \A i \in 1..Len(P) : Q[i] = P[i]
    BY <2>2, <2>5
  <2>7. \A i \in 1..Len(Q) : i \in 1..Len(P) \/ i = Len(P) + 1
    BY <2>6
  <2> QED
    BY <2>4, <2>6, <2>7 DEF PlansOk
<1> QED
  BY <1>1, <1>2

\* The activation is left, with its plan or without.
LEMMA BinaryLeaves ==
  ASSUME ClosureInv, stack # <<>>, NEW x \in Frame, NEW y, BinaryDone(x, y), Leaves(y),
         sys' = sys, stage' = stage, todo' = todo, aliases' = aliases, scanned' = scanned
  PROVE  ClosureInv'
<1>1. /\ TypeOK /\ sys \in System /\ stack \in Seq(Frame) /\ plans \in Seq(Plan)
      /\ FilesOk(files) /\ StubOk(files, stack) /\ AliasOk(aliases) /\ TodoOk(stage, todo)
      /\ FramesOk(stage, files, aliases, scanned, stack) /\ PlansOk(files, aliases, plans)
      /\ ProgsOk(files, stack) /\ ScansOk(files, stack, scanned)
      /\ stage \in {"entries", "traced"}
      /\ todo \in Seq(Elves \cup ScriptPaths \cup {Ld}) /\ DOMAIN files \subseteq Sources
      /\ aliases \subseteq Sources \X Places /\ scanned \in SUBSET ScriptPaths
  BY SoundNow
<1>2. PICK F : F = files'
  OBVIOUS
<1>3. /\ BinaryEnded(files, aliases, x, F, y)
      /\ DOMAIN F \subseteq Sources /\ PlansOk(F, aliases, plans)
      /\ \A T : StubOk(F, T) /\ ProgsOk(F, T)
      /\ x = stack[1] /\ x.phase = "link"
  BY <1>2, BinaryDoneIs DEF BinaryDone
<1>4. /\ y \in Frame /\ FilesOk(F) /\ Grows(files, F, aliases, aliases) /\ Done(F, aliases, y)
      /\ y.subject = x.subject /\ (x.script # NoPath => x.script \in DOMAIN F)
  BY <1>3 DEF BinaryEnded
<1>5. PICK T : T = Tail(stack)
  OBVIOUS
<1>6. PICK Q : Q = plans'
  OBVIOUS
<1>7. stack' = T /\ Q = PlansWith(stack, y, stage, plans)
  BY <1>5, <1>6 DEF Leaves, PlansWith
<1>8. stage = "entries" => y.subject \in ProgPaths
  <2>1. 1 \in 1..Len(stack)
    BY <1>1
  <2> QED
    BY <1>1, <1>3, <1>4, <2>1 DEF FramesOk
<1>9. Q \in Seq(Plan) /\ PlansOk(F, aliases, Q)
  BY <1>1, <1>3, <1>4, <1>7, <1>8, PlansAfter
<1>10. T \in Seq(Frame)
  BY <1>1, <1>5, TailIs
<1>11. FramesOk(stage, F, aliases, scanned, T)
  BY <1>1, <1>4, <1>5, FramesTail
<1>12. ScansOk(F, T, scanned)
  <2> SUFFICES ASSUME NEW t \in scanned, NEW c \in sys.calls[t], ~Settled(F, c) PROVE Awaited(T, t, c)
    BY DEF ScansOk
  <2>1. c \in ProgPaths \cup ScriptPaths
    BY <1>1, CallsAre
  <2>2. ~Settled(files, c)
    BY <1>4, <2>1, SettledGrows
  <2>3. Awaited(stack, t, c)
    BY <1>1, <2>2 DEF ScansOk
  <2>4. x.script # c
    <3>1. c # NoPath
      BY <2>1, PathsApart
    <3> QED
      BY <1>4, <3>1 DEF Settled
  <2> QED
    BY <1>1, <1>3, <1>5, <2>3, <2>4, AwaitedTail
<1>13. BuildOk(stage', todo', stack', files', aliases', scanned', plans')
  BY <1>1, <1>2, <1>3, <1>4, <1>6, <1>7, <1>9, <1>11, <1>12 DEF BuildOk
<1>14. TypeOK'
  BY <1>1, <1>2, <1>3, <1>4, <1>6, <1>7, <1>9, <1>10, BuildTypes
<1> QED
  BY <1>1, <1>13, <1>14, InvHolds

LEMMA EndBinaryKeeps == ClosureInv /\ EndBinary => ClosureInv'
<1> SUFFICES ASSUME ClosureInv, EndBinary PROVE ClosureInv'
  OBVIOUS
<1>1. stack \in Seq(Frame)
  BY DEF ClosureInv, TypeOK
<1>2. stack # <<>> /\ sys' = sys /\ stage' = stage /\ todo' = todo /\ aliases' = aliases
  BY <1>1, EndBinaryIs
<1>3. PICK x, y :
        /\ x \in Frame
        /\ BinaryDone(x, y)
        /\ \/ /\ x.script # NoPath /\ scanned' = scanned \cup {x.script} /\ plans' = plans
              /\ stack' = [stack EXCEPT ![1] = [y EXCEPT !.phase = "scan", !.cmds = sys.calls[x.script]]]
           \/ Leaves(y) /\ scanned' = scanned
  BY <1>1, EndBinaryIs DEF BinaryDone
<1> QED
  BY <1>2, <1>3, ScanBegins, BinaryLeaves

\* A command is taken from the script at the top.
Takes(x, c, y) ==
    /\ x = stack[1] /\ x.phase = "scan" /\ c \in x.cmds /\ y = [x EXCEPT !.cmds = x.cmds \ {c}]

LEMMA ScanCommandIs ==
  ASSUME ScanCommand, stack \in Seq(Frame)
  PROVE  /\ stack # <<>> /\ sys' = sys /\ todo' = todo /\ aliases' = aliases
         /\ scanned' = scanned /\ plans' = plans
         /\ \E x, y, c, rest :
              /\ x \in Frame
              /\ Takes(x, c, y) /\ rest = [stack EXCEPT ![1] = y]
              /\ \/ Plannable(c) /\ Enter(c, rest)
                 \/ ~Plannable(c) /\ Break(rest) /\ files' = files
<1>1. /\ stack # <<>> /\ sys' = sys /\ todo' = todo /\ aliases' = aliases
      /\ scanned' = scanned /\ plans' = plans /\ Top.phase = "scan"
  BY DEF ScanCommand, Scanning
<1>2. PICK x \in Frame : x = stack[1] /\ x = Top
  BY <1>1, TailIs DEF Top
<1>3. PICK c \in Top.cmds :
        IF Plannable(c) THEN Enter(c, [stack EXCEPT ![1].cmds = @ \ {c}])
        ELSE Break([stack EXCEPT ![1].cmds = @ \ {c}]) /\ UNCHANGED files
  BY DEF ScanCommand
<1>4. PICK y : y = [x EXCEPT !.cmds = x.cmds \ {c}]
  OBVIOUS
<1>5. PICK rest : rest = [stack EXCEPT ![1] = y]
  OBVIOUS
<1>6. rest = [stack EXCEPT ![1].cmds = @ \ {c}]
  BY <1>2, <1>4, <1>5
<1> QED
  BY <1>1, <1>2, <1>3, <1>4, <1>5, <1>6 DEF Takes

\* What is left of the activation, when the command is neither settled nor
\* awaited for the moment.
Rested(x, c, y, R) ==
    /\ R \in Seq(Frame) /\ R # <<>> /\ Len(R) \in Nat \ {0} /\ R[1] = y
    /\ y \in Frame /\ y.phase = "scan" /\ y.script = x.script
    /\ FramesOk(stage, files, aliases, scanned, R) /\ StubOk(files, R) /\ ProgsOk(files, R)
    /\ c \in ProgPaths \cup ScriptPaths
    /\ \A t \in scanned : \A d \in sys.calls[t] :
         \/ Settled(files, d) \/ (t = x.script /\ d = c)
         \/ \E i \in 1..Len(R) : R[i].phase = "scan" /\ R[i].script = t /\ d \in R[i].cmds

LEMMA RestIs ==
  ASSUME ClosureInv, stack # <<>>, NEW x \in Frame, NEW y, NEW c, Takes(x, c, y),
         NEW R, R = [stack EXCEPT ![1] = y]
  PROVE  Rested(x, c, y, R)
<1>1. /\ TypeOK /\ sys \in System /\ stack \in Seq(Frame) /\ plans \in Seq(Plan)
      /\ FilesOk(files) /\ StubOk(files, stack) /\ AliasOk(aliases) /\ TodoOk(stage, todo)
      /\ FramesOk(stage, files, aliases, scanned, stack) /\ PlansOk(files, aliases, plans)
      /\ ProgsOk(files, stack) /\ ScansOk(files, stack, scanned)
      /\ stage \in {"entries", "traced"}
      /\ todo \in Seq(Elves \cup ScriptPaths \cup {Ld}) /\ DOMAIN files \subseteq Sources
      /\ aliases \subseteq Sources \X Places /\ scanned \in SUBSET ScriptPaths
  BY SoundNow
<1>2. x = stack[1] /\ x.phase = "scan" /\ c \in x.cmds /\ y = [x EXCEPT !.cmds = x.cmds \ {c}]
  BY DEF Takes
<1>3. /\ y \in Frame /\ y.phase = "scan" /\ y.script = x.script /\ y.subject = x.subject
      /\ y.cmds = x.cmds \ {c} /\ y.linker = x.linker /\ y.dirs = x.dirs
  BY <1>2 DEF Frame
<1>4. ScanFrame(files, aliases, scanned, x)
  <2>1. 1 \in 1..Len(stack)
    BY <1>1
  <2> QED
    BY <1>1, <1>2, <2>1 DEF FramesOk
<1>5. ScanFrame(files, aliases, scanned, y)
  BY <1>3, <1>4 DEF ScanFrame, Done
<1>6. Grows(files, files, aliases, aliases)
  BY DEF Grows
<1>7. FramesOk(stage, files, aliases, scanned, R)
  BY <1>1, <1>2, <1>3, <1>5, <1>6, FramesTop
<1>8. /\ R \in Seq(Frame) /\ Len(R) = Len(stack) /\ Len(R) \in Nat \ {0} /\ R # <<>> /\ R[1] = y
      /\ \A i \in 2..Len(stack) : R[i] = stack[i]
  BY <1>1, <1>3, TopIs
<1>9. StubOk(files, R)
  BY <1>1, <1>2 DEF StubOk
<1>10. ProgsOk(files, R)
  BY <1>1, <1>2 DEF ProgsOk
<1>11. c \in ProgPaths \cup ScriptPaths
  BY <1>2, FrameFields
<1>12. ASSUME NEW t \in scanned, NEW d \in sys.calls[t], ~Settled(files, d), ~(t = x.script /\ d = c)
       PROVE  \E i \in 1..Len(R) : R[i].phase = "scan" /\ R[i].script = t /\ d \in R[i].cmds
  <2>1. Awaited(stack, t, d)
    BY <1>1, <1>12 DEF ScansOk
  <2>2. PICK i \in 1..Len(stack) : stack[i].phase = "scan" /\ stack[i].script = t /\ d \in stack[i].cmds
    BY <1>2, <2>1 DEF Awaited
  <2>3. CASE i = 1
    BY <1>2, <1>3, <1>8, <1>12, <2>2, <2>3
  <2>4. CASE i # 1
    <3>1. i \in 2..Len(stack) /\ i \in 1..Len(R)
      BY <1>8, <2>4
    <3> QED
      BY <1>8, <2>2, <3>1
  <2> QED
    BY <2>3, <2>4
<1> QED
  BY <1>3, <1>7, <1>8, <1>9, <1>10, <1>11, <1>12 DEF Rested

LEMMA ScanCommandKeeps == ClosureInv /\ ScanCommand => ClosureInv'
<1> SUFFICES ASSUME ClosureInv, ScanCommand PROVE ClosureInv'
  OBVIOUS
<1>1. stack \in Seq(Frame)
  BY DEF ClosureInv, TypeOK
<1>2. /\ stack # <<>> /\ sys' = sys /\ todo' = todo /\ aliases' = aliases
      /\ scanned' = scanned /\ plans' = plans
  BY <1>1, ScanCommandIs
<1>3. PICK x, y, c, rest :
        /\ x \in Frame
        /\ Takes(x, c, y) /\ rest = [stack EXCEPT ![1] = y]
        /\ \/ Plannable(c) /\ Enter(c, rest)
           \/ ~Plannable(c) /\ Break(rest) /\ files' = files
  BY <1>1, ScanCommandIs
<1>4. Rested(x, c, y, rest)
  BY <1>2, <1>3, RestIs
<1>5. /\ TypeOK /\ sys \in System /\ stack \in Seq(Frame) /\ plans \in Seq(Plan)
      /\ FilesOk(files) /\ StubOk(files, stack) /\ AliasOk(aliases) /\ TodoOk(stage, todo)
      /\ FramesOk(stage, files, aliases, scanned, stack) /\ PlansOk(files, aliases, plans)
      /\ ProgsOk(files, stack) /\ ScansOk(files, stack, scanned)
      /\ stage \in {"entries", "traced"}
      /\ todo \in Seq(Elves \cup ScriptPaths \cup {Ld}) /\ DOMAIN files \subseteq Sources
      /\ aliases \subseteq Sources \X Places /\ scanned \in SUBSET ScriptPaths
  BY <1>2, SoundNow
<1>6. /\ rest \in Seq(Frame) /\ rest # <<>> /\ Len(rest) \in Nat \ {0} /\ rest[1] = y
      /\ y \in Frame /\ y.phase = "scan" /\ y.script = x.script
      /\ FramesOk(stage, files, aliases, scanned, rest) /\ StubOk(files, rest) /\ ProgsOk(files, rest)
      /\ c \in ProgPaths \cup ScriptPaths
  BY <1>4 DEF Rested
<1>7. ASSUME NEW t \in scanned, NEW d \in sys.calls[t]
      PROVE  \/ Settled(files, d) \/ (t = x.script /\ d = c)
             \/ \E i \in 1..Len(rest) : rest[i].phase = "scan" /\ rest[i].script = t /\ d \in rest[i].cmds
  BY <1>4 DEF Rested
<1>8. CASE ~Plannable(c)
  <2>1. stack' = rest /\ stage' = stage /\ files' = files
    BY <1>3, <1>6, <1>8 DEF Break
  <2>2. Settled(files, c)
    BY <1>8 DEF Plannable, Settled
  <2>3. ScansOk(files, rest, scanned)
    <3> SUFFICES ASSUME NEW t \in scanned, NEW d \in sys.calls[t], ~Settled(files, d) PROVE Awaited(rest, t, d)
      BY DEF ScansOk
    <3>1. d # c
      BY <2>2
    <3> QED
      BY <1>7, <3>1 DEF Awaited
  <2>4. BuildOk(stage', todo', stack', files', aliases', scanned', plans')
    BY <1>2, <1>5, <1>6, <2>1, <2>3 DEF BuildOk
  <2>5. TypeOK'
    BY <1>2, <1>5, <1>6, <2>1, BuildTypes
  <2> QED
    BY <1>2, <1>5, <2>1, <2>4, <2>5, InvHolds
<1>a. Ready(stage, rest, files, aliases, scanned, plans)
  BY <1>5, <1>6 DEF Ready, StateOk
<1>b. CASE Plannable(c) /\ Orphan(SubjectOf(c))
  <2>1. Enter(c, rest)
    BY <1>3, <1>b
  <2>a. files' = Ensure(files, {SubjectOf(c)}) /\ Break(rest)
    BY <1>b, <2>1, EnterIs
  <2>2. PICK F : F = files' /\ F = Ensure(files, {SubjectOf(c)})
    BY <2>a
  <2>3. stack' = rest /\ stage' = stage
    BY <1>6, <2>a DEF Break
  <2>4. c \in Elves \cup ScriptPaths \cup {Ld}
    BY <1>6, PathsApart
  <2>5. Strayed(stage, rest, files, F, aliases, scanned, plans, c)
    BY <1>a, <1>b, <2>2, <2>4, OrphanStays
  <2>6. /\ FilesOk(F) /\ StubOk(F, rest) /\ FramesOk(stage, F, aliases, scanned, rest)
        /\ PlansOk(F, aliases, plans) /\ ProgsOk(F, rest) /\ Grows(files, F, aliases, aliases)
        /\ SubjectOf(c) \in DOMAIN F /\ DOMAIN F \subseteq DOMAIN files \cup Elves
        /\ Dynamic(SubjectOf(c)) /\ ~Good(SubjectOf(c))
    BY <2>5 DEF Strayed, StateOk
  <2>7. Settled(F, c)
    BY <1>6, <2>6 DEF Settled, SubjectOf
  <2>8. ScansOk(F, rest, scanned)
    <3> SUFFICES ASSUME NEW t \in scanned, NEW d \in sys.calls[t], ~Settled(F, d) PROVE Awaited(rest, t, d)
      BY DEF ScansOk
    <3>1. d \in ProgPaths \cup ScriptPaths
      BY <1>5, CallsAre
    <3>2. ~Settled(files, d) /\ d # c
      BY <2>6, <2>7, <3>1, SettledGrows
    <3> QED
      BY <1>7, <3>2 DEF Awaited
  <2>9. BuildOk(stage', todo', stack', files', aliases', scanned', plans')
    BY <1>2, <1>5, <2>2, <2>3, <2>6, <2>8 DEF BuildOk
  <2>10. DOMAIN F \subseteq Sources
    BY <1>5, <2>6 DEF Sources
  <2>11. TypeOK'
    BY <1>2, <1>5, <1>6, <2>2, <2>3, <2>6, <2>10, BuildTypes
  <2> QED
    BY <1>2, <1>5, <2>3, <2>9, <2>11, InvHolds
<1>9. CASE Plannable(c) /\ ~Orphan(SubjectOf(c))
  <2>1. Enter(c, rest)
    BY <1>3, <1>9
  <2>2. files' = FilesWith(c, files) /\ stack' = <<FrameOf(c, files)>> \o rest /\ stage' = stage
    BY <1>9, <2>1, EnterIs
  <2>3. PICK T, F : T = stack' /\ F = files'
    OBVIOUS
  <2>5. c \in Elves \cup ScriptPaths \cup {Ld} /\ c # Ld /\ c \notin LibPaths
    BY <1>6, PathsApart
  <2>6. Enterable(stage, c)
    BY <1>6, <1>9, <2>5 DEF Enterable
  <2>7. Entered(stage, T, F, rest, files, aliases, scanned, plans, c)
    BY <1>a, <2>2, <2>3, <2>6, EnterOk
  <2>8. /\ FilesOk(F) /\ StubOk(F, T) /\ FramesOk(stage, F, aliases, scanned, T)
        /\ PlansOk(F, aliases, plans) /\ ProgsOk(F, T)
        /\ T \in Seq(Frame) /\ T # <<>> /\ T[1] \in Frame
        /\ T = <<T[1]>> \o rest /\ T[1].phase = "link" /\ T[1].script = ScriptOf(c)
        /\ Grows(files, F, aliases, aliases)
        /\ SubjectOf(c) \in DOMAIN F /\ DOMAIN F \subseteq DOMAIN files \cup Elves \cup {Ld}
    BY <2>7 DEF Entered, StateOk
  <2>9. Len(T) = Len(rest) + 1 /\ \A i \in 1..Len(rest) : T[i + 1] = rest[i] /\ i + 1 \in 1..Len(T)
    <3>1. PICK z \in Frame : z = T[1]
      BY <2>8
    <3>2. T = <<z>> \o rest
      BY <2>8, <3>1
    <3> QED
      BY <1>6, <3>2
  <2>10. ScansOk(F, T, scanned)
    <3> SUFFICES ASSUME NEW t \in scanned, NEW d \in sys.calls[t], ~Settled(F, d) PROVE Awaited(T, t, d)
      BY DEF ScansOk
    <3>1. d \in ProgPaths \cup ScriptPaths
      BY <1>5, CallsAre
    <3>2. ~Settled(files, d)
      BY <2>8, <3>1, SettledGrows
    <3>3. CASE t = x.script /\ d = c
      <4>1. c \in ScriptPaths
        <5>1. c \notin ScriptPaths => c \in DOMAIN F
          BY <2>8 DEF SubjectOf
        <5> QED
          BY <3>3, <5>1 DEF Settled
      <4>2. T[1].script = c
        BY <2>8, <4>1 DEF ScriptOf
      <4>3. T[2] = y /\ 2 \in 1..Len(T)
        <5>1. 1 \in 1..Len(rest) /\ 1 + 1 = 2
          BY <1>6
        <5> QED
          BY <1>6, <2>9, <5>1
      <4> QED
        BY <1>6, <2>8, <3>3, <4>1, <4>2, <4>3 DEF Awaited
    <3>4. CASE ~(t = x.script /\ d = c)
      <4>1. PICK i \in 1..Len(rest) : rest[i].phase = "scan" /\ rest[i].script = t /\ d \in rest[i].cmds
        BY <1>7, <3>2, <3>4
      <4>2. T[i + 1] = rest[i] /\ i + 1 \in 1..Len(T)
        BY <2>9
      <4>3. PICK j \in 1..Len(T) : T[j] = rest[i]
        BY <4>2
      <4> QED
        BY <4>1, <4>3 DEF Awaited
    <3> QED
      BY <3>3, <3>4
  <2>11. BuildOk(stage', todo', stack', files', aliases', scanned', plans')
    BY <1>2, <1>5, <2>2, <2>3, <2>8, <2>10 DEF BuildOk
  <2>12. DOMAIN F \subseteq Sources
    BY <1>5, <2>8 DEF Sources
  <2>13. TypeOK'
    BY <1>2, <1>5, <2>2, <2>3, <2>8, <2>12, BuildTypes
  <2> QED
    BY <1>2, <1>5, <2>2, <2>11, <2>13, InvHolds
<1> QED
  BY <1>8, <1>9, <1>b

\* The commands are dealt with.
LEMMA EndScanKeeps == ClosureInv /\ EndScan => ClosureInv'
<1> SUFFICES ASSUME ClosureInv, EndScan PROVE ClosureInv'
  OBVIOUS
<1>1. /\ stack # <<>> /\ sys' = sys /\ stage' = stage /\ todo' = todo /\ files' = files
      /\ aliases' = aliases /\ scanned' = scanned /\ Top.phase = "scan" /\ Top.cmds = {} /\ Leave(Top)
  BY DEF EndScan, Scanning
<1>2. /\ TypeOK /\ sys \in System /\ stack \in Seq(Frame) /\ plans \in Seq(Plan)
      /\ FilesOk(files) /\ StubOk(files, stack) /\ AliasOk(aliases) /\ TodoOk(stage, todo)
      /\ FramesOk(stage, files, aliases, scanned, stack) /\ PlansOk(files, aliases, plans)
      /\ ProgsOk(files, stack) /\ ScansOk(files, stack, scanned)
      /\ stage \in {"entries", "traced"}
      /\ todo \in Seq(Elves \cup ScriptPaths \cup {Ld}) /\ DOMAIN files \subseteq Sources
      /\ aliases \subseteq Sources \X Places /\ scanned \in SUBSET ScriptPaths
  BY <1>1, SoundNow
<1>3. PICK x \in Frame : x = stack[1] /\ x = Top
  BY <1>1, <1>2, TailIs DEF Top
<1>4. PICK T, Q : T = Tail(stack) /\ Q = plans'
  OBVIOUS
<1>5. stack' = T /\ Q = PlansWith(stack, x, stage, plans)
  BY <1>1, <1>3, <1>4 DEF Leave, PlansWith
<1>6. Done(files, aliases, x) /\ (stage = "entries" => x.subject \in ProgPaths)
  <2>1. 1 \in 1..Len(stack)
    BY <1>1, <1>2
  <2> QED
    BY <1>1, <1>2, <1>3, <2>1 DEF FramesOk, ScanFrame
<1>7. Q \in Seq(Plan) /\ PlansOk(files, aliases, Q)
  BY <1>2, <1>5, <1>6, PlansAfter
<1>8. Grows(files, files, aliases, aliases)
  BY DEF Grows
<1>9. FramesOk(stage, files, aliases, scanned, T)
  BY <1>1, <1>2, <1>4, <1>8, FramesTail
<1>10. T \in Seq(Frame)
  BY <1>1, <1>2, <1>4, TailIs
<1>11. StubOk(files, T)
  BY <1>1, <1>2, <1>3 DEF StubOk
<1>12. ProgsOk(files, T)
  BY <1>1, <1>2, <1>3 DEF ProgsOk
<1>13. ScansOk(files, T, scanned)
  <2> SUFFICES ASSUME NEW t \in scanned, NEW c \in sys.calls[t], ~Settled(files, c) PROVE Awaited(T, t, c)
    BY DEF ScansOk
  <2>1. Awaited(stack, t, c)
    BY <1>2 DEF ScansOk
  <2> QED
    BY <1>1, <1>2, <1>3, <1>4, <2>1, AwaitedTail
<1>14. BuildOk(stage', todo', stack', files', aliases', scanned', plans')
  BY <1>1, <1>2, <1>4, <1>5, <1>7, <1>9, <1>11, <1>12, <1>13 DEF BuildOk
<1>15. TypeOK'
  BY <1>1, <1>2, <1>4, <1>5, <1>7, <1>10, BuildTypes
<1> QED
  BY <1>1, <1>2, <1>14, <1>15, InvHolds

\* The entries are dealt with.
LEMMA EndEntriesKeeps == ClosureInv /\ EndEntries => ClosureInv'
<1> SUFFICES ASSUME ClosureInv, EndEntries PROVE ClosureInv'
  OBVIOUS
<1>1. /\ stage = "entries" /\ stack = <<>> /\ stage' = "traced" /\ todo' = sys.traced
      /\ UNCHANGED <<sys, stack, files, aliases, scanned, plans>>
  BY DEF EndEntries
<1>2. /\ TypeOK /\ sys \in System /\ stack \in Seq(Frame) /\ plans \in Seq(Plan)
      /\ FilesOk(files) /\ StubOk(files, stack) /\ AliasOk(aliases) /\ TodoOk(stage, todo)
      /\ FramesOk(stage, files, aliases, scanned, stack) /\ PlansOk(files, aliases, plans)
      /\ ProgsOk(files, stack) /\ ScansOk(files, stack, scanned)
  BY <1>1, InvParts DEF Building
<1>3. /\ DOMAIN files \subseteq Sources /\ aliases \subseteq Sources \X Places /\ scanned \subseteq ScriptPaths
  BY <1>2 DEF TypeOK
<1>4. sys.traced \in Seq(Elves \cup {Ld})
  BY <1>2, RootIs
<1>5. todo' \in Seq(Elves \cup ScriptPaths \cup {Ld}) /\ TodoOk(stage', todo')
  <2>1. PICK td : td = sys.traced
    OBVIOUS
  <2>2. td \in Seq(Elves \cup {Ld}) /\ \A i \in 1..Len(td) : td[i] \in Range(td)
    BY <1>4, <2>1 DEF Range
  <2>3. td \in Seq(Elves \cup ScriptPaths \cup {Ld})
    BY <2>2
  <2> QED
    BY <1>1, <2>1, <2>2, <2>3 DEF TodoOk
<1>6. FramesOk(stage', files, aliases, scanned, stack)
  BY <1>1 DEF FramesOk
<1>7. BuildOk(stage', todo', stack', files', aliases', scanned', plans')
  BY <1>1, <1>2, <1>5, <1>6 DEF BuildOk
<1>8. TypeOK'
  BY <1>1, <1>2, <1>3, <1>5, BuildTypes
<1> QED
  BY <1>1, <1>7, <1>8, InvHolds

\* The clash of the linkers is decided.
LEMMA FinishKeeps == ClosureInv /\ Finish => ClosureInv'
<1> SUFFICES ASSUME ClosureInv, Finish PROVE ClosureInv'
  OBVIOUS
<1>1. /\ stage = "traced" /\ stack = <<>> /\ stage' = "done" /\ files' = Kept(files)
      /\ UNCHANGED <<sys, todo, stack, aliases, scanned, plans>>
  BY DEF Finish
<1>2. TypeOK /\ BuildOk(stage, todo, stack, files, aliases, scanned, plans)
  BY <1>1 DEF ClosureInv, Building
<1>3. /\ sys \in System /\ stack \in Seq(Frame) /\ plans \in Seq(Plan)
      /\ todo \in Seq(Elves \cup ScriptPaths \cup {Ld}) /\ DOMAIN files \subseteq Sources
      /\ aliases \subseteq Sources \X Places /\ scanned \in SUBSET ScriptPaths
  BY <1>2 DEF TypeOK
<1>4. EndOk(files', aliases', scanned', plans')
  BY <1>1, <1>2, <1>3, FinishEnds
<1>5. DOMAIN files' \subseteq Sources
  BY <1>1, <1>3, KeptIs
<1>6. TypeOK'
  BY <1>1, <1>2, <1>3, <1>4, <1>5, BuildTypes DEF EndOk
<1>7. EndOk(files, aliases, scanned, plans)'
  BY <1>1, <1>4, SameEnd
<1> QED
  BY <1>1, <1>6, <1>7 DEF ClosureInv, Building

\* One step of the program, or none.
LEMMA ClosureStep == ClosureInv /\ [Next]_vars => ClosureInv'
<1> SUFFICES ASSUME ClosureInv, [Next]_vars PROVE ClosureInv'
  OBVIOUS
<1>1. CASE UNCHANGED vars
  <2>1. /\ sys' = sys /\ stage' = stage /\ todo' = todo /\ stack' = stack /\ files' = files
        /\ aliases' = aliases /\ scanned' = scanned /\ plans' = plans
    BY <1>1 DEF vars
  <2>2. TypeOK'
    BY <2>1 DEF ClosureInv, TypeOK
  <2>3. Building => BuildOk(stage, todo, stack, files, aliases, scanned, plans)'
    BY <2>1, SameBuild DEF ClosureInv
  <2>4. stage = "done" => EndOk(files, aliases, scanned, plans)'
    BY <2>1, SameEnd DEF ClosureInv
  <2> QED
    BY <2>1, <2>2, <2>3, <2>4 DEF ClosureInv, Building
<1> QED
  BY <1>1, BeginKeeps, VisitKeeps, EndBinaryKeeps, ScanCommandKeeps, EndScanKeeps,
     EndEntriesKeeps, FinishKeeps DEF Next

LEMMA ClosureAlways == Spec => []ClosureInv
BY InitInv, ClosureStep, PTL DEF Spec

\* Files come only from known places to places of the bundle, activations and
\* plans are as declared, whatever is searched, scanned or traced
\* (ClosureBuilder::build and all that it calls).
THEOREM ClosureTypes == Spec => []TypeOK
<1>1. ClosureInv => TypeOK
  BY DEF ClosureInv
<1> QED
  BY <1>1, ClosureAlways, PTL

\* For any root: the directories of a plan, in the order of their names, let
\* the linker find every library of the entry, and the file that was found in
\* the root unless it has several of the name (build_binary_plan).
THEOREM ClosureLibrariesFound == Spec => []LibrariesFound
BY ClosureAlways, InvLibraries, PTL

\* For any root, entries and trace: the linker that a plan names is in the
\* bundle in the end, but for a stub that comes back and comes first
\* (the substitution and the error paths of build_binary_plan, the destinations
\* in build).
THEOREM ClosureLinkerServes == Spec => []LinkerServes
BY ClosureAlways, InvLinker, PTL

\* For any root: a program in the bundle has there what the linker lists for
\* it, also if its search was broken off within a scan and came to it from
\* another path later; but for a program that no entry is, without its
\* PT_INTERP or one that the linker cannot list (build_entry_plan, its callers).
THEOREM ClosureProgramsHaveLibraries == Spec => []ProgramsHaveLibraries
BY ClosureAlways, InvPrograms, PTL

\* However scripts call each other, and whatever of it fails: every command of
\* every scanned script is in the bundle, unless it is a script whose
\* interpreter no entry could have (collect_bash_dependencies).
THEOREM ClosureScannedComplete == Spec => []ScannedComplete
BY ClosureAlways, InvScanned, PTL
=============================================================================
