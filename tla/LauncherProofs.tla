---------------------------- MODULE LauncherProofs ----------------------------
(***************************************************************************)
(* Launchers that go through PayloadData are launchers of PayloadData, and *)
(* those destroy data only when two of them fill payload/data at once.     *)
(* The entries they start find in their environment what the validator saw *)
(* and what was recorded.                                                  *)
(***************************************************************************)
EXTENDS Launcher, TLAPS, WellFoundedInduction, FiniteSetTheorems, SequenceTheorems

\* Some launcher's view of what it has still to link or copy: all files
\* before it tried to mount, then what is on its list.
Left(l) == IF pc[l] = "mount" THEN Files ELSE todo[l]

\* A launcher that fills alone finds nothing in the place of a file it has
\* still to store, neither by a mount nor by a link, so that it never copies a
\* file onto itself.
FillsAlone ==
    ~together =>
        /\ lost = {}
        /\ \A k, l \in Launchers : pc[k] \in Filling /\ pc[l] \in Filling => k = l
        /\ \A l \in Launchers : pc[l] \in Filling =>
              /\ l \notin mounted
              /\ \A f \in Left(l) : mirror[f] = "absent"
              /\ pc[l] = "copy" => cur[l] \notin todo[l]

IInv == TypeOK /\ FillsAlone

LEMMA NoFileIsNoFile == NoFile \notin Files
  BY FilesExist

LEMMA InitInv == Init => IInv
<1> SUFFICES ASSUME Init PROVE TypeOK /\ FillsAlone
  BY DEF IInv
<1>1. TypeOK
  BY DEF Init, TypeOK, Filling, Ends
<1>2. FillsAlone
  BY DEF Init, FillsAlone, Filling
<1> QED
  BY <1>1, <1>2

LEMMA StepType == TypeOK /\ [Next]_vars => TypeOK'
<1> SUFFICES ASSUME TypeOK, [Next]_vars PROVE TypeOK'
  OBVIOUS
<1> USE DEF TypeOK, Goto, Filling, Ends
<1>1. ASSUME NEW l \in Launchers, Isolate(l) PROVE TypeOK'
  BY <1>1 DEF Isolate
<1>2. ASSUME NEW l \in Launchers, Check(l) PROVE TypeOK'
  BY <1>2 DEF Check
<1>3. ASSUME NEW l \in Launchers, BindMount(l) PROVE TypeOK'
  BY <1>3 DEF BindMount
<1>4. ASSUME NEW l \in Launchers, LinkFile(l) PROVE TypeOK'
  BY <1>4 DEF LinkFile, Advance
<1>5. ASSUME NEW l \in Launchers, CopyFile(l) PROVE TypeOK'
  BY <1>5 DEF CopyFile, Advance
<1>6. ASSUME NEW l \in Launchers, EndCopy(l) PROVE TypeOK'
  BY <1>6 DEF EndCopy
<1>7. ASSUME NEW l \in Launchers, Enter(l) PROVE TypeOK'
  BY <1>7 DEF Enter
<1>8. ASSUME NEW l \in Launchers, BreakOff(l) PROVE TypeOK'
  BY <1>8 DEF BreakOff
<1>9. CASE UNCHANGED vars
  BY <1>9 DEF vars
<1> QED
  BY <1>1, <1>2, <1>3, <1>4, <1>5, <1>6, <1>7, <1>8, <1>9 DEF Next, Step

LEMMA StepInv == IInv /\ [Next]_vars => IInv'
<1> SUFFICES ASSUME IInv, [Next]_vars PROVE IInv'
  OBVIOUS
<1>t. TypeOK /\ TypeOK'
  BY StepType DEF IInv
<1>f. FillsAlone
  BY DEF IInv
<1> USE <1>t, <1>f DEF TypeOK, FillsAlone, Goto, Filling, Ends, Left
<1>1. ASSUME NEW l \in Launchers, Isolate(l) PROVE FillsAlone'
  BY <1>1 DEF Isolate
<1>2. ASSUME NEW l \in Launchers, Check(l) PROVE FillsAlone'
  BY <1>2 DEF Check, Populated
<1>3. ASSUME NEW l \in Launchers, BindMount(l) PROVE FillsAlone'
  BY <1>3 DEF BindMount
<1>4. ASSUME NEW l \in Launchers, LinkFile(l) PROVE FillsAlone'
  BY <1>4 DEF LinkFile, Advance
<1>5. ASSUME NEW l \in Launchers, CopyFile(l) PROVE FillsAlone'
  BY <1>5 DEF CopyFile, Advance
<1>6. ASSUME NEW l \in Launchers, EndCopy(l) PROVE FillsAlone'
  BY <1>6 DEF EndCopy
<1>7. ASSUME NEW l \in Launchers, Enter(l) PROVE FillsAlone'
  BY <1>7 DEF Enter
<1>8. ASSUME NEW l \in Launchers, BreakOff(l) PROVE FillsAlone'
  BY <1>8 DEF BreakOff
<1>9. ASSUME UNCHANGED vars PROVE FillsAlone'
  BY <1>9 DEF vars
<1> QED
  BY <1>1, <1>2, <1>3, <1>4, <1>5, <1>6, <1>7, <1>8, <1>9 DEF Next, Step, IInv

\* What PayloadData promises: launchers in run mode chroot destroy no data
\* unless two of them fill payload/data at once (ensure_payload_data).
THEOREM DataSurvivesOne == Spec => []LossNeedsTwo
<1>1. Init => IInv
  BY InitInv
<1>2. IInv /\ [Next]_vars => IInv'
  BY StepInv
<1>3. IInv => LossNeedsTwo
  BY DEF IInv, FillsAlone, LossNeedsTwo
<1> QED
  BY <1>1, <1>2, <1>3, PTL DEF Spec

-----------------------------------------------------------------------------
\* While launchers fill payload/data one at a time and none breaks off half
\* way, it is empty, or complete, or the launcher that fills it knows what is
\* missing; and an entry is on its way or runs only where something is.
Stored(f) == mirror[f] \in {"link", "copy"}
Copies ==
    \A l \in Launchers : IF pc[l] = "copy" THEN cur[l] \in Files ELSE cur[l] = NoFile
Served ==
    \A l \in Launchers : pc[l] \in {"enter", "running"} =>
        l \in mounted \/ \E f \in Files : mirror[f] # "absent"
Whole ==
    (\A l \in Launchers : pc[l] \notin Filling) =>
        (\A f \in Files : mirror[f] = "absent") \/ (\A f \in Files : Stored(f))
Rest ==
    \A l \in Launchers : \A f \in Files \ todo[l] :
        pc[l] = "mirror" \/ (pc[l] = "copy" /\ f # cur[l]) => Stored(f)
OneByOne == ~together /\ ~broken => Copies /\ Served /\ Whole /\ Rest

LEMMA StepOneByOne ==
  ASSUME IInv, OneByOne, [Next]_vars
  PROVE  OneByOne'
<1> SUFFICES ASSUME ~together', ~broken'
             PROVE  Copies' /\ Served' /\ Whole' /\ Rest'
  BY DEF OneByOne
<1>t. TypeOK /\ TypeOK'
  BY StepType DEF IInv
<1>o. ~together /\ ~broken
  <2>1. together \in BOOLEAN /\ broken \in BOOLEAN
    BY <1>t DEF TypeOK
  <2>2. (together => together') /\ (broken => broken')
    BY <2>1 DEF Next, Step, Isolate, Check, BindMount, LinkFile, CopyFile, EndCopy, Enter, BreakOff, vars
  <2> QED
    BY <2>1, <2>2
<1>h. Copies /\ Served /\ Whole /\ Rest
  BY <1>o DEF OneByOne
<1>a. /\ lost = {}
      /\ \A k, l \in Launchers : pc[k] \in Filling /\ pc[l] \in Filling => k = l
      /\ \A l \in Launchers : pc[l] \in Filling =>
            /\ l \notin mounted
            /\ \A f \in Left(l) : mirror[f] = "absent"
            /\ pc[l] = "copy" => cur[l] \notin todo[l]
  BY <1>o DEF IInv, FillsAlone
<1> USE <1>t, <1>h DEF TypeOK, Goto
\* The steps that leave payload/data alone.
<1>s. ASSUME UNCHANGED <<mirror, cur, todo>>, mounted \subseteq mounted', NEW l \in Launchers,
             \A k \in Launchers : k # l => pc'[k] = pc[k],
             pc[l] # "copy", pc'[l] \notin {"copy", "mirror"},
             pc'[l] \in {"enter", "running"} =>
                 pc[l] = "enter" \/ l \in mounted' \/ \E f \in Files : mirror[f] # "absent",
             pc[l] \in Filling => pc'[l] \in Filling \/ \A f \in Files : mirror[f] = "absent"
      PROVE  Copies' /\ Served' /\ Whole' /\ Rest'
  <2>1. Copies'
    BY <1>s DEF Copies
  <2>2. Served'
    BY <1>s DEF Served
  <2>3. Whole'
    BY <1>s DEF Whole, Stored
  <2>4. Rest'
    BY <1>s DEF Rest, Stored
  <2> QED
    BY <2>1, <2>2, <2>3, <2>4
<1>1. ASSUME NEW l \in Launchers, Isolate(l) PROVE Copies' /\ Served' /\ Whole' /\ Rest'
  BY <1>1, <1>s DEF Isolate, Filling
<1>2. ASSUME NEW l \in Launchers, Check(l) PROVE Copies' /\ Served' /\ Whole' /\ Rest'
  BY <1>2, <1>s DEF Check, Populated, Filling
<1>3. ASSUME NEW l \in Launchers, BindMount(l) PROVE Copies' /\ Served' /\ Whole' /\ Rest'
  <2>1. pc[l] = "mount" /\ \A f \in Files : mirror[f] = "absent"
    BY <1>3, <1>a DEF BindMount, Left, Filling
  <2>2. CASE /\ mounted' = mounted \cup (IF l \in isolated THEN {l} ELSE Launchers \ isolated)
             /\ pc' = [pc EXCEPT ![l] = "enter"] /\ UNCHANGED todo
    BY <1>3, <2>1, <2>2, <1>s DEF BindMount
  <2>3. CASE todo' = [todo EXCEPT ![l] = Files] /\ pc' = [pc EXCEPT ![l] = "mirror"] /\ UNCHANGED mounted
    <3>1. UNCHANGED <<mirror, cur>>
      BY <1>3 DEF BindMount
    <3>2. Copies' /\ Served'
      BY <2>1, <2>3, <3>1 DEF Copies, Served
    <3>3. Whole' /\ Rest'
      BY <2>1, <2>3, <3>1 DEF Whole, Rest, Stored, Filling
    <3> QED
      BY <3>2, <3>3
  <2> QED
    BY <1>3, <2>2, <2>3 DEF BindMount
<1>4. ASSUME NEW l \in Launchers, LinkFile(l) PROVE Copies' /\ Served' /\ Whole' /\ Rest'
  <2>1. pc[l] = "mirror" /\ UNCHANGED <<mounted, cur>>
    BY <1>4 DEF LinkFile
  <2>2. PICK f \in todo[l] : /\ mirror' = [mirror EXCEPT ![f] = "link"]
                             /\ todo' = [todo EXCEPT ![l] = @ \ {f}]
    BY <1>4 DEF LinkFile
  <2>3. /\ f \in Files /\ mirror'[f] = "link"
        /\ pc' = [pc EXCEPT ![l] = IF todo[l] \ {f} = {} THEN "enter" ELSE "mirror"]
    BY <1>4, <2>1, <2>2 DEF LinkFile, Advance
  <2>4. \A k \in Launchers : k # l => pc[k] \notin Filling
    BY <2>1, <1>a DEF Filling
  <2>5. \A g \in Files \ todo'[l] : mirror'[g] \in {"link", "copy"}
    BY <2>1, <2>2, <2>3 DEF Rest, Stored
  <2>6. Copies'
    BY <2>1, <2>3 DEF Copies
  <2>7. Served'
    BY <2>1, <2>2, <2>3 DEF Served
  <2>8. Whole'
    BY <2>1, <2>2, <2>3, <2>5 DEF Whole, Stored, Filling
  <2>9. Rest'
    BY <2>1, <2>3, <2>4, <2>5 DEF Rest, Stored, Filling
  <2> QED
    BY <2>6, <2>7, <2>8, <2>9
<1>5. ASSUME NEW l \in Launchers, CopyFile(l) PROVE Copies' /\ Served' /\ Whole' /\ Rest'
  <2>1. pc[l] = "mirror" /\ l \notin mounted /\ UNCHANGED mounted
    BY <1>5, <1>a DEF CopyFile, Filling
  <2>2. PICK f \in todo[l] : /\ todo' = [todo EXCEPT ![l] = @ \ {f}]
                             /\ IF l \in mounted \/ mirror[f] = "link"
                                THEN UNCHANGED <<mirror, cur>>
                                ELSE /\ mirror' = [mirror EXCEPT ![f] = "partial"]
                                     /\ cur' = [cur EXCEPT ![l] = f]
                                     /\ Goto(l, "copy")
    BY <1>5 DEF CopyFile
  <2>3. mirror[f] = "absent"
    BY <2>1, <2>2, <1>a DEF Left, Filling
  <2>4. /\ f \in Files /\ mirror' = [mirror EXCEPT ![f] = "partial"] /\ cur' = [cur EXCEPT ![l] = f]
        /\ pc' = [pc EXCEPT ![l] = "copy"]
    BY <2>1, <2>2, <2>3
  <2>5. \A k \in Launchers : k # l => pc[k] \notin Filling
    BY <2>1, <1>a DEF Filling
  <2>6. Copies' /\ Served'
    BY <2>1, <2>4 DEF Copies, Served
  <2>7. Whole'
    BY <2>4 DEF Whole, Filling
  <2>8. Rest'
    BY <2>1, <2>2, <2>4, <2>5 DEF Rest, Stored, Filling
  <2> QED
    BY <2>6, <2>7, <2>8
<1>6. ASSUME NEW l \in Launchers, EndCopy(l) PROVE Copies' /\ Served' /\ Whole' /\ Rest'
  <2>1. pc[l] = "copy" /\ cur[l] \in Files /\ UNCHANGED <<mounted, todo>>
    BY <1>6 DEF EndCopy, Copies
  <2>2. \A k \in Launchers : k # l => pc[k] \notin Filling /\ cur[k] # cur[l]
    BY <2>1, <1>a, NoFileIsNoFile DEF Filling, Copies
  <2>3. mirror' = [mirror EXCEPT ![cur[l]] = "copy"]
    BY <1>6, <1>a, <2>2 DEF EndCopy
  <2>4. /\ cur' = [cur EXCEPT ![l] = NoFile]
        /\ pc' = [pc EXCEPT ![l] = IF todo[l] = {} THEN "enter" ELSE "mirror"]
    BY <1>6 DEF EndCopy
  <2>5. \A g \in Files \ todo[l] : mirror'[g] \in {"link", "copy"}
    BY <2>1, <2>3 DEF Rest, Stored
  <2>6. Copies'
    BY <2>1, <2>4 DEF Copies
  <2>7. Served'
    BY <2>1, <2>3, <2>4 DEF Served
  <2>8. Whole'
    BY <2>1, <2>4, <2>5 DEF Whole, Stored, Filling
  <2>9. Rest'
    BY <2>1, <2>2, <2>4, <2>5 DEF Rest, Stored, Filling
  <2> QED
    BY <2>6, <2>7, <2>8, <2>9
<1>7. ASSUME NEW l \in Launchers, Enter(l) PROVE Copies' /\ Served' /\ Whole' /\ Rest'
  BY <1>7, <1>s DEF Enter, Filling
<1>8. ASSUME NEW l \in Launchers, BreakOff(l) PROVE Copies' /\ Served' /\ Whole' /\ Rest'
  <2>1. pc[l] # "copy" /\ (pc[l] = "mirror" => todo[l] = Files)
    BY <1>8, <1>o DEF BreakOff
  <2>2. pc[l] \in Filling => \A f \in Files : mirror[f] = "absent"
    BY <2>1, <1>a DEF Filling, Left
  <2> QED
    BY <1>8, <2>1, <2>2, <1>s DEF BreakOff, Ends
<1>9. CASE UNCHANGED vars
  BY <1>9 DEF vars, Copies, Served, Whole, Rest, Stored
<1> QED
  BY <1>1, <1>2, <1>3, <1>4, <1>5, <1>6, <1>7, <1>8, <1>9 DEF Next, Step

\* Launchers in run mode chroot that fill payload/data one after the other,
\* none breaking off half way, leave every entry with its data, for any number
\* of launchers and files (ensure_payload_data, mirror_data_tree).
THEOREM DataServedOneByOne == Spec => []AloneIsEnough
<1>1. Init => IInv /\ OneByOne
  <2>1. Init => OneByOne
    BY DEF Init, OneByOne, Copies, Served, Whole, Rest
  <2> QED
    BY <2>1, InitInv
<1>2. IInv /\ OneByOne /\ [Next]_vars => (IInv /\ OneByOne)'
  BY StepInv, StepOneByOne
<1>3. IInv /\ OneByOne => AloneIsEnough
  <2> SUFFICES ASSUME IInv, OneByOne, ~together, ~broken, \A l \in Launchers : pc[l] \notin Filling,
                      NEW l \in Launchers, NEW f \in Files, pc[l] = "running"
               PROVE  Sees(l, f)
    BY DEF AloneIsEnough
  <2>1. lost = {}
    BY DEF IInv, FillsAlone
  <2>2. l \in mounted \/ Stored(f)
    BY DEF OneByOne, Served, Whole
  <2> QED
    BY <2>1, <2>2 DEF Sees, Stored
<1> QED
  BY <1>1, <1>2, <1>3, PTL DEF Spec

-----------------------------------------------------------------------------
\* Every step of a launcher is a step of PayloadData or leaves its state alone.
LEMMA LaunchStep == LaunchNext => [Next]_vars
<1> SUFFICES ASSUME LaunchNext PROVE [Next]_vars
  OBVIOUS
<1>1. PICK l \in Launchers :
         \/ \E from \in Launchers \cup {User}, b \in DOMAIN setup.bundles :
              \E name \in Names(b) : Launch(l, from, b, name)
         \/ Prepare(l) \/ EnterRoot(l) \/ GiveUp(l)
  BY DEF LaunchNext
<1>2. ASSUME NEW from, NEW b, NEW name, Launch(l, from, b, name) PROVE UNCHANGED vars
  BY <1>2 DEF Launch
<1>3. ASSUME Prepare(l) PROVE Next
  BY <1>3 DEF Prepare, Next, Step
<1>4. ASSUME EnterRoot(l) PROVE Next
  BY <1>4 DEF EnterRoot, Next, Step
<1>5. ASSUME GiveUp(l) PROVE Next
  BY <1>5 DEF GiveUp, Next
<1> QED
  BY <1>1, <1>2, <1>3, <1>4, <1>5

\* The launcher with everything around it implements PayloadData (exec_chroot
\* is the only way to the steps of ensure_payload_data).
THEOREM LauncherImplements == LaunchSpec => Spec
<1>1. LaunchInit => Init
  BY DEF LaunchInit
<1>2. [LaunchNext]_<<vars, launchVars>> => [Next]_vars
  BY LaunchStep
<1> QED
  BY <1>1, <1>2, PTL DEF LaunchSpec, Spec

\* The same promise of the whole launcher, in every bundle and run mode.
THEOREM LauncherLossNeedsTwo == LaunchSpec => []LossNeedsTwo
  BY LauncherImplements, DataSurvivesOne, PTL

\* And of what it leaves to the entries.
THEOREM LauncherAloneIsEnough == LaunchSpec => []AloneIsEnough
  BY LauncherImplements, DataServedOneByOne, PTL

-----------------------------------------------------------------------------
(* Least and greatest numbers, and what Pick keeps.                        *)

\* Every set of naturals with an element has a least one.
LEMMA Least == \A T \in SUBSET Nat : T # {} => \E n \in T : \A m \in T : n <= m
<1>1. PICK R : R = OpToRel(<, Nat)
  OBVIOUS
<1>2. IsWellFoundedOn(R, Nat)
  BY <1>1, NatLessThanWellFounded
<1>3. \A a, b \in Nat : a < b => <<a, b>> \in R
  BY <1>1 DEF OpToRel
<1> SUFFICES ASSUME NEW T \in SUBSET Nat, T # {} PROVE \E n \in T : \A m \in T : n <= m
  OBVIOUS
<1>4. PICK x \in T : \A y \in T : ~ (<<y, x>> \in R)
  BY <1>2, WFMin
<1>5. ASSUME NEW y \in T PROVE x <= y
  <2>1. ~(y < x)
    BY <1>3, <1>4
  <2> QED
    BY <2>1
<1> QED
  BY <1>5

LEMMA MinIsLeast ==
  ASSUME NEW T \in SUBSET Nat, T # {}
  PROVE  Min(T) \in T /\ \A m \in T : Min(T) <= m
  BY Least DEF Min

LEMMA MaxIsLast ==
  ASSUME NEW n \in Nat, NEW T \in SUBSET (1..n), T # {}
  PROVE  Max(T) \in T /\ \A m \in T : m <= Max(T)
<1>1. {n - m : m \in T} \in SUBSET Nat /\ {n - m : m \in T} # {}
  <2>1. \A m \in T : n - m \in Nat
    OBVIOUS
  <2> QED
    BY <2>1
<1>2. PICK m \in T : \A k \in {n - i : i \in T} : n - m <= k
  BY <1>1, Least
<1>3. \A i \in T : i <= m
  <2> TAKE i \in T
  <2>1. n - m <= n - i
    BY <1>2
  <2> QED
    BY <2>1
<1> QED
  BY <1>3 DEF Max

\* The places of numbers among others are the first ones, each taken once.
PlacesIn(I) == [i \in I |-> Cardinality({j \in I : j < i})]
LEMMA Places ==
  ASSUME NEW I \in SUBSET Nat, IsFiniteSet(I),
         NEW place, place = PlacesIn(I)
  PROVE  /\ Cardinality(I) \in Nat
         /\ place \in [I -> 0..(Cardinality(I) - 1)]
         /\ \A i, k \in I : i < k => place[i] < place[k]
         /\ \A n \in 0..(Cardinality(I) - 1) : \E i \in I : place[i] = n
<1>1. PICK N : N = Cardinality(I)
  OBVIOUS
<1>p. place = [i \in I |-> Cardinality({j \in I : j < i})]
  BY DEF PlacesIn
<1>2. N \in Nat
  BY <1>1, FS_CardinalityType
<1>3. ASSUME NEW i \in I
      PROVE  /\ IsFiniteSet({j \in I : j < i}) /\ place[i] \in Nat /\ place[i] <= N - 1
  <2>1. IsFiniteSet(I \ {i}) /\ Cardinality(I \ {i}) = N - 1
    BY <1>1, FS_RemoveElement
  <2>2. {j \in I : j < i} \in SUBSET (I \ {i})
    OBVIOUS
  <2>3. IsFiniteSet({j \in I : j < i}) /\ Cardinality({j \in I : j < i}) <= N - 1
    BY <2>1, <2>2, FS_Subset
  <2> QED
    BY <2>3, <1>p, FS_CardinalityType
<1>4. ASSUME NEW i \in I, NEW k \in I, i < k
      PROVE  place[i] < place[k]
  <2>1. PICK A, B : A = {j \in I : j < i} /\ B = {j \in I : j < k}
    OBVIOUS
  <2>2. i \in Nat /\ k \in Nat /\ \A j \in I : j \in Nat
    OBVIOUS
  <2>3. ASSUME NEW j \in A PROVE j \in B
    <3>1. j \in Nat /\ j < i /\ j < k
      BY <1>4, <2>1, <2>2
    <3> QED
      BY <2>1, <3>1
  <2>4. i \in B /\ i \notin A
    BY <1>4, <2>1, <2>2
  <2>5. place[i] = Cardinality(A) /\ place[k] = Cardinality(B)
    BY <1>p, <2>1
  <2>6. IsFiniteSet(B)
    BY <1>3, <2>1
  <2>7. Cardinality(A) <= Cardinality(B) /\ Cardinality(B) # Cardinality(A)
    BY <2>3, <2>4, <2>6, FS_Subset
  <2>8. place[i] \in Nat /\ place[k] \in Nat
    BY <1>3
  <2> QED
    BY <2>5, <2>7, <2>8
<1>5. place \in [I -> 0..(N - 1)]
  <2>1. \A i \in I : place[i] \in Nat /\ place[i] <= N - 1
    BY <1>3
  <2> QED
    BY <1>2, <1>p, <2>1
<1>6. place \in Injection(I, 0..(N - 1))
  <2>1. ASSUME NEW i \in I, NEW k \in I, place[i] = place[k] PROVE i = k
    <3>1. ~(i < k) /\ ~(k < i)
      <4> i \in Nat /\ k \in Nat /\ place[i] \in Nat /\ place[k] \in Nat
        BY <1>3
      <4> QED
        BY <1>4, <2>1
    <3> QED
      BY <3>1
  <2> QED
    BY <1>5, <2>1 DEF Injection, IsInjective
<1>7. IsFiniteSet(0..(N - 1)) /\ Cardinality(0..(N - 1)) = N
  <2>1. IsFiniteSet(0..(N - 1)) /\ Cardinality(0..(N - 1)) = IF 0 > N - 1 THEN 0 ELSE (N - 1) - 0 + 1
    BY <1>2, FS_Interval
  <2> QED
    BY <1>2, <2>1
<1>8. place \in Surjection(I, 0..(N - 1))
  BY <1>1, <1>6, <1>7, FS_Injection
<1>9. \A n \in 0..(N - 1) : \E i \in I : place[i] = n
  BY <1>8 DEF Surjection
<1> QED
  BY <1>1, <1>2, <1>4, <1>5, <1>9

\* Pick keeps the elements at I, all of them, in their order.
LEMMA PickKeeps ==
  ASSUME NEW S, NEW s \in Seq(S), NEW I \in SUBSET DOMAIN s
  PROVE  /\ Pick(s, I) \in Seq(S)
         /\ \E at \in [DOMAIN Pick(s, I) -> I] :
               /\ \A k \in DOMAIN Pick(s, I) : Pick(s, I)[k] = s[at[k]]
               /\ \A i \in I : \E k \in DOMAIN Pick(s, I) : at[k] = i
               /\ \A k, m \in DOMAIN Pick(s, I) : k < m => at[k] < at[m]
<1>1. DOMAIN s = 1..Len(s) /\ Len(s) \in Nat
  OBVIOUS
<1>2. I \in SUBSET Nat /\ IsFiniteSet(I)
  <2>1. IsFiniteSet(1..Len(s))
    BY <1>1, FS_Interval
  <2> QED
    BY <1>1, <2>1, FS_Subset
<1>3. PICK N, place : N = Cardinality(I) /\ place = PlacesIn(I)
  OBVIOUS
<1>4. /\ N \in Nat
      /\ place \in [I -> 0..(N - 1)]
      /\ \A i, k \in I : i < k => place[i] < place[k]
      /\ \A n \in 0..(N - 1) : \E i \in I : place[i] = n
  BY <1>2, <1>3, Places
<1>5. PICK at : at = [k \in 1..N |-> CHOOSE i \in I : Cardinality({j \in I : j < i}) = k - 1]
  OBVIOUS
<1>6. \A k \in 1..N : at[k] \in I /\ place[at[k]] = k - 1
  <2> TAKE k \in 1..N
  <2>1. k - 1 \in 0..(N - 1)
    BY <1>4
  <2>2. \E i \in I : Cardinality({j \in I : j < i}) = k - 1
    BY <1>3, <1>4, <2>1 DEF PlacesIn
  <2>3. at[k] \in I /\ Cardinality({j \in I : j < at[k]}) = k - 1
    BY <1>5, <2>2
  <2> QED
    BY <1>3, <2>3 DEF PlacesIn
<1>7. Pick(s, I) = [k \in 1..N |-> s[at[k]]]
  BY <1>3, <1>5 DEF Pick
<1>8. at \in [1..N -> I]
  BY <1>5, <1>6
<1>9. \A i, k \in I : i \in Nat /\ k \in Nat /\ place[i] \in Nat /\ place[k] \in Nat
  BY <1>2, <1>4
<1>10. \A i \in I : \E k \in 1..N : at[k] = i
  <2> TAKE i \in I
  <2>1. PICK k : k = place[i] + 1
    OBVIOUS
  <2>2. k \in 1..N /\ k - 1 = place[i]
    <3>1. place[i] \in 0..(N - 1) /\ N \in Nat
      BY <1>4
    <3> QED
      BY <2>1, <3>1
  <2>3. place[at[k]] = place[i] /\ at[k] \in I
    BY <1>6, <2>2
  <2>4. ~(at[k] < i) /\ ~(i < at[k])
    BY <1>4, <1>9, <2>3
  <2>5. at[k] = i
    BY <1>9, <2>3, <2>4
  <2> QED
    BY <2>2, <2>5
<1>11. \A k, m \in 1..N : k < m => at[k] < at[m]
  <2> SUFFICES ASSUME NEW k \in 1..N, NEW m \in 1..N, k < m PROVE at[k] < at[m]
    OBVIOUS
  <2>1. place[at[k]] < place[at[m]] /\ at[k] \in I /\ at[m] \in I
    BY <1>4, <1>6
  <2>2. ~(at[m] < at[k]) /\ at[m] # at[k]
    BY <1>4, <1>9, <2>1
  <2> QED
    BY <1>9, <2>1, <2>2
<1>12. Pick(s, I) \in Seq(S)
  <2>1. Pick(s, I) \in [1..N -> S]
    BY <1>7, <1>8
  <2> QED
    BY <1>4, <2>1, SeqDef
<1> QED
  BY <1>7, <1>8, <1>10, <1>11, <1>12

-----------------------------------------------------------------------------
(* Paths and their types.                                                  *)

LEMMA SeqOfTwo ==
  ASSUME NEW S, NEW a \in S, NEW b \in S
  PROVE  <<a, b>> \in Seq(S) /\ <<a>> \in Seq(S)
  OBVIOUS

LEMMA Roots ==
  ASSUME NEW b \in FileNames
  PROVE  /\ Root(b) \in Path /\ Root(b) = <<"/", b>>
         /\ Payload(b) \in Path /\ Payload(b) = Root(b) \o <<"payload">>
         /\ <<"/">> \in Path
<1>1. "/" \in FileNames /\ "payload" \in FileNames
  BY NamesInUse
<1>2. <<"/", b>> \in Seq(FileNames) /\ <<"/">> \in Seq(FileNames) /\ <<"payload">> \in Seq(FileNames)
  BY <1>1, SeqOfTwo
<1>3. <<"/", b, "payload">> = <<"/", b>> \o <<"payload">>
  OBVIOUS
<1>4. <<"/", b>> \o <<"payload">> \in Seq(FileNames)
  BY <1>2
<1> QED
  BY <1>2, <1>3, <1>4 DEF Root, Payload, Path

\* Where a path leads that an entry uses, and the directory beside it.
LEMMA MappedPaths ==
  ASSUME NEW b \in FileNames, NEW p \in Path
  PROVE  /\ MapBundlePath(b, p) \in Path
         /\ Remap(b, p) \in Path
         /\ Outside(b, p) \in Path
         /\ Beside(p) \in Path
         /\ p \o <<"lib">> \in Path
<1> USE Roots DEF Path
<1>1. ASSUME p # <<>> PROVE Tail(p) \in Seq(FileNames) /\ Head(p) \in FileNames
  BY <1>1
<1>2. ASSUME NEW q \in Seq(FileNames) 
      PROVE  Root(b) \o q \in Seq(FileNames) /\ Payload(b) \o q \in Seq(FileNames) /\ <<"/">> \o q \in Seq(FileNames)
  BY Roots
<1>3. MapBundlePath(b, p) \in Seq(FileNames)
  BY <1>1, <1>2 DEF MapBundlePath, Absolute
<1>4. Remap(b, p) \in Seq(FileNames)
  BY <1>1, <1>2 DEF Remap, Absolute
<1>5. Outside(b, p) \in Seq(FileNames)
  BY <1>1, <1>2 DEF Outside, Absolute
<1>6. <<"lib">> \in Seq(FileNames)
  <2>1. "lib" \in FileNames
    BY NamesInUse
  <2> QED
    BY <2>1, SeqOfTwo
<1>7. Front(p) \in Seq(FileNames)
  <2>1. Len(p) \in Nat /\ \A i \in 1..Len(p) : p[i] \in FileNames
    <3>1. p \in Seq(FileNames)
      BY DEF Path
    <3> QED
      BY <3>1, LenProperties
  <2>2. \A i \in 1..(Len(p) - 1) : p[i] \in FileNames
    BY <2>1
  <2>3. 1 \in Int /\ Len(p) - 1 \in Int
    BY <2>1
  <2> QED
    BY <2>2, <2>3, SubSeqProperties DEF Front
<1>8. Beside(p) \in Seq(FileNames) /\ p \o <<"lib">> \in Seq(FileNames)
  BY <1>6, <1>7 DEF Beside
<1> QED
  BY <1>3, <1>4, <1>5, <1>8

\* A path is below the directory of a bundle by its first two names.
LEMMA FirstTwo ==
  ASSUME NEW S, NEW s \in Seq(S), Len(s) >= 2
  PROVE  /\ SubSeq(s, 1, 2) \in Seq(S) /\ Len(SubSeq(s, 1, 2)) = 2
         /\ SubSeq(s, 1, 2)[1] = s[1] /\ SubSeq(s, 1, 2)[2] = s[2]
<1>1. Len(s) \in Nat /\ \A i \in 1..2 : s[i] \in S
  OBVIOUS
<1>2. PICK m \in Int, n \in Int : m = 1 /\ n = 2
  OBVIOUS
<1>3. /\ SubSeq(s, m, n) \in Seq(S)
      /\ Len(SubSeq(s, m, n)) = IF m <= n THEN n - m + 1 ELSE 0
      /\ \A i \in 1..(n - m + 1) : SubSeq(s, m, n)[i] = s[m + i - 1]
  <2>1. \A i \in m..n : s[i] \in S
    BY <1>1, <1>2
  <2> QED
    BY <2>1, SubSeqProperties
<1>4. 1 \in 1..(n - m + 1) /\ 2 \in 1..(n - m + 1)
  BY <1>2
<1>5. SubSeq(s, m, n)[1] = s[m + 1 - 1] /\ SubSeq(s, m, n)[2] = s[m + 2 - 1]
  BY <1>3, <1>4
<1>6. m + 1 - 1 = 1 /\ m + 2 - 1 = 2 /\ (IF m <= n THEN n - m + 1 ELSE 0) = 2
  BY <1>2
<1> QED
  BY <1>2, <1>3, <1>5, <1>6

LEMMA BelowRoot ==
  ASSUME NEW b \in FileNames, NEW p \in Path
  PROVE  IsPrefix(Root(b), p) <=> Len(p) >= 2 /\ p[1] = "/" /\ p[2] = b
<1>1. PICK r : r = Root(b)
  OBVIOUS
<1>2. /\ r \in Seq(FileNames) /\ r = <<"/", b>>
      /\ p \in Seq(FileNames) /\ Len(p) \in Nat
  BY <1>1, Roots DEF Path
<1>3. Len(r) = 2 /\ r[1] = "/" /\ r[2] = b
  BY <1>2
<1>4. CASE Len(p) >= 2
  <2>1. /\ SubSeq(r, 1, 2) \in Seq(FileNames) /\ Len(SubSeq(r, 1, 2)) = 2
        /\ SubSeq(r, 1, 2)[1] = "/" /\ SubSeq(r, 1, 2)[2] = b
    BY <1>2, <1>3, FirstTwo
  <2>2. /\ SubSeq(p, 1, 2) \in Seq(FileNames) /\ Len(SubSeq(p, 1, 2)) = 2
        /\ SubSeq(p, 1, 2)[1] = p[1] /\ SubSeq(p, 1, 2)[2] = p[2]
    BY <1>2, <1>4, FirstTwo
  <2>3. ASSUME p[1] = "/", p[2] = b PROVE SubSeq(r, 1, 2) = SubSeq(p, 1, 2)
    <3>1. \A i \in 1..2 : SubSeq(r, 1, 2)[i] = SubSeq(p, 1, 2)[i]
      BY <2>1, <2>2, <2>3
    <3> QED
      BY <2>1, <2>2, <3>1, SeqEqual
  <2>4. IsPrefix(r, p) <=> SubSeq(r, 1, 2) = SubSeq(p, 1, 2)
    BY <1>2, <1>3, <1>4 DEF IsPrefix
  <2> QED
    BY <1>1, <1>4, <2>1, <2>2, <2>3, <2>4
<1>5. CASE ~(Len(p) >= 2)
  BY <1>1, <1>2, <1>3, <1>5 DEF IsPrefix
<1> QED
  BY <1>4, <1>5

-----------------------------------------------------------------------------
(* What the constants say of the setup.                                    *)

LEMMA SetupTypes ==
  ASSUME setup \in Setups
  PROVE  /\ setup.mode \in {"host", "bwrap", "chroot"} /\ setup.user \in Env
         /\ setup.buildHost \in SUBSET Path /\ setup.runHost \in SUBSET Path
<1>1. PICK r : r = [f \in {"mode", "user", "buildHost", "runHost"} |-> setup[f]]
  OBVIOUS
<1>2. r \in Setup
  BY <1>1, SetupsAreKnown
<1>3. /\ r.mode = setup.mode /\ r.user = setup.user
      /\ r.buildHost = setup.buildHost /\ r.runHost = setup.runHost
  BY <1>1
<1> QED
  BY <1>2, <1>3 DEF Setup

LEMMA BundleTypes ==
  ASSUME setup \in Setups, NEW b \in DOMAIN setup.bundles
  PROVE  /\ b \in FileNames /\ setup.bundles[b].plans \in Seq(Plan) /\ Tree(b) \in SUBSET Path
         /\ setup.bundles[b].set \in Path
<1>1. b \in FileNames /\ setup.bundles[b] \in Bundle
  BY SetupsAreKnown
<1> QED
  BY <1>1 DEF Bundle, Tree

\* An entry has a plan: the last of its name (write_config).
LEMMA PlanTypes ==
  ASSUME setup \in Setups, NEW b \in DOMAIN setup.bundles, NEW name \in Names(b)
  PROVE  PlanOf(b, name) \in Plan /\ PlanOf(b, name) \in ToSet(Plans(b))
<1>1. PICK s : s = Plans(b)
  OBVIOUS
<1>2. s \in Seq(Plan)
  BY <1>1, BundleTypes DEF Plans
<1>3. Len(s) \in Nat /\ DOMAIN s = 1..Len(s)
  BY <1>2
<1>4. PICK T : T = {i \in DOMAIN s : s[i].name = name}
  OBVIOUS
<1>5. T # {}
  BY <1>1, <1>4 DEF Names
<1>6. T \in SUBSET (1..Len(s))
  BY <1>3, <1>4
<1>7. Max(T) \in T
  BY <1>3, <1>5, <1>6, MaxIsLast
<1>8. PICK i \in DOMAIN s : i = Max(T) /\ s[i] \in Plan
  <2>1. \A i \in DOMAIN s : s[i] \in Plan
    BY <1>2
  <2> QED
    BY <1>4, <1>7, <2>1
<1>9. PlanOf(b, name) = s[Max(T)]
  BY <1>1, <1>4 DEF PlanOf
<1> QED
  BY <1>1, <1>8, <1>9 DEF ToSet

LEMMA EmptyEnvType == EmptyEnv \in Env
<1>1. \A S : <<>> \in Seq(S)
  OBVIOUS
<1> QED
  BY <1>1 DEF EmptyEnv, Env, Path

LEMMA MetaTypes ==
  ASSUME setup \in Setups, NEW b \in DOMAIN setup.bundles, NEW plan \in Plan
  PROVE  MetaOf(b, plan) \in Env \cup {NoMeta}
<1>1. plan.meta \in Env \cup {NoMeta}
  BY DEF Plan
<1>2. \A m \in Env, p \in Path : [m EXCEPT !.home = p] \in Env
  BY DEF Env
<1>3. Overridden(b, plan.meta) \in Env \cup {NoMeta}
  BY <1>1, <1>2, BundleTypes, EmptyEnvType DEF Overridden
<1> QED
  BY <1>3, EmptyEnvType DEF MetaOf

-----------------------------------------------------------------------------
(* build_env_block.                                                        *)

LEMMA SeqOfFun ==
  ASSUME NEW S, NEW T, NEW s \in Seq(S), NEW f, DOMAIN f = DOMAIN s, \A i \in DOMAIN s : f[i] \in T,
         f = [i \in DOMAIN f |-> f[i]]
  PROVE  f \in Seq(T) /\ Len(f) = Len(s)
<1>1. Len(s) \in Nat /\ DOMAIN s = 1..Len(s)
  OBVIOUS
<1>2. f \in [1..Len(s) -> T]
  BY <1>1
<1>3. f \in Seq(T)
  BY <1>1, <1>2, SeqDef
<1> QED
  BY <1>1, <1>2, <1>3

LEMMA MapTypes ==
  ASSUME NEW b \in FileNames, NEW s \in Seq(Path)
  PROVE  /\ Map(s, LAMBDA p : MapBundlePath(b, p)) \in Seq(Path)
         /\ Map(s, LAMBDA p : Remap(b, p)) \in Seq(Path)
         /\ Map(s, Beside) \in Seq(Path)
<1>1. \A i \in DOMAIN s : s[i] \in Path
  OBVIOUS
<1>2. ASSUME NEW f, f = Map(s, LAMBDA p : MapBundlePath(b, p)) PROVE f \in Seq(Path)
  <2>1. f = [i \in DOMAIN s |-> MapBundlePath(b, s[i])]
    BY <1>2 DEF Map
  <2>2. \A i \in DOMAIN s : f[i] \in Path
    BY <1>1, <2>1, MappedPaths
  <2> QED
    BY <2>1, <2>2, SeqOfFun
<1>3. ASSUME NEW f, f = Map(s, LAMBDA p : Remap(b, p)) PROVE f \in Seq(Path)
  <2>1. f = [i \in DOMAIN s |-> Remap(b, s[i])]
    BY <1>3 DEF Map
  <2>2. \A i \in DOMAIN s : f[i] \in Path
    BY <1>1, <2>1, MappedPaths
  <2> QED
    BY <2>1, <2>2, SeqOfFun
<1>4. ASSUME NEW f, f = Map(s, Beside) PROVE f \in Seq(Path)
  <2>1. f = [i \in DOMAIN s |-> Beside(s[i])]
    BY <1>4 DEF Map
  <2>2. \A i \in DOMAIN s : f[i] \in Path
    BY <1>1, <2>1, MappedPaths
  <2> QED
    BY <2>1, <2>2, SeqOfFun
<1> QED
  BY <1>2, <1>3, <1>4

\* The environment of an entry is one, and its LD_LIBRARY_PATH is that of the
\* recorded environment, or begins with the library paths of the plan and
\* other directories, each kept where it is first.
LEMMA BuildEnvIs ==
  ASSUME setup \in Setups, NEW b \in DOMAIN setup.bundles, NEW plan \in Plan, NEW own \in Env
  PROVE  /\ BuildEnv(b, plan, own) \in Env
         /\ BuildEnv(b, plan, own).home =
              Remap(b, IF MetaOf(b, plan) = NoMeta THEN own.home ELSE MetaOf(b, plan).home)
         /\ plan.dirs # <<>> =>
              \E rest, old \in Seq(Path) :
                BuildEnv(b, plan, own).libs =
                  Dedup(Map(plan.dirs, LAMBDA p : MapBundlePath(b, p)) \o rest) \o old
<1>1. b \in FileNames
  BY BundleTypes
<1>2. PICK base : base = IF MetaOf(b, plan) = NoMeta THEN own ELSE MetaOf(b, plan)
  OBVIOUS
<1>3. base \in Env
  BY <1>2, MetaTypes
<1>4. /\ base.home \in Path /\ base.pypath \in Seq(Path) /\ base.path \in Seq(Path)
      /\ base.libs \in Seq(Path) /\ plan.dirs \in Seq(Path)
  BY <1>3 DEF Env, Plan
<1>5. PICK home : home = Remap(b, base.home)
  OBVIOUS
<1>6. home \in Path /\ home \o <<"lib">> \in Path
  BY <1>1, <1>4, <1>5, MappedPaths
<1>7. PICK mapped : mapped = IF OnHost THEN Map(Absolutes(base.path), LAMBDA p : MapBundlePath(b, p))
                             ELSE IF base.path = <<>> THEN DefaultPath ELSE base.path
  OBVIOUS
<1>8. mapped \in Seq(Path)
  <2>1. Absolutes(base.path) \in Seq(Path)
    BY <1>4, PickKeeps DEF Absolutes
  <2>2. DefaultPath \in Seq(Path)
    <3>1. \A S : \A x, y, z \in S : <<x, y, z>> \in Seq(S)
      OBVIOUS
    <3>2. <<"/", "usr", "bin">> \in Path
      BY <3>1, NamesInUse DEF Path
    <3>3. \A x \in Path : <<x>> \in Seq(Path)
      BY SeqOfTwo
    <3> QED
      BY <3>2, <3>3 DEF DefaultPath
  <2> QED
    BY <1>1, <1>4, <1>7, <2>1, <2>2, MapTypes
<1>9. PICK own1 : own1 = Map(plan.dirs, LAMBDA p : MapBundlePath(b, p))
  OBVIOUS
<1>10. PICK lib, more : /\ lib = IF home = <<>> THEN <<>> ELSE <<home \o <<"lib">>>>
                        /\ more = Map(mapped, Beside)
  OBVIOUS
<1>11. own1 \in Seq(Path) /\ lib \in Seq(Path) /\ more \in Seq(Path)
  <2>1. lib \in Seq(Path)
    <3>1. <<>> \in Seq(Path)
      OBVIOUS
    <3>2. \A x \in Path : <<x>> \in Seq(Path)
      BY SeqOfTwo
    <3> QED
      BY <1>6, <1>10, <3>1, <3>2
  <2> QED
    BY <1>1, <1>4, <1>8, <1>9, <1>10, <2>1, MapTypes
<1>12. PICK dirs : dirs = own1 \o lib \o more
  OBVIOUS
<1>13. dirs = own1 \o (lib \o more) /\ lib \o more \in Seq(Path) /\ dirs \in Seq(Path)
  BY <1>11, <1>12, ConcatAssociative, ConcatProperties
<1>14. Dedup(dirs) \in Seq(Path)
  <2>1. {i \in DOMAIN dirs : \A j \in 1..(i - 1) : dirs[j] # dirs[i]} \in SUBSET DOMAIN dirs
    OBVIOUS
  <2> QED
    BY <1>13, <2>1, PickKeeps DEF Dedup
<1>15. PICK libs : libs = IF plan.dirs = <<>> THEN base.libs ELSE Dedup(dirs) \o base.libs
  OBVIOUS
<1>16. libs \in Seq(Path)
  BY <1>4, <1>14, <1>15, ConcatProperties
<1>17. PICK pypath : pypath = IF OnHost THEN Map(base.pypath, LAMBDA p : Remap(b, p)) ELSE base.pypath
  OBVIOUS
<1>18. pypath \in Seq(Path)
  BY <1>1, <1>4, <1>17, MapTypes
<1>19. PICK path : path = IF OnHost THEN mapped \o base.path ELSE mapped
  OBVIOUS
<1>20. path \in Seq(Path)
  BY <1>4, <1>8, <1>19, ConcatProperties
<1>21. BuildEnv(b, plan, own) = [home |-> home, pypath |-> pypath, path |-> path, libs |-> libs]
  BY <1>2, <1>5, <1>7, <1>9, <1>10, <1>12, <1>15, <1>17, <1>19 DEF BuildEnv, LibsFirst
<1>22. BuildEnv(b, plan, own) \in Env
  BY <1>6, <1>16, <1>18, <1>20, <1>21 DEF Env
<1>23. base.home = IF MetaOf(b, plan) = NoMeta THEN own.home ELSE MetaOf(b, plan).home
  BY <1>2
<1>24. plan.dirs # <<>> => libs = Dedup(own1 \o (lib \o more)) \o base.libs
  BY <1>13, <1>15
<1>25. BuildEnv(b, plan, own).home = home /\ BuildEnv(b, plan, own).libs = libs
  BY <1>21
<1> QED
  BY <1>4, <1>5, <1>9, <1>13, <1>22, <1>23, <1>24, <1>25

-----------------------------------------------------------------------------
\* What is known of every entry on its way: its plan, that its environment was
\* built from one, and whether it could start; and that its JAVA_HOME is what
\* Remap makes of the first one, however often it was applied.
PlanFor(l) == PlanOf(entry[l].bundle, entry[l].name)
EntryTypes ==
    /\ setup \in Setups
    /\ stage \in [Launchers -> {"idle", "entering", "running", "unstarted", "refused"}]
    /\ entry = [l \in Launchers |-> entry[l]]
    /\ \A l \in Launchers : entry[l].from \in Launchers \cup {User}
    /\ env \in [Launchers -> Env]
    /\ given \in [Launchers -> Path] /\ crossed \subseteq Launchers
Known ==
    \A l \in Launchers : stage[l] # "idle" =>
        entry[l].bundle \in DOMAIN setup.bundles /\ entry[l].name \in Names(entry[l].bundle)
Built ==
    \A l \in Launchers : stage[l] # "idle" =>
        \E own \in Env : env[l] = BuildEnv(entry[l].bundle, PlanFor(l), own)
Decided ==
    \A l \in Launchers :
        /\ stage[l] = "running" => Starts(entry[l].bundle, PlanFor(l), env[l])
        /\ stage[l] = "unstarted" => ~Starts(entry[l].bundle, PlanFor(l), env[l])
Homes ==
    /\ \A l \in crossed : stage[l] # "idle"
    /\ \A l \in Launchers \ crossed : stage[l] # "idle" /\ Absolute(given[l]) =>
         env[l].home = Remap(entry[l].bundle, given[l])
EntryInv == EntryTypes /\ Known /\ Built /\ Decided /\ Homes

LEMMA EntryInit == LaunchInit => EntryInv
<1> SUFFICES ASSUME LaunchInit PROVE EntryInv
  OBVIOUS
<1>1. /\ setup \in Setups /\ stage = [l \in Launchers |-> "idle"]
      /\ entry = [l \in Launchers |-> Nothing] /\ env = [l \in Launchers |-> EmptyEnv]
      /\ given = [l \in Launchers |-> <<>>] /\ crossed = {}
  BY DEF LaunchInit
<1>2. EntryTypes
  <2>1. Nothing.from = User
    BY DEF Nothing
  <2>2. <<>> \in Path
    BY EmptyEnvType DEF EmptyEnv, Env
  <2> QED
    BY <1>1, <2>1, <2>2, EmptyEnvType DEF EntryTypes
<1>3. \A l \in Launchers : stage[l] = "idle"
  BY <1>1
<1>4. Known /\ Built /\ Decided /\ Homes
  BY <1>1, <1>3 DEF Known, Built, Decided, Homes
<1> QED
  BY <1>2, <1>4 DEF EntryInv

\* A path that is in the bundle stays where it is.
LEMMA RemapTwice ==
  ASSUME NEW b \in FileNames, NEW p \in Path, Absolute(p)
  PROVE  Remap(b, Remap(b, p)) = Remap(b, p)
<1>1. CASE IsPrefix(Root(b), p)
  BY <1>1 DEF Remap
<1>2. CASE ~IsPrefix(Root(b), p)
  <2>1. Remap(b, p) = Payload(b) \o Tail(p) /\ Tail(p) \in Seq(FileNames)
    BY <1>2 DEF Remap, Absolute, Path
  <2>2. Remap(b, p) \in Path
    BY MappedPaths
  <2>3. Payload(b) = <<"/", b, "payload">> /\ Payload(b) \in Seq(FileNames)
    BY Roots DEF Payload, Path
  <2>4. Len(Payload(b)) = 3 /\ Payload(b)[1] = "/" /\ Payload(b)[2] = b
    BY <2>3
  <2>5. Len(Remap(b, p)) >= 2 /\ Remap(b, p)[1] = "/" /\ Remap(b, p)[2] = b
    BY <2>1, <2>3, <2>4
  <2>6. IsPrefix(Root(b), Remap(b, p))
    BY <2>2, <2>5, BelowRoot
  <2> QED
    BY <2>6 DEF Remap
<1> QED
  BY <1>1, <1>2

\* Only the setup decides what plans and files there are.
LEMMA SameSetup ==
  ASSUME setup' = setup
  PROVE  /\ \A c, n : PlanOf(c, n)' = PlanOf(c, n) /\ Names(c)' = Names(c)
         /\ \A c, p, v : BuildEnv(c, p, v)' = BuildEnv(c, p, v)
         /\ \A c, p, v : Starts(c, p, v)' = Starts(c, p, v)
<1>1. \A c, n : PlanOf(c, n)' = PlanOf(c, n) /\ Names(c)' = Names(c)
  BY DEF PlanOf, Names, Plans
<1>2. \A c, p, v : BuildEnv(c, p, v)' = BuildEnv(c, p, v)
  BY DEF BuildEnv, MetaOf, Overridden, OnHost, MapBundlePath, Map
<1>3. \A c, p, v : Starts(c, p, v)' = Starts(c, p, v)
  BY DEF Starts, Outside, MapBundlePath, OnHost, AtRun, Tree, Searched, Map
<1> QED
  BY <1>1, <1>2, <1>3

LEMMA EntryLaunch ==
  ASSUME EntryInv, NEW l \in Launchers, NEW from \in Launchers \cup {User},
         NEW b \in DOMAIN setup.bundles, NEW name \in Names(b), Launch(l, from, b, name)
  PROVE  EntryInv'
<1> USE DEF EntryInv
<1>1. PICK plan, own, e, meta :
         /\ plan = PlanOf(b, name)
         /\ own = IF from = User THEN setup.user ELSE env[from]
         /\ e = BuildEnv(b, plan, own)
         /\ meta = MetaOf(b, plan)
  OBVIOUS
<1>2. /\ setup \in Setups /\ b \in FileNames /\ plan \in Plan /\ own \in Env
      /\ meta \in Env \cup {NoMeta}
  BY <1>1, BundleTypes, PlanTypes, MetaTypes, SetupTypes DEF EntryTypes
<1>3. e \in Env /\ e.home = Remap(b, IF meta = NoMeta THEN own.home ELSE meta.home)
  BY <1>1, <1>2, BuildEnvIs
<1>4. stage[l] = "idle" /\ (from # User => from \in Launchers /\ stage[from] = "running")
  BY DEF Launch
<1>5. /\ entry' = [entry EXCEPT ![l] = [bundle |-> b, name |-> name, from |-> from]]
      /\ env' = [env EXCEPT ![l] = e]
      /\ given' = [given EXCEPT ![l] = IF meta # NoMeta THEN meta.home
                                       ELSE IF from = User THEN own.home ELSE given[from]]
      /\ crossed' = IF meta = NoMeta /\ from # User /\ (from \in crossed \/ entry[from].bundle # b)
                    THEN crossed \cup {l} ELSE crossed
      /\ setup' = setup
  BY <1>1 DEF Launch
<1>6. PICK next \in {"entering", "running", "unstarted", "refused"} :
         /\ stage' = [stage EXCEPT ![l] = next]
         /\ next = "running" => Starts(b, plan, e)
         /\ next = "unstarted" => ~Starts(b, plan, e)
  <2>1. PICK next \in (IF setup.mode = "chroot" THEN {"entering"}
                       ELSE {IF Starts(b, plan, e) THEN "running" ELSE "unstarted"})
                      \cup (IF setup.mode = "bwrap" THEN {"refused"} ELSE {}) :
           stage' = [stage EXCEPT ![l] = next]
    BY <1>1 DEF Launch
  <2> QED
    BY <2>1
<1>7. /\ entry'[l] = [bundle |-> b, name |-> name, from |-> from] /\ env'[l] = e /\ stage'[l] = next
      /\ given'[l] = IF meta # NoMeta THEN meta.home ELSE IF from = User THEN own.home ELSE given[from]
      /\ \A k \in Launchers : k # l =>
           /\ entry'[k] = entry[k] /\ env'[k] = env[k] /\ stage'[k] = stage[k] /\ given'[k] = given[k]
  BY <1>5, <1>6 DEF EntryTypes
<1>8. EntryTypes'
  <2>1. entry' = [k \in Launchers |-> entry'[k]]
    BY <1>5 DEF EntryTypes
  <2>2. \A k \in Launchers : entry'[k].from \in Launchers \cup {User}
    BY <1>7 DEF EntryTypes
  <2>3. stage' \in [Launchers -> {"idle", "entering", "running", "unstarted", "refused"}]
    BY <1>6 DEF EntryTypes
  <2>4. env' \in [Launchers -> Env]
    BY <1>3, <1>5 DEF EntryTypes
  <2>5. given'[l] \in Path
    BY <1>2, <1>4, <1>7 DEF EntryTypes, Env
  <2>6. given' \in [Launchers -> Path]
    BY <1>5, <1>7, <2>5 DEF EntryTypes
  <2> QED
    BY <1>5, <2>1, <2>2, <2>3, <2>4, <2>6 DEF EntryTypes
<1>9. /\ PlanFor(l)' = plan
      /\ \A k \in Launchers : k # l => PlanFor(k)' = PlanFor(k)
  BY <1>1, <1>5, <1>7, SameSetup DEF PlanFor
<1>10. Known'
  BY <1>5, <1>7, SameSetup DEF Known
<1>11. Built'
  <2>1. ASSUME NEW k \in Launchers, k # l, stage'[k] # "idle"
        PROVE  (\E v \in Env : env[k] = BuildEnv(entry[k].bundle, PlanFor(k), v))'
    BY <1>5, <1>7, <1>9, <2>1, SameSetup DEF Built
  <2>2. (\E v \in Env : env[l] = BuildEnv(entry[l].bundle, PlanFor(l), v))'
    BY <1>1, <1>2, <1>5, <1>7, <1>9, SameSetup
  <2> QED
    BY <2>1, <2>2 DEF Built
<1>12. Decided'
  BY <1>5, <1>6, <1>7, <1>9, SameSetup DEF Decided
<1>13. Homes'
  <2>1. \A k \in crossed' : stage'[k] # "idle"
    BY <1>4, <1>5, <1>6, <1>7 DEF Homes, EntryTypes
  <2>2. ASSUME NEW k \in Launchers \ crossed', k # l, stage'[k] # "idle", Absolute(given'[k])
        PROVE  env'[k].home = Remap(entry'[k].bundle, given'[k])
    BY <1>5, <1>7, <2>2 DEF Homes
  <2>3. ASSUME l \notin crossed', Absolute(given'[l]) PROVE env'[l].home = Remap(b, given'[l])
    <3>1. CASE meta # NoMeta \/ from = User
      BY <1>3, <1>7, <3>1
    <3>2. CASE meta = NoMeta /\ from # User
      <4>1. from \in Launchers \ crossed /\ entry[from].bundle = b /\ stage[from] # "idle"
        BY <1>4, <1>5, <2>3, <3>2
      <4>2. given'[l] = given[from] /\ own = env[from]
        BY <1>1, <1>7, <3>2
      <4>3. own.home = Remap(b, given[from])
        BY <2>3, <4>1, <4>2 DEF Homes
      <4>4. given[from] \in Path
        BY <4>1 DEF EntryTypes
      <4> QED
        BY <1>2, <1>3, <1>7, <2>3, <3>2, <4>2, <4>3, <4>4, RemapTwice
    <3> QED
      BY <3>1, <3>2
  <2>4. entry'[l].bundle = b
    BY <1>7
  <2> QED
    BY <2>1, <2>2, <2>3, <2>4 DEF Homes
<1> QED
  BY <1>8, <1>10, <1>11, <1>12, <1>13

LEMMA EntryStep == EntryInv /\ [LaunchNext]_<<vars, launchVars>> => EntryInv'
<1> SUFFICES ASSUME EntryInv, [LaunchNext]_<<vars, launchVars>> PROVE EntryInv'
  OBVIOUS
<1>1. ASSUME NEW l \in Launchers, NEW from \in Launchers \cup {User},
             NEW b \in DOMAIN setup.bundles, NEW name \in Names(b), Launch(l, from, b, name)
      PROVE  EntryInv'
  BY <1>1, EntryLaunch
\* A launcher that goes on changes its stage only, if that.
<1>2. ASSUME NEW l \in Launchers, UNCHANGED <<setup, entry, env, given, crossed>>,
             NEW next \in {"entering", "running", "unstarted", "refused"},
             stage[l] = "entering", stage' = [stage EXCEPT ![l] = next],
             next = "running" => Starts(entry[l].bundle, PlanFor(l), env[l]),
             next = "unstarted" => ~Starts(entry[l].bundle, PlanFor(l), env[l])
      PROVE  EntryInv'
  <2>1. \A k \in Launchers : PlanFor(k)' = PlanFor(k)
    BY <1>2, SameSetup DEF PlanFor
  <2>2. /\ \A k \in Launchers : k # l => stage'[k] = stage[k]
        /\ stage'[l] = next /\ (\A k \in Launchers : stage'[k] # "idle" <=> stage[k] # "idle")
    BY <1>2 DEF EntryInv, EntryTypes
  <2>3. EntryTypes'
    BY <1>2 DEF EntryInv, EntryTypes
  <2>4. Known'
    BY <1>2, <2>2, SameSetup DEF EntryInv, Known
  <2>5. Built'
    BY <1>2, <2>1, <2>2, SameSetup DEF EntryInv, Built
  <2>6. Decided'
    BY <1>2, <2>1, <2>2, SameSetup DEF EntryInv, Decided
  <2>7. Homes'
    BY <1>2, <2>2 DEF EntryInv, EntryTypes, Homes
  <2> QED
    BY <2>3, <2>4, <2>5, <2>6, <2>7 DEF EntryInv
<1>3. ASSUME UNCHANGED launchVars PROVE EntryInv'
  <2>1. UNCHANGED <<setup, stage, entry, env, given, crossed>>
    BY <1>3 DEF launchVars
  <2>2. \A k \in Launchers : PlanFor(k)' = PlanFor(k)
    BY <2>1, SameSetup DEF PlanFor
  <2>3. EntryTypes' /\ Known' /\ Homes'
    BY <2>1, SameSetup DEF EntryInv, EntryTypes, Known, Homes
  <2>4. Built' /\ Decided'
    BY <2>1, <2>2, SameSetup DEF EntryInv, Built, Decided
  <2> QED
    BY <2>3, <2>4 DEF EntryInv
<1>4. ASSUME NEW l \in Launchers, Prepare(l) PROVE EntryInv'
  BY <1>3, <1>4 DEF Prepare
<1>5. ASSUME NEW l \in Launchers, EnterRoot(l) PROVE EntryInv'
  <2>1. PICK next : next = IF Starts(entry[l].bundle, PlanFor(l), env[l]) THEN "running" ELSE "unstarted"
    OBVIOUS
  <2>2. /\ stage[l] = "entering" /\ stage' = [stage EXCEPT ![l] = next]
        /\ UNCHANGED <<setup, entry, env, given, crossed>>
    BY <1>5, <2>1 DEF EnterRoot, PlanFor
  <2> QED
    BY <1>2, <2>1, <2>2
<1>6. ASSUME NEW l \in Launchers, GiveUp(l) PROVE EntryInv'
  BY <1>2, <1>6 DEF GiveUp
<1> QED
  BY <1>1, <1>3, <1>4, <1>5, <1>6 DEF LaunchNext

LEMMA EntryCorrect == LaunchSpec => []EntryInv
  BY EntryInit, EntryStep, PTL DEF LaunchSpec

-----------------------------------------------------------------------------
(* Files of bundles, and the directories libraries are found in.           *)

\* A path of the payload leads into the bundle in every run mode.
LEMMA IntoBundle ==
  ASSUME NEW b \in FileNames, NEW d \in Path, InPayload(d)
  PROVE  Outside(b, MapBundlePath(b, d)) = Root(b) \o d
<1>1. d \in Seq(FileNames) /\ d # <<>> /\ Head(d) = "payload" /\ Tail(d) \in Seq(FileNames)
  BY DEF Path, InPayload
<1>2. ~Absolute(d)
  BY <1>1 DEF Absolute
<1>3. CASE OnHost
  BY <1>2, <1>3 DEF Outside, MapBundlePath
<1>4. CASE ~OnHost
  <2>1. MapBundlePath(b, d) = <<"/">> \o Tail(d)
    BY <1>1, <1>2, <1>4 DEF MapBundlePath
  <2>2. PICK p : p = <<"/">> \o Tail(d)
    OBVIOUS
  <2>3. <<"/">> \in Seq(FileNames) /\ Len(<<"/">>) = 1 /\ <<"/">>[1] = "/"
    BY Roots DEF Path
  <2>4. p # <<>> /\ Head(p) = "/" /\ Tail(p) = Tail(d)
    BY <1>1, <2>2, <2>3
  <2>5. Outside(b, p) = Payload(b) \o Tail(d)
    BY <1>4, <2>4 DEF Outside, Absolute
  <2>6. Payload(b) = Root(b) \o <<"payload">> /\ Root(b) \in Seq(FileNames)
    BY Roots DEF Path
  <2>7. <<"payload">> \in Seq(FileNames)
    BY NamesInUse, SeqOfTwo
  <2>8. <<"payload">> \o Tail(d) = d
    BY <1>1, <2>7
  <2>9. (Root(b) \o <<"payload">>) \o Tail(d) = Root(b) \o (<<"payload">> \o Tail(d))
    BY <1>1, <2>6, <2>7, ConcatAssociative
  <2> QED
    BY <2>1, <2>2, <2>5, <2>6, <2>8, <2>9
<1> QED
  BY <1>3, <1>4

LEMMA BelowBundle ==
  ASSUME NEW b \in FileNames, NEW d \in Path, NEW n \in FileNames
  PROVE  /\ Root(b) \o d \in Path /\ IsPrefix(Root(b), Root(b) \o d)
         /\ Append(Root(b) \o d, n) \in Path /\ IsPrefix(Root(b), Append(Root(b) \o d, n))
<1>1. PICK r, p : r = Root(b) /\ p = r \o d
  OBVIOUS
<1>2. r \in Seq(FileNames) /\ r = <<"/", b>> /\ d \in Seq(FileNames)
  BY <1>1, Roots DEF Path
<1>3. Len(r) = 2 /\ r[1] = "/" /\ r[2] = b
  BY <1>2
<1>4. p \in Seq(FileNames) /\ Len(p) >= 2 /\ p[1] = "/" /\ p[2] = b
  BY <1>1, <1>2, <1>3
<1>5. PICK q : q = Append(p, n)
  OBVIOUS
<1>6. q \in Seq(FileNames) /\ Len(q) >= 2 /\ q[1] = "/" /\ q[2] = b
  BY <1>4, <1>5
<1> QED
  BY <1>1, <1>4, <1>5, <1>6, BelowRoot DEF Path

\* What is below the directory of a bundle is in its tree.
LEMMA BelowIsTree ==
  ASSUME setup \in Setups, NEW b \in DOMAIN setup.bundles, NEW p \in Path, IsPrefix(Root(b), p)
  PROVE  (p \in AtBuild(b) <=> p \in Tree(b)) /\ (p \in AtRun <=> p \in Tree(b))
<1>1. p \notin setup.buildHost \cup setup.runHost
  BY BundlesAreApart
<1>2. ASSUME NEW c \in DOMAIN setup.bundles, p \in Tree(c) PROVE c = b
  <2>1. b \in FileNames /\ c \in FileNames
    BY BundleTypes
  <2>2. IsPrefix(Root(c), p)
    BY <1>2, BundlesAreApart DEF Tree
  <2> QED
    BY <2>1, <2>2, BelowRoot
<1> QED
  BY <1>1, <1>2 DEF AtBuild, AtRun

\* The first directory that has a library is the one it is found in.
LEMMA FoundInFirst ==
  ASSUME NEW S, NEW dirs \in Seq(S), NEW files, NEW n, NEW k \in DOMAIN dirs,
         Append(dirs[k], n) \in files, \A m \in 1..(k - 1) : Append(dirs[m], n) \notin files
  PROVE  Having(files, dirs, n) # {} /\ FoundIn(files, dirs, n) = dirs[k]
<1>1. DOMAIN dirs = 1..Len(dirs) /\ Len(dirs) \in Nat
  OBVIOUS
<1>2. PICK T : T = Having(files, dirs, n)
  OBVIOUS
<1>3. T \in SUBSET Nat /\ k \in T /\ \A m \in T : m \in DOMAIN dirs /\ Append(dirs[m], n) \in files
  BY <1>1, <1>2 DEF Having
<1>4. PICK m \in T : m = Min(T) /\ m <= k
  BY <1>3, MinIsLeast
<1>5. m \in 1..Len(dirs) /\ Append(dirs[m], n) \in files
  BY <1>1, <1>3
<1>6. k \in 1..Len(dirs)
  BY <1>1
<1>7. m = k
  BY <1>1, <1>4, <1>5, <1>6
<1> QED
  BY <1>2, <1>3, <1>4, <1>7 DEF FoundIn

LEMMA FirstFound ==
  ASSUME NEW S, NEW dirs \in Seq(S), NEW files, NEW n, Having(files, dirs, n) # {}
  PROVE  \E k \in DOMAIN dirs :
           /\ FoundIn(files, dirs, n) = dirs[k] /\ Append(dirs[k], n) \in files
           /\ \A m \in 1..(k - 1) : Append(dirs[m], n) \notin files
<1>1. DOMAIN dirs = 1..Len(dirs) /\ Len(dirs) \in Nat
  OBVIOUS
<1>2. PICK T : T = Having(files, dirs, n)
  OBVIOUS
<1>3. /\ T \in SUBSET Nat /\ T # {}
      /\ \A m : m \in T <=> m \in DOMAIN dirs /\ Append(dirs[m], n) \in files
  BY <1>1, <1>2 DEF Having
<1>4. PICK k \in T : k = Min(T) /\ \A m \in T : k <= m
  BY <1>3, MinIsLeast
<1>5. \A m \in 1..(k - 1) : m \notin T /\ m \in DOMAIN dirs
  BY <1>1, <1>3, <1>4
<1>6. k \in DOMAIN dirs /\ Append(dirs[k], n) \in files
  BY <1>3
<1>7. \A m \in 1..(k - 1) : Append(dirs[m], n) \notin files
  BY <1>3, <1>5
<1> QED
  BY <1>2, <1>4, <1>6, <1>7 DEF FoundIn

\* dedup_strings keeps the first of some directories the first.
LEMMA DedupKeepsFirst ==
  ASSUME NEW S, NEW s \in Seq(S), NEW G, NEW i \in DOMAIN s,
         s[i] \in G, \A j \in 1..(i - 1) : s[j] \notin G
  PROVE  /\ Dedup(s) \in Seq(S)
         /\ \E k \in DOMAIN Dedup(s) :
              Dedup(s)[k] = s[i] /\ \A m \in 1..(k - 1) : Dedup(s)[m] \notin G
<1>1. PICK I : I = {k \in DOMAIN s : \A j \in 1..(k - 1) : s[j] # s[k]}
  OBVIOUS
<1>2. I \in SUBSET DOMAIN s /\ i \in I /\ DOMAIN s = 1..Len(s) /\ Len(s) \in Nat
  BY <1>1
<1>3. Dedup(s) = Pick(s, I)
  BY <1>1 DEF Dedup
<1>4. /\ Pick(s, I) \in Seq(S)
      /\ \E at \in [DOMAIN Pick(s, I) -> I] :
            /\ \A k \in DOMAIN Pick(s, I) : Pick(s, I)[k] = s[at[k]]
            /\ \A j \in I : \E k \in DOMAIN Pick(s, I) : at[k] = j
            /\ \A k, m \in DOMAIN Pick(s, I) : k < m => at[k] < at[m]
  BY <1>2, PickKeeps
<1>d. PICK d : d = Dedup(s)
  OBVIOUS
<1>5. d \in Seq(S)
  BY <1>3, <1>4, <1>d
<1>6. PICK at \in [DOMAIN d -> I] :
         /\ \A k \in DOMAIN d : d[k] = s[at[k]]
         /\ \A j \in I : \E k \in DOMAIN d : at[k] = j
         /\ \A k, m \in DOMAIN d : k < m => at[k] < at[m]
  BY <1>3, <1>4, <1>d
<1>7. PICK k \in DOMAIN d : at[k] = i
  BY <1>2, <1>6
<1>8. DOMAIN d = 1..Len(d) /\ Len(d) \in Nat
  BY <1>5
<1>9. ASSUME NEW m \in 1..(k - 1) PROVE d[m] \notin G
  <2>1. m \in DOMAIN d /\ m < k
    BY <1>8
  <2>2. at[m] < i /\ at[m] \in DOMAIN s
    BY <1>2, <1>6, <1>7, <2>1
  <2>3. at[m] \in 1..(i - 1)
    BY <1>2, <2>2
  <2> QED
    BY <1>6, <2>1, <2>3
<1> QED
  BY <1>d, <1>5, <1>6, <1>7, <1>9

\* What a validated plan is about: a bundle of the setup, one of its plans, and
\* an environment that was built for it.
LEMMA PlanPaths ==
  ASSUME setup \in Setups, NEW b \in DOMAIN setup.bundles, NEW plan \in ToSet(Plans(b))
  PROVE  /\ InPayload(plan.program) /\ (plan.script # NoScript => InPayload(plan.script))
         /\ plan.dynamic => InPayload(plan.linker)
         /\ \A d \in ToSet(plan.dirs) : InPayload(d)
  BY PlansNameThePayload DEF Plans

LEMMA DefaultLibsAre ==
  /\ DefaultLibs \in Seq(Path) /\ Len(DefaultLibs) = 1 /\ DefaultLibs[1] \in Path
  /\ DefaultLibs[1] \in ToSet(DefaultLibs)
  /\ DefaultLibs[1] = <<"/", "usr", "lib">> 
<1>1. \A S : \A x, y, z \in S : <<x, y, z>> \in Seq(S)
  OBVIOUS
<1>2. <<"/", "usr", "lib">> \in Path
  BY <1>1, NamesInUse DEF Path
<1>3. PICK d : d = <<"/", "usr", "lib">>
  OBVIOUS
<1>4. <<d>> \in Seq(Path) /\ Len(<<d>>) = 1 /\ <<d>>[1] = d /\ 1 \in DOMAIN <<d>>
  BY <1>2, <1>3
<1> QED
  BY <1>2, <1>3, <1>4 DEF DefaultLibs, ToSet

\* A library of the host's directories is none of a bundle.
LEMMA DefaultIsNoTree ==
  ASSUME setup \in Setups, NEW b \in DOMAIN setup.bundles, NEW n \in FileNames
  PROVE  Append(DefaultLibs[1], n) \notin Tree(b)
<1>1. b \in FileNames /\ Tree(b) \in SUBSET Path
  BY BundleTypes
<1>2. PICK d : d = DefaultLibs[1]
  OBVIOUS
<1>3. d \in Path /\ d = <<"/", "usr", "lib">> /\ ~IsPrefix(Root(b), d)
  BY <1>2, DefaultLibsAre, BundlesAreApart
<1>4. d \in Seq(FileNames) /\ Len(d) = 3 /\ d[1] = "/"
  BY <1>3 DEF Path
<1>5. d[2] # b
  BY <1>1, <1>3, <1>4, BelowRoot
<1>6. PICK p : p = Append(d, n)
  OBVIOUS
<1>7. p \in Path /\ p[2] = d[2]
  BY <1>4, <1>6 DEF Path
<1>8. ~IsPrefix(Root(b), p)
  BY <1>1, <1>5, <1>7, BelowRoot
<1> QED
  BY <1>2, <1>6, <1>8, BundlesAreApart DEF Tree

LEMMA OneMore ==
  ASSUME NEW S, NEW s \in Seq(S), NEW t \in Seq(S), Len(t) = 1, NEW N, N = Len(s)
  PROVE  /\ N \in Nat /\ s \o t \in Seq(S) /\ DOMAIN (s \o t) = 1..(N + 1)
         /\ \A k \in 1..N : (s \o t)[k] = s[k]
         /\ (s \o t)[N + 1] = t[1]
<1>1. PICK u : u = s \o t
  OBVIOUS
<1>2. N \in Nat
  BY LenProperties
<1>3. /\ u \in Seq(S) /\ Len(u) = N + 1
      /\ \A k \in 1..(N + 1) : u[k] = IF k <= N THEN s[k] ELSE t[k - N]
  BY <1>1, ConcatProperties, SMTT(30)
<1>4. \A k \in 1..N : u[k] = s[k]
  BY <1>2, <1>3
<1>5. N + 1 \in 1..(N + 1) /\ ~(N + 1 <= N) /\ (N + 1) - N = 1
  BY <1>2
<1>6. u[N + 1] = t[1]
  BY <1>3, <1>5
<1>7. DOMAIN u = 1..(N + 1)
  BY <1>3
<1> QED
  BY <1>1, <1>2, <1>3, <1>4, <1>6, <1>7

\* Where the validator finds a library: in a directory of the plan, and then in
\* the bundle, or in one of the host.
LEMMA ValidatorFinds ==
  ASSUME setup \in Setups, NEW b \in DOMAIN setup.bundles, NEW plan \in Plan,
         plan \in ToSet(Plans(b)), NEW n \in FileNames, Found(b, plan, n)
  PROVE  \/ \E k \in DOMAIN plan.dirs :
              /\ FoundBy(b, plan, n) = Root(b) \o plan.dirs[k]
              /\ Append(Root(b) \o plan.dirs[k], n) \in Tree(b)
              /\ \A j \in 1..(k - 1) : Append(Root(b) \o plan.dirs[j], n) \notin Tree(b)
         \/ /\ FoundBy(b, plan, n) = DefaultLibs[1]
            /\ Append(DefaultLibs[1], n) \in setup.buildHost
<1>1. PICK own : own = plan.dirs
  OBVIOUS
<1>2. b \in FileNames /\ own \in Seq(Path)
  BY <1>1, BundleTypes DEF Plan
<1>3. PICK N : N = Len(own)
  OBVIOUS
<1>4. N \in Nat /\ DOMAIN own = 1..N /\ \A k \in 1..N : own[k] \in Path
  BY <1>2, <1>3
<1>5. PICK s : s = [k \in 1..N |-> Root(b) \o own[k]]
  OBVIOUS
<1>6. s \in Seq(Path) /\ Len(s) = N
  <2>1. \A k \in 1..N : s[k] \in Path
    BY <1>2, <1>4, <1>5, BelowBundle
  <2>2. s \in [1..N -> Path]
    BY <1>5, <2>1
  <2>3. s \in Seq(Path)
    BY <1>4, <2>2, SeqDef
  <2> QED
    BY <1>4, <2>2, <2>3
<1>7. PICK dirs : dirs = Listed(b, plan)
  OBVIOUS
<1>8. dirs = s \o DefaultLibs
  BY <1>1, <1>4, <1>5, <1>7 DEF Listed, Map
<1>9. /\ dirs \in Seq(Path) /\ DOMAIN dirs = 1..(N + 1)
      /\ \A k \in 1..N : dirs[k] = s[k]
      /\ dirs[N + 1] = DefaultLibs[1]
  BY <1>6, <1>8, DefaultLibsAre, OneMore
<1>10. PICK k \in DOMAIN dirs :
         /\ FoundBy(b, plan, n) = dirs[k] /\ Append(dirs[k], n) \in AtBuild(b)
         /\ \A m \in 1..(k - 1) : Append(dirs[m], n) \notin AtBuild(b)
  BY <1>7, <1>9, FirstFound DEF Found, FoundBy
<1>11. \A m \in 1..N : /\ dirs[m] = Root(b) \o own[m]
                       /\ Append(Root(b) \o own[m], n) \in AtBuild(b)
                           <=> Append(Root(b) \o own[m], n) \in Tree(b)
  BY <1>2, <1>4, <1>5, <1>9, BelowBundle, BelowIsTree
<1>12. CASE k \in 1..N
  <2>1. \A j \in 1..(k - 1) : j \in 1..N
    BY <1>4, <1>12
  <2> QED
    BY <1>1, <1>4, <1>10, <1>11, <1>12, <2>1
<1>13. CASE k = N + 1
  <2>1. Append(DefaultLibs[1], n) \in AtBuild(b) /\ FoundBy(b, plan, n) = DefaultLibs[1]
    BY <1>9, <1>10, <1>13
  <2> QED
    BY <2>1, DefaultIsNoTree DEF AtBuild
<1>14. k \in 1..N \/ k = N + 1
  BY <1>4, <1>9
<1> QED
  BY <1>12, <1>13, <1>14

\* The linker that runs searches the directories as Outside has them.
LEMMA SearchedAre ==
  ASSUME NEW b \in FileNames, NEW e \in Env, NEW all, all = Searched(b, e), NEW own, own = e.libs
  PROVE  /\ all \in Seq(Path) /\ Len(own) \in Nat /\ DOMAIN all = 1..(Len(own) + 1)
         /\ \A k \in 1..Len(own) : all[k] = Outside(b, own[k])
         /\ all[Len(own) + 1] = Outside(b, DefaultLibs[1])
<1>1. own \in Seq(Path)
  BY DEF Env
<1>2. PICK libs, N : libs = own \o DefaultLibs /\ N = Len(own)
  OBVIOUS
<1>3. /\ N \in Nat /\ libs \in Seq(Path) /\ DOMAIN libs = 1..(N + 1)
      /\ \A k \in 1..N : libs[k] = own[k]
      /\ libs[N + 1] = DefaultLibs[1]
  BY <1>1, <1>2, DefaultLibsAre, OneMore
<1>4. all = [k \in 1..(N + 1) |-> Outside(b, libs[k])]
  BY <1>2, <1>3 DEF Searched, Map
<1>5. \A k \in 1..(N + 1) : libs[k] \in Path
  BY <1>3
<1>6. all \in [1..(N + 1) -> Path] /\ N + 1 \in Nat
  BY <1>3, <1>4, <1>5, MappedPaths
<1>7. all \in Seq(Path)
  BY <1>6, SeqDef
<1>8. \A k \in 1..N : k \in 1..(N + 1) /\ N + 1 \in 1..(N + 1)
  BY <1>3
<1>9. N + 1 \in 1..(N + 1)
  BY <1>3
<1> QED
  BY <1>2, <1>3, <1>4, <1>7, <1>8, <1>9

\* What the validator found in the bundle is what the linker loads, whatever
\* the environment brings along.
LEMMA LoadsWhatWasFound ==
  ASSUME setup \in Setups, NEW b \in DOMAIN setup.bundles, NEW plan \in Plan,
         plan \in ToSet(Plans(b)), NEW own \in Env, NEW e, e = BuildEnv(b, plan, own),
         NEW n \in FileNames, NEW k \in DOMAIN plan.dirs,
         Append(Root(b) \o plan.dirs[k], n) \in Tree(b),
         \A j \in 1..(k - 1) : Append(Root(b) \o plan.dirs[j], n) \notin Tree(b)
  PROVE  Having(AtRun, Searched(b, e), n) # {} /\ LoadedFrom(b, e, n) = Root(b) \o plan.dirs[k]
<1>1. PICK dirs, N : dirs = plan.dirs /\ N = Len(dirs)
  OBVIOUS
<1>2. /\ b \in FileNames /\ dirs \in Seq(Path) /\ N \in Nat /\ DOMAIN dirs = 1..N
      /\ \A j \in 1..N : dirs[j] \in Path /\ InPayload(dirs[j])
  <2>1. b \in FileNames /\ dirs \in Seq(Path)
    BY <1>1, BundleTypes DEF Plan
  <2>2. N \in Nat /\ DOMAIN dirs = 1..N
    BY <1>1, <2>1
  <2>3. \A j \in 1..N : dirs[j] \in Path
    BY <2>1, <2>2
  <2>4. \A j \in 1..N : InPayload(dirs[j])
    BY <1>1, <2>2, PlanPaths DEF ToSet
  <2> QED
    BY <2>1, <2>2, <2>3, <2>4
<1>3. dirs # <<>> /\ k \in 1..N
  BY <1>1, <1>2
<1>4. PICK rest, old \in Seq(Path) :
         e.libs = Dedup(Map(dirs, LAMBDA p : MapBundlePath(b, p)) \o rest) \o old
  BY <1>1, <1>3, BuildEnvIs, ZenonT(30)
<1>5. PICK mine : mine = Map(dirs, LAMBDA p : MapBundlePath(b, p))
  OBVIOUS
<1>6. mine \in Seq(Path) /\ DOMAIN mine = 1..N /\ \A j \in 1..N : mine[j] = MapBundlePath(b, dirs[j])
  BY <1>2, <1>5, MapTypes DEF Map
<1>7. PICK s : s = mine \o rest
  OBVIOUS
<1>8. s \in Seq(Path) /\ Len(s) \in Nat /\ N <= Len(s) /\ \A j \in 1..N : s[j] = mine[j]
  <2>1. Len(mine) = N
    BY <1>2, <1>6, LenProperties
  <2>2. /\ mine \o rest \in Seq(Path)
        /\ Len(mine \o rest) = N + Len(rest)
        /\ \A j \in 1..(N + Len(rest)) : (mine \o rest)[j] = IF j <= N THEN mine[j] ELSE rest[j - N]
    BY <1>6, <2>1, ConcatProperties, ZenonT(30)
  <2>3. Len(rest) \in Nat
    BY LenProperties
  <2> QED
    BY <1>2, <1>7, <2>2, <2>3
<1>9. PICK G : G = {d \in Path : Append(Outside(b, d), n) \in AtRun}
  OBVIOUS
<1>10. \A j \in 1..N : /\ Outside(b, s[j]) = Root(b) \o dirs[j] /\ s[j] \in Path
                       /\ s[j] \in G <=> Append(Root(b) \o dirs[j], n) \in Tree(b)
  <2> TAKE j \in 1..N
  <2>1. s[j] = MapBundlePath(b, dirs[j]) /\ dirs[j] \in Path /\ InPayload(dirs[j])
    BY <1>2, <1>6, <1>8
  <2>2. Outside(b, s[j]) = Root(b) \o dirs[j] /\ s[j] \in Path
    BY <1>2, <2>1, IntoBundle, MappedPaths
  <2>3. Append(Root(b) \o dirs[j], n) \in AtRun <=> Append(Root(b) \o dirs[j], n) \in Tree(b)
    BY <1>2, <2>1, BelowBundle, BelowIsTree
  <2> QED
    BY <1>9, <2>2, <2>3
<1>11. s[k] \in G /\ (\A j \in 1..(k - 1) : s[j] \notin G) /\ k \in DOMAIN s
  <2>1. \A j \in 1..(k - 1) : j \in 1..N
    BY <1>2, <1>3
  <2>2. DOMAIN s = 1..Len(s)
    BY <1>8
  <2> QED
    BY <1>1, <1>2, <1>3, <1>8, <1>10, <2>1, <2>2
<1>12. PICK d : d = Dedup(s)
  OBVIOUS
<1>13. /\ d \in Seq(Path)
       /\ \E m \in DOMAIN d : d[m] = s[k] /\ \A j \in 1..(m - 1) : d[j] \notin G
  BY <1>8, <1>11, <1>12, DedupKeepsFirst, ZenonT(30)
<1>14. PICK m \in DOMAIN d : d[m] = s[k] /\ \A j \in 1..(m - 1) : d[j] \notin G
  BY <1>13
<1>15. e \in Env /\ e.libs = d \o old
  BY <1>4, <1>5, <1>7, <1>12, BuildEnvIs
<1>16. PICK all : all = Searched(b, e)
  OBVIOUS
<1>h. PICK have : have = e.libs
  OBVIOUS
<1>17. /\ all \in Seq(Path) /\ Len(have) \in Nat /\ DOMAIN all = 1..(Len(have) + 1)
       /\ \A i \in 1..Len(have) : all[i] = Outside(b, have[i])
  <2>1. b \in FileNames /\ e \in Env
    BY <1>2, <1>15
  <2>2. /\ all \in Seq(Path) /\ Len(have) \in Nat /\ DOMAIN all = 1..(Len(have) + 1)
        /\ \A i \in 1..Len(have) : all[i] = Outside(b, have[i])
        /\ all[Len(have) + 1] = Outside(b, DefaultLibs[1])
    BY <2>1, <1>16, <1>h, SearchedAre
  <2> QED
    BY <2>2
<1>18. /\ Len(d) \in Nat /\ DOMAIN d = 1..Len(d) /\ Len(d) <= Len(have)
       /\ \A i \in 1..Len(d) : have[i] = d[i] /\ d[i] \in Path
  <2>1. Len(d) \in Nat /\ DOMAIN d = 1..Len(d) /\ Len(old) \in Nat
    BY <1>13, LenProperties
  <2>2. /\ Len(d \o old) = Len(d) + Len(old)
        /\ \A i \in 1..(Len(d) + Len(old)) : (d \o old)[i] = IF i <= Len(d) THEN d[i] ELSE old[i - Len(d)]
    BY <1>13, ConcatProperties
  <2>3. \A i \in 1..Len(d) : d[i] \in Path
    BY <1>13
  <2> QED
    BY <1>15, <1>h, <2>1, <2>2, <2>3
<1>19. /\ m \in DOMAIN all /\ all[m] = Root(b) \o dirs[k] /\ Append(all[m], n) \in AtRun
       /\ \A j \in 1..(m - 1) : Append(all[j], n) \notin AtRun
  <2>1. m \in 1..Len(d) /\ \A j \in 1..(m - 1) : j \in 1..Len(d)
    BY <1>14, <1>18
  <2>2. \A i \in 1..Len(d) : all[i] = Outside(b, d[i]) /\ i \in DOMAIN all
    <3> TAKE i \in 1..Len(d)
    <3>1. i \in 1..Len(have)
      BY <1>17, <1>18
    <3>2. i \in DOMAIN all
      BY <1>17, <3>1
    <3> QED
      BY <1>17, <1>18, <3>1, <3>2
  <2>3. \A i \in 1..Len(d) : d[i] \in G <=> Append(all[i], n) \in AtRun
    BY <1>9, <1>18, <2>2
  <2> QED
    BY <1>3, <1>10, <1>11, <1>14, <2>1, <2>2, <2>3
<1>21. Having(AtRun, all, n) # {} /\ FoundIn(AtRun, all, n) = all[m]
  <2>1. all \in Seq(Path)
    BY <1>17
  <2>2. m \in DOMAIN all
    BY <1>19
  <2>3. Append(all[m], n) \in AtRun /\ \A j \in 1..(m - 1) : Append(all[j], n) \notin AtRun
    BY <1>19
  <2> QED
    BY <2>1, <2>2, <2>3, FoundInFirst
<1> QED
  BY <1>1, <1>16, <1>19, <1>21 DEF LoadedFrom

\* A program that the validator passed starts, under the conditions of
\* ValidatedRuns.
LEMMA ValidatedStarts ==
  ASSUME setup \in Setups, NEW b \in DOMAIN setup.bundles, NEW plan \in Plan,
         plan \in ToSet(Plans(b)), NEW own \in Env, NEW e, e = BuildEnv(b, plan, own),
         IsSuccess(Verdict(b, plan)), ~(plan.dynamic /\ setup.bundles[b].stub),
         SelfContained(b, plan) \/ (OnHost /\ setup.runHost = setup.buildHost)
  PROVE  /\ Starts(b, plan, e)
         /\ plan.dynamic => \A n \in plan.needs :
              Append(FoundBy(b, plan, n), n) \in Tree(b) => LoadedFrom(b, e, n) = FoundBy(b, plan, n)
<1>1. /\ b \in FileNames /\ plan.program \in Path /\ plan.script \in Path \cup {NoScript}
      /\ plan.linker \in Path /\ plan.interp \in Path /\ plan.needs \in SUBSET FileNames
      /\ plan.dynamic \in BOOLEAN /\ e \in Env
  BY BundleTypes, BuildEnvIs DEF Plan
<1>2. ASSUME NEW p \in Path, InPayload(p), Root(b) \o p \in AtBuild(b)
      PROVE  Outside(b, MapBundlePath(b, p)) \in AtRun
  <2>1. Outside(b, MapBundlePath(b, p)) = Root(b) \o p
    BY <1>1, <1>2, IntoBundle
  <2>2. Root(b) \o p \in Path /\ IsPrefix(Root(b), Root(b) \o p)
    BY <1>1, <1>2, BelowBundle, NamesInUse
  <2> QED
    BY <1>2, <2>1, <2>2, BelowIsTree
<1>3. /\ Root(b) \o plan.program \in AtBuild(b)
      /\ plan.script # NoScript => Root(b) \o plan.script \in AtBuild(b)
      /\ plan.dynamic => Root(b) \o plan.linker \in AtBuild(b) /\ \A n \in plan.needs : Found(b, plan, n)
  BY <1>1 DEF Verdict, IsSuccess
<1>4. /\ Outside(b, MapBundlePath(b, plan.program)) \in AtRun
      /\ plan.script # NoScript => Outside(b, MapBundlePath(b, plan.script)) \in AtRun
      /\ plan.dynamic => Outside(b, MapBundlePath(b, plan.linker)) \in AtRun
  BY <1>1, <1>2, <1>3, PlanPaths
<1>5. ASSUME plan.dynamic, ~OnHost PROVE Outside(b, plan.interp) \in AtRun
  BY <1>5 DEF SelfContained, Outside, AtRun
<1>6. ASSUME plan.dynamic, NEW n \in plan.needs
      PROVE  /\ Having(AtRun, Searched(b, e), n) # {}
             /\ Append(FoundBy(b, plan, n), n) \in Tree(b) => LoadedFrom(b, e, n) = FoundBy(b, plan, n)
  <2>1. n \in FileNames /\ Found(b, plan, n)
    BY <1>1, <1>3, <1>6
  <2>2. CASE \E k \in DOMAIN plan.dirs :
               /\ FoundBy(b, plan, n) = Root(b) \o plan.dirs[k]
               /\ Append(Root(b) \o plan.dirs[k], n) \in Tree(b)
               /\ \A j \in 1..(k - 1) : Append(Root(b) \o plan.dirs[j], n) \notin Tree(b)
    BY <2>1, <2>2, LoadsWhatWasFound
  <2>3. CASE FoundBy(b, plan, n) = DefaultLibs[1] /\ Append(DefaultLibs[1], n) \in setup.buildHost
    <3>1. Append(FoundBy(b, plan, n), n) \notin Tree(b)
      BY <2>1, <2>3, DefaultIsNoTree
    <3>2. OnHost /\ setup.runHost = setup.buildHost
      BY <1>6, <3>1 DEF SelfContained
    <3>3. Append(DefaultLibs[1], n) \in AtRun
      BY <2>3, <3>2 DEF AtRun
    <3>4. PICK all, mine : all = Searched(b, e) /\ mine = e.libs
      OBVIOUS
    <3>5. /\ Len(mine) \in Nat /\ DOMAIN all = 1..(Len(mine) + 1)
          /\ all[Len(mine) + 1] = Outside(b, DefaultLibs[1])
      BY <1>1, <3>4, SearchedAre
    <3>6. all[Len(mine) + 1] = DefaultLibs[1] /\ Len(mine) + 1 \in DOMAIN all
      BY <3>2, <3>5 DEF Outside
    <3> QED
      BY <3>1, <3>3, <3>4, <3>6 DEF Having
  <2> QED
    BY <2>1, <2>2, <2>3, ValidatorFinds
<1>7. Starts(b, plan, e)
  BY <1>4, <1>5, <1>6 DEF Starts
<1> QED
  BY <1>6, <1>7

\* What the validator passed, the launcher runs, with the libraries that were
\* found (BundleValidator, build_env_block, exec_dynamic): for any bundles,
\* plans, environments and launches of launches.
THEOREM LauncherValidatedRuns == LaunchSpec => []ValidatedRuns
<1>1. EntryInv => ValidatedRuns
  <2> SUFFICES ASSUME EntryInv, NEW l \in Launchers, stage[l] \in {"running", "unstarted"},
                      NEW b, b = entry[l].bundle, NEW plan, plan = PlanOf(b, entry[l].name),
                      IsSuccess(Verdict(b, plan)), ~(plan.dynamic /\ setup.bundles[b].stub),
                      SelfContained(b, plan) \/ (OnHost /\ setup.runHost = setup.buildHost)
               PROVE  /\ stage[l] = "running"
                      /\ plan.dynamic => \A n \in plan.needs :
                           Append(FoundBy(b, plan, n), n) \in Tree(b)
                             => LoadedFrom(b, env[l], n) = FoundBy(b, plan, n)
    BY DEF ValidatedRuns
  <2>1. setup \in Setups /\ b \in DOMAIN setup.bundles /\ entry[l].name \in Names(b)
    BY DEF EntryInv, EntryTypes, Known
  <2>2. plan \in Plan /\ plan \in ToSet(Plans(b))
    BY <2>1, PlanTypes
  <2>3. PICK own \in Env : env[l] = BuildEnv(b, plan, own)
    BY DEF EntryInv, Built, PlanFor
  <2>4. /\ Starts(b, plan, env[l])
        /\ plan.dynamic => \A n \in plan.needs :
             Append(FoundBy(b, plan, n), n) \in Tree(b) => LoadedFrom(b, env[l], n) = FoundBy(b, plan, n)
    BY <2>1, <2>2, <2>3, ValidatedStarts
  <2>5. stage[l] = "running"
    BY <2>4 DEF EntryInv, Decided, PlanFor
  <2> QED
    BY <2>4, <2>5
<1> QED
  BY <1>1, EntryCorrect, PTL

\* JAVA_HOME leads into the bundle, mapped once, through any number of
\* launchers of the bundle (EnvRemapper).
THEOREM LauncherHomesServed == LaunchSpec => []HomesServed
<1>1. EntryInv => HomesServed
  <2> SUFFICES ASSUME EntryInv, NEW l \in Launchers \ crossed, stage[l] = "running", Absolute(given[l])
               PROVE  env[l].home = IF IsPrefix(Root(entry[l].bundle), given[l]) THEN given[l]
                                    ELSE Payload(entry[l].bundle) \o Tail(given[l])
    BY DEF HomesServed
  <2>1. env[l].home = Remap(entry[l].bundle, given[l])
    BY DEF EntryInv, Homes
  <2> QED
    BY <2>1 DEF Remap
<1> QED
  BY <1>1, EntryCorrect, PTL

\* The launcher keeps the types of all it has, whatever is in the environments
\* that it is given (run, build_env_block, ensure_payload_data).
THEOREM LauncherTypes == LaunchSpec => []LaunchTypeOK
<1>1. Spec => []IInv
  BY InitInv, StepInv, PTL DEF Spec
<1>2. IInv /\ EntryInv => LaunchTypeOK
  BY DEF IInv, EntryInv, EntryTypes, LaunchTypeOK
<1> QED
  BY <1>1, <1>2, LauncherImplements, EntryCorrect, PTL
=============================================================================
