--------------------------- MODULE BwrapCacheProofs ---------------------------
(***************************************************************************)
(* Theorems about the cache of the embedded bwrap, for any number of       *)
(* launchers, any assignment of pids to them and any size of the tool: the *)
(* file is intact, it is extracted once, and the directory implements      *)
(* SharedTool.                                                             *)
(***************************************************************************)
EXTENDS BwrapCache, TLAPS

Filling == {"create", "write", "chmod", "rename"}
Early   == {"look", "lock", "recheck", "create"}   \* before the first file of its own

\* The holder of the lock is the one launcher inside, and it only fills the
\* cache while the cache is empty.
LockInv ==
    \A l \in Launchers :
        /\ pc[l] \in Inside <=> lock = l
        /\ pc[l] \in Filling => dest = NoFile
        /\ pc[l] \in {"found", "running"} => dest # NoFile

\* What the temporary file of the launcher inside holds.
TmpInv ==
    \A l \in Launchers :
        /\ pc[l] # "write" => fd[l] = NoFile
        /\ pc[l] = "write" => /\ fd[l] = tmp[PidOf[l]] /\ fd[l] # NoFile
                              /\ content[fd[l]] = 1..offset[l] /\ offset[l] < Size
        /\ pc[l] \in {"chmod", "rename"} => /\ tmp[PidOf[l]] # NoFile
                                            /\ content[tmp[PidOf[l]]] = Bytes
        /\ pc[l] = "rename" => tmp[PidOf[l]] \in executable

\* No two paths name one file, and a launcher that has created none finds
\* its own nowhere.
NamesInv ==
    /\ \A i \in Pids : tmp[i] # NoFile => tmp[i] # dest
    /\ \A i, j \in Pids : tmp[i] = tmp[j] /\ tmp[i] # NoFile => i = j
    /\ \A l \in Launchers : pc[l] \in Early => dest # l /\ \A i \in Pids : tmp[i] # l

DestInv == dest # NoFile => dest \in executable /\ content[dest] = Bytes

CacheInv == TypeOK /\ LockInv /\ TmpInv /\ NamesInv /\ DestInv

\* An empty cache directory satisfies the invariant.
LEMMA CacheInit == Init => CacheInv
BY NoneIsLauncher, SizeIsPositive
   DEF Init, CacheInv, TypeOK, Files, Steps, Ends, Inside, LockInv, TmpInv, NamesInv, DestInv,
       Filling, Early

\* An inode that launcher l works on while it is inside is not dest.
LEMMA CacheStep ==
    ASSUME CacheInv, NEW l \in Launchers, Step(l) \/ Fail(l) \/ Kill(l)
    PROVE  CacheInv'
<1>1. /\ TypeOK /\ LockInv /\ TmpInv /\ NamesInv /\ DestInv
      /\ PidOf[l] \in Pids /\ Size \in Nat /\ Size # 0
  BY PidsKnown, SizeIsPositive DEF CacheInv
<1> USE NoneIsLauncher DEF TypeOK, Files, Bytes
<1>2. CASE Look(l)
  <2>1. PICK s \in {"found", "lock"} : pc' = [pc EXCEPT ![l] = s] /\ (s = "found" => dest # NoFile)
    BY <1>2 DEF Look, Goto
  <2>2. UNCHANGED <<lock, dest, tmp, fd, offset, content, executable>> /\ pc[l] = "look"
    BY <1>2 DEF Look
  <2> QED
    BY <1>1, <2>1, <2>2
       DEF CacheInv, LockInv, TmpInv, NamesInv, DestInv, Steps, Ends, Inside, Filling, Early
<1>3. CASE Lock(l)
  <2>1. /\ pc[l] = "lock" /\ lock = NoOne /\ lock' = l /\ pc' = [pc EXCEPT ![l] = "recheck"]
        /\ UNCHANGED <<dest, tmp, fd, offset, content, executable>>
    BY <1>3 DEF Lock, Goto
  <2> QED
    BY <1>1, <2>1
       DEF CacheInv, LockInv, TmpInv, NamesInv, DestInv, Steps, Ends, Inside, Filling, Early
<1>4. CASE Recheck(l)
  <2>1. pc[l] = "recheck" /\ lock = l /\ UNCHANGED <<dest, tmp, offset, content, executable>>
    BY <1>1, <1>4 DEF Recheck, LockInv, Inside
  <2>2. CASE dest # NoFile
    <3>1. pc' = [pc EXCEPT ![l] = "found"] /\ lock' = NoOne /\ fd' = [fd EXCEPT ![l] = NoFile]
      BY <1>4, <2>1, <2>2 DEF Recheck, Leave, Goto
    <3> QED
      BY <1>1, <2>1, <2>2, <3>1
         DEF CacheInv, LockInv, TmpInv, NamesInv, DestInv, Steps, Ends, Inside, Filling, Early
  <2>3. CASE dest = NoFile
    <3>1. pc' = [pc EXCEPT ![l] = "create"] /\ UNCHANGED <<lock, fd>>
      BY <1>4, <2>3 DEF Recheck, Goto
    <3> QED
      BY <1>1, <2>1, <2>3, <3>1
         DEF CacheInv, LockInv, TmpInv, NamesInv, DestInv, Steps, Ends, Inside, Filling, Early
  <2> QED BY <2>2, <2>3
<1>5. CASE Create(l)
  <2> DEFINE file == IF tmp[PidOf[l]] = NoFile THEN l ELSE tmp[PidOf[l]]
  <2>1. /\ pc[l] = "create" /\ lock = l /\ dest = NoFile
        /\ \A m \in Launchers \ {l} : pc[m] \notin Inside
    BY <1>1, <1>5 DEF Create, LockInv, Inside, Filling
  <2>2. /\ tmp' = [tmp EXCEPT ![PidOf[l]] = file] /\ fd' = [fd EXCEPT ![l] = file]
        /\ offset' = [offset EXCEPT ![l] = 0] /\ content' = [content EXCEPT ![file] = {}]
        /\ pc' = [pc EXCEPT ![l] = "write"] /\ UNCHANGED <<lock, dest, executable>>
    BY <1>5 DEF Create, Goto
  <2>3. file \in Launchers
    BY <1>1
  <2>4. TypeOK'
    BY <1>1, <2>2, <2>3 DEF Steps, Inside
  <2>5. LockInv'
    BY <1>1, <2>1, <2>2 DEF LockInv, Inside, Filling
  <2>6. TmpInv'
    <3>1. content'[file] = 1..0 /\ offset'[l] = 0
      BY <1>1, <2>2, <2>3
    <3> QED BY <1>1, <2>1, <2>2, <2>3, <3>1 DEF TmpInv, Inside
  <2>7. NamesInv'
    <3>1. \A i \in Pids : tmp[i] # l
      BY <1>1, <2>1 DEF NamesInv, Early
    <3>2. \A i, j \in Pids : tmp'[i] = tmp'[j] /\ tmp'[i] # NoFile => i = j
      BY <1>1, <2>2, <3>1 DEF NamesInv
    <3>3. \A m \in Launchers : pc'[m] \in Early => \A i \in Pids : tmp'[i] # m
      BY <1>1, <2>1, <2>2, <3>1 DEF NamesInv, Early
    <3> QED BY <1>1, <2>1, <2>2, <3>2, <3>3 DEF NamesInv
  <2>8. DestInv'
    BY <2>1, <2>2 DEF DestInv
  <2> QED BY <2>4, <2>5, <2>6, <2>7, <2>8 DEF CacheInv
<1>6. CASE Write(l)
  <2>1. /\ pc[l] = "write" /\ lock = l /\ dest = NoFile
        /\ fd[l] = tmp[PidOf[l]] /\ fd[l] \in Launchers
        /\ content[fd[l]] = 1..offset[l] /\ offset[l] < Size /\ offset[l] \in Nat
        /\ \A m \in Launchers \ {l} : pc[m] \notin Inside
    BY <1>1, <1>6 DEF Write, LockInv, TmpInv, Inside, Filling
  <2>2. /\ offset' = [offset EXCEPT ![l] = @ + 1]
        /\ content' = [content EXCEPT ![fd[l]] = @ \cup {offset[l] + 1}]
        /\ UNCHANGED <<lock, dest, tmp, executable>>
    BY <1>6 DEF Write
  <2>3. content'[fd[l]] = 1..(offset[l] + 1) /\ offset'[l] = offset[l] + 1
    <3>1. (1..offset[l]) \cup {offset[l] + 1} = 1..(offset[l] + 1)
      BY <2>1
    <3> QED BY <1>1, <2>1, <2>2, <3>1
  <2>4. offset' \in [Launchers -> 0..Size] /\ content' \in [Launchers -> SUBSET Bytes]
    BY <1>1, <2>1, <2>2
  <2>5. CASE offset[l] + 1 = Size
    <3>1. pc' = [pc EXCEPT ![l] = "chmod"] /\ fd' = [fd EXCEPT ![l] = NoFile]
      BY <1>6, <2>5 DEF Write, Goto
    <3>2. TypeOK' /\ LockInv' /\ NamesInv' /\ DestInv'
      BY <1>1, <2>1, <2>2, <2>4, <3>1
         DEF LockInv, NamesInv, DestInv, Steps, Inside, Filling, Early
    <3>3. TmpInv'
      BY <1>1, <2>1, <2>2, <2>3, <2>5, <3>1 DEF TmpInv, Inside
    <3> QED BY <3>2, <3>3 DEF CacheInv
  <2>6. CASE offset[l] + 1 # Size
    <3>1. UNCHANGED <<pc, fd>>
      BY <1>6, <2>6 DEF Write
    <3>2. TypeOK' /\ LockInv' /\ NamesInv' /\ DestInv'
      BY <1>1, <2>1, <2>2, <2>4, <3>1 DEF LockInv, NamesInv, DestInv
    <3>3. TmpInv'
      BY <1>1, <2>1, <2>2, <2>3, <2>6, <3>1 DEF TmpInv, Inside
    <3> QED BY <3>2, <3>3 DEF CacheInv
  <2> QED BY <2>5, <2>6
<1>7. CASE Chmod(l)
  <2>1. /\ pc[l] = "chmod" /\ lock = l /\ dest = NoFile
        /\ executable' = executable \cup {tmp[PidOf[l]]} /\ tmp[PidOf[l]] \in Launchers
        /\ content[tmp[PidOf[l]]] = Bytes
        /\ pc' = [pc EXCEPT ![l] = "rename"] /\ UNCHANGED <<lock, dest, tmp, fd, offset, content>>
        /\ \A m \in Launchers \ {l} : pc[m] \notin Inside
    BY <1>1, <1>7 DEF Chmod, Goto, LockInv, TmpInv, Inside, Filling
  <2> QED
    BY <1>1, <2>1
       DEF CacheInv, LockInv, TmpInv, NamesInv, DestInv, Steps, Inside, Filling, Early
<1>8. CASE Rename(l)
  <2>1. /\ pc[l] = "rename" /\ lock = l /\ dest = NoFile
        /\ tmp[PidOf[l]] \in Launchers /\ tmp[PidOf[l]] \in executable
        /\ content[tmp[PidOf[l]]] = Bytes
        /\ \A m \in Launchers \ {l} : pc[m] \notin Inside
    BY <1>1, <1>8 DEF Rename, LockInv, TmpInv, Inside, Filling
  <2>2. /\ dest' = tmp[PidOf[l]] /\ tmp' = [tmp EXCEPT ![PidOf[l]] = NoFile]
        /\ pc' = [pc EXCEPT ![l] = "found"] /\ lock' = NoOne
        /\ fd' = [fd EXCEPT ![l] = NoFile] /\ UNCHANGED <<offset, content, executable>>
    BY <1>8, <2>1 DEF Rename, Leave, Goto
  <2>3. TypeOK' /\ LockInv' /\ DestInv'
    BY <1>1, <2>1, <2>2 DEF LockInv, DestInv, Steps, Inside, Filling
  <2>4. TmpInv'
    BY <1>1, <2>1, <2>2 DEF TmpInv, Inside
  <2>5. NamesInv'
    BY <1>1, <2>1, <2>2 DEF NamesInv, Early
  <2> QED BY <2>3, <2>4, <2>5 DEF CacheInv
<1>9. CASE Exec(l)
  <2>1. PICK s \in {"running", "failed"} : pc' = [pc EXCEPT ![l] = s]
    BY <1>9 DEF Exec, Goto
  <2>2. pc[l] = "found" /\ UNCHANGED <<lock, dest, tmp, fd, offset, content, executable>>
    BY <1>9 DEF Exec
  <2> QED
    BY <1>1, <2>1, <2>2
       DEF CacheInv, LockInv, TmpInv, NamesInv, DestInv, Steps, Ends, Inside, Filling, Early
<1>10. CASE Fail(l) \/ Kill(l)
  <2>1. PICK s \in {"failed", "killed"} : pc' = [pc EXCEPT ![l] = s]
    BY <1>10 DEF Fail, Kill, Leave, Goto
  <2>2. /\ lock' = IF lock = l THEN NoOne ELSE lock
        /\ fd' = [fd EXCEPT ![l] = NoFile] /\ UNCHANGED <<dest, tmp, offset, content, executable>>
    BY <1>10 DEF Fail, Kill, Leave
  <2>3. TypeOK' /\ NamesInv' /\ DestInv'
    BY <1>1, <2>1, <2>2 DEF NamesInv, DestInv, Steps, Ends, Inside, Early
  <2>4. LockInv'
    BY <1>1, <2>1, <2>2 DEF LockInv, Inside, Filling
  <2>5. TmpInv'
    BY <1>1, <2>1, <2>2 DEF TmpInv
  <2> QED BY <2>3, <2>4, <2>5 DEF CacheInv
<1> QED
  BY <1>2, <1>3, <1>4, <1>5, <1>6, <1>7, <1>8, <1>9, <1>10 DEF Step

\* No step of a launcher, no failure and no kill breaks the invariant.
LEMMA CacheNext == CacheInv /\ [Next]_vars => CacheInv'
<1> SUFFICES ASSUME CacheInv, [Next]_vars PROVE CacheInv'
  OBVIOUS
<1>1. CASE Next
  BY <1>1, CacheStep DEF Next
<1>2. CASE UNCHANGED vars
  BY <1>2 DEF vars, CacheInv, TypeOK, LockInv, TmpInv, NamesInv, DestInv
<1> QED BY <1>1, <1>2

\* The invariant of the directory and of the launchers that use it.
THEOREM CacheCorrect == Spec => []CacheInv
<1>1. Init => CacheInv
  BY CacheInit
<1>2. CacheInv /\ [Next]_vars => CacheInv'
  BY CacheNext
<1> QED BY <1>1, <1>2, PTL DEF Spec

\* The launchers and the directory keep their types: nobody holds a file or
\* the lock but as declared (ensure_embedded_bwrap).
THEOREM CacheTypes == Spec => []TypeOK
<1>1. CacheInv => TypeOK
  BY DEF CacheInv
<1> QED BY <1>1, CacheCorrect, PTL

\* Nobody writes to the file that bwrap names.
LEMMA InvIntact == CacheInv => Intact
<1> SUFFICES ASSUME CacheInv, dest # NoFile PROVE Usable
  BY DEF Intact
<1>1. \A l \in Launchers : fd[l] # dest
  BY DEF CacheInv, LockInv, TmpInv, Filling
<1> QED BY <1>1 DEF CacheInv, DestInv, Usable

\* What bwrap names in the cache can be executed at every moment.
THEOREM CacheIntact == Spec => []Intact
BY CacheCorrect, InvIntact, PTL

\* Only Rename changes dest, and only in an empty cache.
LEMMA StepKeepsDest == CacheInv /\ [Next]_vars => (dest # NoFile => dest' = dest)
<1> SUFFICES ASSUME CacheInv, [Next]_vars, dest # NoFile PROVE dest' = dest
  OBVIOUS
<1>1. ASSUME NEW l \in Launchers, Step(l) \/ Fail(l) \/ Kill(l) PROVE dest' = dest
  <2>1. CASE Rename(l)
    BY <2>1 DEF Rename, CacheInv, LockInv, Filling
  <2>2. CASE ~Rename(l)
    BY <1>1, <2>2 DEF Step, Look, Lock, Recheck, Create, Write, Chmod, Exec, Fail, Kill
  <2> QED BY <2>1, <2>2
<1>2. CASE UNCHANGED vars
  BY <1>2 DEF vars
<1> QED BY <1>1, <1>2 DEF Next

\* The embedded bwrap is extracted once, however many launchers ask for it.
THEOREM CacheExtractedOnce == Spec => ExtractedOnce
<1>1. CacheInv /\ [Next]_vars => [dest # NoFile => dest' = dest]_vars
  BY StepKeepsDest
<1> QED BY <1>1, CacheCorrect, PTL DEF Spec, ExtractedOnce

-----------------------------------------------------------------------------
(* The directory implements SharedTool: Rename by a launcher is Publish,   *)
(* finding the file is Obtain, being killed with it is Drop.               *)

holders == {l \in Launchers : pc[l] \in {"found", "running"}}

\* In every state the invariant allows, the tool is usable once dest exists.
LEMMA UsableIsDest == CacheInv => (Usable <=> dest # NoFile)
BY InvIntact DEF Intact, Usable

\* An empty cache is a SharedTool that nobody has published.
LEMMA ImplementsInit == Init => Cache!Init
<1> SUFFICES ASSUME Init PROVE Cache!Init
  OBVIOUS
<1>1. ~Usable /\ holders = {}
  BY DEF Init, Usable, holders
<1> QED BY <1>1 DEF Cache!Init, Init, Usable

\* Rename publishes the tool, the two looks at dest obtain it, an end drops it,
\* and all other steps are invisible to SharedTool.
LEMMA ImplementsNext == CacheInv /\ CacheInv' /\ [Next]_vars => [Cache!Next]_Cache!vars
<1> SUFFICES ASSUME CacheInv, CacheInv', [Next]_vars
             PROVE  Cache!Next \/ UNCHANGED <<Usable, holders>>
  BY DEF Cache!vars, holders
<1>1. /\ Usable <=> dest # NoFile
      /\ Usable' <=> dest' # NoFile
      /\ pc \in [Launchers -> Steps \cup Ends]
      /\ \A m \in Launchers : pc[m] \in {"found", "running"} => dest # NoFile
  <2>1. (CacheInv => (Usable <=> dest # NoFile))'
    BY UsableIsDest, PTL
  <2> QED BY <2>1, UsableIsDest DEF CacheInv, TypeOK, LockInv
<1>2. Usable \in BOOLEAN /\ Usable' \in BOOLEAN
  BY DEF Usable
<1> DEFINE Held(m) == pc[m] \in {"found", "running"}
<1>3. ASSUME NEW l \in Launchers, Step(l) \/ Fail(l) \/ Kill(l)
      PROVE  Cache!Next \/ UNCHANGED <<Usable, holders>>
  <2>1. PICK s : pc' = [pc EXCEPT ![l] = s]
    <3>1. pc' = pc \/ \E s : pc' = [pc EXCEPT ![l] = s]
      BY <1>3
         DEF Step, Look, Lock, Recheck, Create, Write, Chmod, Rename, Exec, Fail, Kill,
             Leave, Goto
    <3>2. pc = [pc EXCEPT ![l] = pc[l]]
      BY <1>1
    <3> QED BY <3>1, <3>2
  <2>2. /\ s \in {"found", "running"} /\ ~Held(l) => holders' = holders \cup {l}
        /\ s \notin {"found", "running"} /\ Held(l) => holders' = holders \ {l}
        /\ (s \in {"found", "running"} <=> Held(l)) => holders' = holders
        /\ l \in holders <=> Held(l)
    BY <1>1, <2>1 DEF holders
  <2>3. CASE Rename(l)
    <3>1. dest = NoFile /\ dest' # NoFile /\ s = "found" /\ ~Held(l)
      BY <1>1, <2>1, <2>3 DEF Rename, Leave, Goto, CacheInv, LockInv, Filling
    <3>2. Cache!Publish(l)
      BY <1>1, <1>2, <2>2, <3>1 DEF Cache!Publish, holders
    <3> QED BY <3>2 DEF Cache!Next
  <2>4. CASE ~Rename(l)
    <3>1. Usable' = Usable
      <4>1. dest' = dest
        BY <1>3, <2>4 DEF Step, Look, Lock, Recheck, Create, Write, Chmod, Exec, Fail, Kill
      <4> QED BY <1>1, <1>2, <4>1
    <3>2. CASE s \in {"found", "running"} /\ ~Held(l)
      <4>1. Usable
        <5>1. dest' # NoFile
          BY <2>1, <1>1, <3>2 DEF CacheInv, LockInv
        <5> QED BY <1>1, <3>1, <5>1
      <4>2. Cache!Obtain(l)
        BY <2>2, <3>1, <3>2, <4>1 DEF Cache!Obtain, holders
      <4> QED BY <4>2 DEF Cache!Next
    <3>3. CASE s \notin {"found", "running"} /\ Held(l)
      <4>1. Cache!Drop(l)
        BY <2>2, <3>1, <3>3 DEF Cache!Drop, holders
      <4> QED BY <4>1 DEF Cache!Next
    <3>4. CASE s \in {"found", "running"} <=> Held(l)
      BY <2>2, <3>1, <3>4
    <3> QED BY <3>2, <3>3, <3>4
  <2> QED BY <2>3, <2>4
<1>4. CASE UNCHANGED vars
  <2>1. UNCHANGED <<pc, dest, executable, content, fd>>
    BY <1>4 DEF vars
  <2> QED BY <2>1 DEF Usable, holders
<1> QED BY <1>3, <1>4 DEF Next

\* To the launchers that run it, the cache is a SharedTool.
THEOREM CacheImplements == Spec => Implements
<1>1. Init => Cache!Init
  BY ImplementsInit
<1>2. CacheInv /\ CacheInv' /\ [Next]_vars => [Cache!Next]_Cache!vars
  BY ImplementsNext
<1> QED BY <1>1, <1>2, CacheCorrect, PTL DEF Spec, Implements, Cache!Spec
=============================================================================
