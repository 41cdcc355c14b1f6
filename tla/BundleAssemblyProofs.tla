------------------------- MODULE BundleAssemblyProofs -------------------------
(***************************************************************************)
(* What a payload holds at the end, for any number of inputs of any kind   *)
(* that name any paths: the file that was offered first, what a path led   *)
(* to that no other input names, and no loops but those of links in two    *)
(* spellings.                                                              *)
(***************************************************************************)
EXTENDS BundleAssembly, FiniteSetTheorems, SequenceTheorems, WellFoundedInduction, TLAPS

(***************************************************************************)
(* The argument.  The files are the first offers for their destinations,   *)
(* in order, and each destination has one; what is written at a path is    *)
(* written for one of the files that may be there, its own or that of an   *)
(* alias.  A traced link or alias is there unless another input named its  *)
(* path or its target.  Links of one spelling that survive lead, step by   *)
(* step, to a path without one, and targets of traced links are files,     *)
(* where no copied link is left.                                           *)
(***************************************************************************)

\* The roots that are traced; the paths of one have one meaning.
Roots == Origins \ {Copied}
OneRoot(T) ==
    \A r, q \in T : (r.orig = q.orig => r = q) /\ (r.canon = q.orig => q.orig = q.canon)
TracesOk(t) == \A o \in Roots : OneRoot(t[o])

\* Files, of offers os: the first for each destination.
Distinct(s) == \A i, j \in DOMAIN s : s[i].dest = s[j].dest => i = j
Itself(s) == \A i \in DOMAIN s : s[i].src[2] = s[i].dest
FirstIn(os, f) ==
    \E j \in DOMAIN os : os[j] = f /\ \A k \in 1..(j - 1) : os[k].dest # f.dest
FilesOk(fs, os) ==
    /\ Itself(os) /\ Distinct(fs)
    /\ \A i \in DOMAIN fs : FirstIn(os, fs[i])
    /\ \A j \in DOMAIN os : Taken(fs, os[j].dest)
CanonsTaken(t, fs) == \A o \in Roots : \A r \in t[o] : Taken(fs, r.canon)

\* Links, of traces t: traced ones come first, one for a path.
LinkFrom(t, l) ==
    \/ l.form = "run" /\ \E o \in Roots : \E r \in t[o] : r.link /\ r.orig = l.dest /\ r.canon = l.target
    \/ /\ l.form = "pay" /\ l.dest # l.target
       /\ \E r \in t[Copied] : r.orig = l.dest /\ r.canon = l.target
RunsFirst(ls) == \A i, j \in DOMAIN ls : i < j /\ ls[j].form = "run" => ls[i].form = "run"
RunsApart(ls) ==
    \A i, j \in DOMAIN ls : ls[i].form = "run" /\ ls[j].form = "run" /\ ls[i].dest = ls[j].dest => i = j
AllApart(ls) == \A i, j \in DOMAIN ls : ls[i] = ls[j] => i = j

\* No other input names the path of r or what it leads to.
Solo(t, o, r) == \A p \in Origins \ {o} : \A q \in t[p] : q.orig \notin {r.orig, r.canon}
RunLink(r) == [form |-> "run", dest |-> r.orig, target |-> r.canon]
LinksKept(t, ls) ==
    \A o \in Roots : \A r \in t[o] :
        r.link /\ Solo(t, o, r) => \E i \in DOMAIN ls : ls[i] = RunLink(r)
LinksOk(t, ls) ==
    /\ \A i \in DOMAIN ls : LinkFrom(t, ls[i])
    /\ RunsFirst(ls) /\ RunsApart(ls) /\ AllApart(ls) /\ LinksKept(t, ls)

\* Aliases: every path that is not a link, but those merge drops.
Alias(o, r) == <<<<o, r.canon>>, r.orig>>
Drops(o, r, T) ==
    o # Host /\ r.canon \in Elves /\ ~r.link /\ r.orig # r.canon /\ r \notin FirstPaths(T)
AliasesOk(t, as) ==
    /\ \A a \in as : \E o \in Roots : \E r \in t[o] : a = Alias(o, r) /\ r.orig # r.canon
    /\ \A o \in Roots : \A r \in t[o] :
          r.orig # r.canon /\ ~r.link /\ ~Drops(o, r, t[o]) => Alias(o, r) \in as

\* The stages.
Emitting == {"files", "links", "done", "failed"}
Linking == {"links", "done", "failed"}
ImagesOk ==
    /\ pc = "host" =>
         /\ images = Images /\ files = <<>> /\ links = <<>> /\ aliases = {} /\ offers = <<>>
         /\ traces = [o \in Origins |-> {}]
    /\ pc = "images" =>
         /\ \A i \in DOMAIN images : traces[images[i]] = {} /\ images[i] \in Range(Images)
         /\ \A i, j \in DOMAIN images : images[i] = images[j] => i = j
    /\ pc \in {"host", "images"} => \A i \in DOMAIN links : links[i].form = "run"
Sanitized ==
    pc \in Emitting =>
        /\ \A i \in DOMAIN links : links[i].form = "pay" => ~Taken(files, links[i].dest)
        /\ \A i \in DOMAIN links : ~Cyclic(LastTarget(links, links[i].form), links[i].dest)

\* What emit has written: files up to n, links up to n.
PlacedBy(f) == {f.dest} \cup AliasPaths(f)
HeldFrom(n) ==
    \A x \in Names :
        link[x] = NoName /\ (\E i \in 1..(n - 1) : x \in PlacedBy(files[i])) =>
            \E i \in 1..(n - 1) : x \in PlacedBy(files[i]) /\ held[x] = Staged(files[i])
PlacedAt(n, x) ==
    \/ link[x] = NoName /\ \A i \in 1..(n - 1) : links[i].dest # x
    \/ \E i \in 1..(n - 1) :
          /\ links[i].dest = x /\ link[x] = links[i].target
          /\ \A j \in (i + 1)..(n - 1) : links[j].dest # x
PayloadOk ==
    /\ pc \notin Emitting => next = 1
    /\ pc \notin Linking => \A x \in Names : link[x] = NoName
    /\ pc = "files" => next <= Len(files) + 1 /\ HeldFrom(next)
    /\ pc = "links" => next <= Len(links) + 1
    /\ pc \in Linking => HeldFrom(Len(files) + 1) /\ \A x \in Names : PlacedAt(next, x)
    /\ pc = "done" => next = Len(links) + 1
    /\ pc = "failed" => next \in DOMAIN links /\ InTheWay(links[next].dest)

Assembled ==
    /\ TracesOk(traces) /\ FilesOk(files, offers) /\ CanonsTaken(traces, files)
    /\ LinksOk(traces, links) /\ AliasesOk(traces, aliases)
    /\ ImagesOk /\ Sanitized /\ PayloadOk
BundleInv == TypeOK /\ (pc # "refused" => Assembled)

-----------------------------------------------------------------------------
(* Sequences: least and greatest numbers, what Pick keeps, concatenation.  *)

\* Every set of naturals with an element has a least one.
LEMMA Least == \A T \in SUBSET Nat : T # {} => \E n \in T : \A m \in T : n <= m
<1>1. PICK R : R = OpToRel(<, Nat)
  OBVIOUS
<1>2. IsWellFoundedOn(R, Nat)
  BY <1>1, NatLessThanWellFounded
<1>3. \A a, b \in Nat : a < b => <<a, b>> \in R
  BY <1>1 DEF OpToRel
<1> SUFFICES ASSUME NEW T \in SUBSET Nat, T # {} PROVE \E n \in T : \A m \in T : n <= m
  OBVIOUS
<1>4. PICK x \in T : \A y \in T : ~ (<<y, x>> \in R)
  BY <1>2, WFMin
<1>5. ASSUME NEW y \in T PROVE x <= y
  <2>1. ~(y < x)
    BY <1>3, <1>4
  <2> QED
    BY <2>1
<1> QED
  BY <1>5

LEMMA MinIsLeast ==
  ASSUME NEW T \in SUBSET Nat, T # {}
  PROVE  Min(T) \in T /\ \A m \in T : Min(T) <= m
  BY Least DEF Min

LEMMA MaxIsLast ==
  ASSUME NEW n \in Nat, NEW T \in SUBSET (1..n), T # {}
  PROVE  Max(T) \in T /\ \A m \in T : m <= Max(T)
<1>1. {n - m : m \in T} \in SUBSET Nat /\ {n - m : m \in T} # {}
  <2>1. \A m \in T : n - m \in Nat
    OBVIOUS
  <2> QED
    BY <2>1
<1>2. PICK m \in T : \A k \in {n - i : i \in T} : n - m <= k
  BY <1>1, Least
<1>3. \A i \in T : i <= m
  <2> TAKE i \in T
  <2>1. n - m <= n - i
    BY <1>2
  <2> QED
    BY <2>1
<1> QED
  BY <1>3 DEF Max

\* The places of numbers among others are the first ones, each taken once.
PlacesIn(I) == [i \in I |-> Cardinality({j \in I : j < i})]
LEMMA Places ==
  ASSUME NEW I \in SUBSET Nat, IsFiniteSet(I),
         NEW place, place = PlacesIn(I)
  PROVE  /\ Cardinality(I) \in Nat
         /\ place \in [I -> 0..(Cardinality(I) - 1)]
         /\ \A i, k \in I : i < k => place[i] < place[k]
         /\ \A n \in 0..(Cardinality(I) - 1) : \E i \in I : place[i] = n
<1>1. PICK N : N = Cardinality(I)
  OBVIOUS
<1>p. place = [i \in I |-> Cardinality({j \in I : j < i})]
  BY DEF PlacesIn
<1>2. N \in Nat
  BY <1>1, FS_CardinalityType
<1>3. ASSUME NEW i \in I
      PROVE  /\ IsFiniteSet({j \in I : j < i}) /\ place[i] \in Nat /\ place[i] <= N - 1
  <2>1. IsFiniteSet(I \ {i}) /\ Cardinality(I \ {i}) = N - 1
    BY <1>1, FS_RemoveElement
  <2>2. {j \in I : j < i} \in SUBSET (I \ {i})
    OBVIOUS
  <2>3. IsFiniteSet({j \in I : j < i}) /\ Cardinality({j \in I : j < i}) <= N - 1
    BY <2>1, <2>2, FS_Subset
  <2> QED
    BY <2>3, <1>p, FS_CardinalityType
<1>4. ASSUME NEW i \in I, NEW k \in I, i < k
      PROVE  place[i] < place[k]
  <2>1. PICK A, B : A = {j \in I : j < i} /\ B = {j \in I : j < k}
    OBVIOUS
  <2>2. i \in Nat /\ k \in Nat /\ \A j \in I : j \in Nat
    OBVIOUS
  <2>3. ASSUME NEW j \in A PROVE j \in B
    <3>1. j \in Nat /\ j < i /\ j < k
      BY <1>4, <2>1, <2>2
    <3> QED
      BY <2>1, <3>1
  <2>4. i \in B /\ i \notin A
    BY <1>4, <2>1, <2>2
  <2>5. place[i] = Cardinality(A) /\ place[k] = Cardinality(B)
    BY <1>p, <2>1
  <2>6. IsFiniteSet(B)
    BY <1>3, <2>1
  <2>7. Cardinality(A) <= Cardinality(B) /\ Cardinality(B) # Cardinality(A)
    BY <2>3, <2>4, <2>6, FS_Subset
  <2>8. place[i] \in Nat /\ place[k] \in Nat
    BY <1>3
  <2> QED
    BY <2>5, <2>7, <2>8
<1>5. place \in [I -> 0..(N - 1)]
  <2>1. \A i \in I : place[i] \in Nat /\ place[i] <= N - 1
    BY <1>3
  <2> QED
    BY <1>2, <1>p, <2>1
<1>6. place \in Injection(I, 0..(N - 1))
  <2>1. ASSUME NEW i \in I, NEW k \in I, place[i] = place[k] PROVE i = k
    <3>1. ~(i < k) /\ ~(k < i)
      <4> i \in Nat /\ k \in Nat /\ place[i] \in Nat /\ place[k] \in Nat
        BY <1>3
      <4> QED
        BY <1>4, <2>1
    <3> QED
      BY <3>1
  <2> QED
    BY <1>5, <2>1 DEF Injection, IsInjective
<1>7. IsFiniteSet(0..(N - 1)) /\ Cardinality(0..(N - 1)) = N
  <2>1. IsFiniteSet(0..(N - 1)) /\ Cardinality(0..(N - 1)) = IF 0 > N - 1 THEN 0 ELSE (N - 1) - 0 + 1
    BY <1>2, FS_Interval
  <2> QED
    BY <1>2, <2>1
<1>8. place \in Surjection(I, 0..(N - 1))
  BY <1>1, <1>6, <1>7, FS_Injection
<1>9. \A n \in 0..(N - 1) : \E i \in I : place[i] = n
  BY <1>8 DEF Surjection
<1> QED
  BY <1>1, <1>2, <1>4, <1>5, <1>9

\* Pick keeps the elements at I, all of them, in their order.
LEMMA PickKeeps ==
  ASSUME NEW S, NEW s \in Seq(S), NEW I \in SUBSET DOMAIN s
  PROVE  /\ Pick(s, I) \in Seq(S)
         /\ \E at \in [DOMAIN Pick(s, I) -> I] :
               /\ \A k \in DOMAIN Pick(s, I) : Pick(s, I)[k] = s[at[k]]
               /\ \A i \in I : \E k \in DOMAIN Pick(s, I) : at[k] = i
               /\ \A k, m \in DOMAIN Pick(s, I) : k < m => at[k] < at[m]
<1>1. DOMAIN s = 1..Len(s) /\ Len(s) \in Nat
  OBVIOUS
<1>2. I \in SUBSET Nat /\ IsFiniteSet(I)
  <2>1. IsFiniteSet(1..Len(s))
    BY <1>1, FS_Interval
  <2> QED
    BY <1>1, <2>1, FS_Subset
<1>3. PICK N, place : N = Cardinality(I) /\ place = PlacesIn(I)
  OBVIOUS
<1>4. /\ N \in Nat
      /\ place \in [I -> 0..(N - 1)]
      /\ \A i, k \in I : i < k => place[i] < place[k]
      /\ \A n \in 0..(N - 1) : \E i \in I : place[i] = n
  BY <1>2, <1>3, Places
<1>5. PICK at : at = [k \in 1..N |-> CHOOSE i \in I : Cardinality({j \in I : j < i}) = k - 1]
  OBVIOUS
<1>6. \A k \in 1..N : at[k] \in I /\ place[at[k]] = k - 1
  <2> TAKE k \in 1..N
  <2>1. k - 1 \in 0..(N - 1)
    BY <1>4
  <2>2. \E i \in I : Cardinality({j \in I : j < i}) = k - 1
    BY <1>3, <1>4, <2>1 DEF PlacesIn
  <2>3. at[k] \in I /\ Cardinality({j \in I : j < at[k]}) = k - 1
    BY <1>5, <2>2
  <2> QED
    BY <1>3, <2>3 DEF PlacesIn
<1>7. Pick(s, I) = [k \in 1..N |-> s[at[k]]]
  BY <1>3, <1>5 DEF Pick
<1>8. at \in [1..N -> I]
  BY <1>5, <1>6
<1>9. \A i, k \in I : i \in Nat /\ k \in Nat /\ place[i] \in Nat /\ place[k] \in Nat
  BY <1>2, <1>4
<1>10. \A i \in I : \E k \in 1..N : at[k] = i
  <2> TAKE i \in I
  <2>1. PICK k : k = place[i] + 1
    OBVIOUS
  <2>2. k \in 1..N /\ k - 1 = place[i]
    <3>1. place[i] \in 0..(N - 1) /\ N \in Nat
      BY <1>4
    <3> QED
      BY <2>1, <3>1
  <2>3. place[at[k]] = place[i] /\ at[k] \in I
    BY <1>6, <2>2
  <2>4. ~(at[k] < i) /\ ~(i < at[k])
    BY <1>4, <1>9, <2>3
  <2>5. at[k] = i
    BY <1>9, <2>3, <2>4
  <2> QED
    BY <2>2, <2>5
<1>11. \A k, m \in 1..N : k < m => at[k] < at[m]
  <2> SUFFICES ASSUME NEW k \in 1..N, NEW m \in 1..N, k < m PROVE at[k] < at[m]
    OBVIOUS
  <2>1. place[at[k]] < place[at[m]] /\ at[k] \in I /\ at[m] \in I
    BY <1>4, <1>6
  <2>2. ~(at[m] < at[k]) /\ at[m] # at[k]
    BY <1>4, <1>9, <2>1
  <2> QED
    BY <1>9, <2>1, <2>2
<1>12. Pick(s, I) \in Seq(S)
  <2>1. Pick(s, I) \in [1..N -> S]
    BY <1>7, <1>8
  <2> QED
    BY <1>4, <2>1, SeqDef
<1> QED
  BY <1>7, <1>8, <1>10, <1>11, <1>12

Picked(s, I, t) ==
    \E at \in [DOMAIN t -> I] :
        /\ \A k \in DOMAIN t : t[k] = s[at[k]]
        /\ \A i \in I : \E k \in DOMAIN t : at[k] = i
        /\ \A k, m \in DOMAIN t : k < m => at[k] < at[m]
LEMMA PickIs ==
  ASSUME NEW S, NEW s \in Seq(S), NEW I, I \subseteq DOMAIN s, NEW t, t = Pick(s, I)
  PROVE  t \in Seq(S) /\ Picked(s, I, t)
BY PickKeeps DEF Picked

Joined(s, t, u, M) ==
    /\ M \in Nat /\ DOMAIN s = 1..M /\ DOMAIN t \subseteq Nat \ {0}
    /\ \A i \in DOMAIN s : i \in DOMAIN u /\ u[i] = s[i]
    /\ \A j \in DOMAIN t : M + j \in DOMAIN u /\ u[M + j] = t[j]
    /\ \A k \in DOMAIN u : k \in DOMAIN s \/ \E j \in DOMAIN t : k = M + j
LEMMA Concat ==
  ASSUME NEW S, NEW s \in Seq(S), NEW t \in Seq(S), NEW u, u = s \o t, NEW M, M = Len(s)
  PROVE  u \in Seq(S) /\ Joined(s, t, u, M)
<1>2. PICK N : N = Len(t)
  OBVIOUS
<1>3. M \in Nat /\ N \in Nat /\ DOMAIN s = 1..M /\ DOMAIN t = 1..N
  BY <1>2
<1>4. /\ u \in Seq(S) /\ Len(u) = M + N
      /\ \A i \in 1..(M + N) : u[i] = IF i <= M THEN s[i] ELSE t[i - M]
  BY <1>2, ConcatProperties
<1>5. DOMAIN u = 1..(M + N)
  BY <1>3, <1>4
<1>6. \A i \in 1..M : i \in 1..(M + N) /\ i <= M
  BY <1>3
<1>7. \A j \in 1..N : M + j \in 1..(M + N) /\ ~(M + j <= M) /\ (M + j) - M = j
  BY <1>3
<1>8. \A k \in 1..(M + N) : k \in 1..M \/ (k - M \in 1..N /\ k = M + (k - M))
  BY <1>3
<1>9. \A i \in DOMAIN s : i \in DOMAIN u /\ u[i] = s[i]
  BY <1>3, <1>4, <1>5, <1>6
<1>10. \A j \in DOMAIN t : M + j \in DOMAIN u /\ u[M + j] = t[j]
  BY <1>3, <1>4, <1>5, <1>7
<1>11. \A k \in DOMAIN u : k \in DOMAIN s \/ \E j \in DOMAIN t : k = M + j
  BY <1>3, <1>5, <1>8
<1> QED
  BY <1>3, <1>4, <1>9, <1>10, <1>11 DEF Joined

-----------------------------------------------------------------------------
(* The first offer for a destination is its file.                          *)

LEMMA FilesIn ==
  ASSUME NEW s \in Seq(File)
  PROVE  \A i \in DOMAIN s : s[i] \in File /\ s[i].dest \in Names
  <1> TAKE i \in DOMAIN s
<1>1. s[i] \in File
  OBVIOUS
<1> QED
  BY <1>1 DEF File

LEMMA FirstComeKeeps ==
  ASSUME NEW fs \in Seq(File), NEW os \in Seq(File), NEW new \in Seq(File),
         FilesOk(fs, os), Itself(new), Distinct(new)
  PROVE  /\ FirstCome(fs, new) \in Seq(File) /\ os \o new \in Seq(File)
         /\ FilesOk(FirstCome(fs, new), os \o new)
         /\ \A x : Taken(fs, x) \/ Taken(new, x) => Taken(FirstCome(fs, new), x)
<1>1. PICK I : I = {i \in DOMAIN new : ~Taken(fs, new[i].dest)}
  OBVIOUS
<1>2. PICK ns : ns = Pick(new, I)
  OBVIOUS
<1>3. ns \in Seq(File) /\ Picked(new, I, ns)
  BY <1>1, <1>2, PickIs
<1>4. PICK at \in [DOMAIN ns -> I] :
        /\ \A k \in DOMAIN ns : ns[k] = new[at[k]]
        /\ \A i \in I : \E k \in DOMAIN ns : at[k] = i
        /\ \A k, m \in DOMAIN ns : k < m => at[k] < at[m]
  BY <1>3 DEF Picked
<1>5. PICK F, O : F = fs \o ns /\ O = os \o new
  OBVIOUS
<1>6. PICK M, N : M = Len(fs) /\ N = Len(os)
  OBVIOUS
<1>7. /\ F \in Seq(File) /\ M \in Nat /\ DOMAIN fs = 1..M /\ DOMAIN ns \subseteq Nat \ {0}
      /\ \A i \in DOMAIN fs : i \in DOMAIN F /\ F[i] = fs[i]
      /\ \A j \in DOMAIN ns : M + j \in DOMAIN F /\ F[M + j] = ns[j]
      /\ \A k \in DOMAIN F : k \in DOMAIN fs \/ \E j \in DOMAIN ns : k = M + j
  <2>1. F \in Seq(File) /\ Joined(fs, ns, F, M)
    BY <1>3, <1>5, <1>6, Concat
  <2> QED
    BY <2>1 DEF Joined
<1>8. /\ O \in Seq(File) /\ N \in Nat /\ DOMAIN os = 1..N /\ DOMAIN new \subseteq Nat \ {0}
      /\ \A i \in DOMAIN os : i \in DOMAIN O /\ O[i] = os[i]
      /\ \A j \in DOMAIN new : N + j \in DOMAIN O /\ O[N + j] = new[j]
      /\ \A k \in DOMAIN O : k \in DOMAIN os \/ \E j \in DOMAIN new : k = N + j
  <2>1. O \in Seq(File) /\ Joined(os, new, O, N)
    BY <1>5, <1>6, Concat
  <2> QED
    BY <2>1 DEF Joined
<1>9. F = FirstCome(fs, new)
  BY <1>1, <1>2, <1>5 DEF FirstCome
<1>10. \A k \in DOMAIN ns : at[k] \in DOMAIN new /\ ns[k] = new[at[k]] /\ ~Taken(fs, ns[k].dest)
  BY <1>1, <1>4
<1>11. \A j, k \in DOMAIN ns : ns[j].dest = ns[k].dest => j = k
  <2> SUFFICES ASSUME NEW j \in DOMAIN ns, NEW k \in DOMAIN ns, ns[j].dest = ns[k].dest PROVE j = k
    OBVIOUS
  <2>1. at[j] = at[k]
    BY <1>10 DEF Distinct
  <2>2. at[j] \in Nat /\ j \in Nat /\ k \in Nat
    BY <1>7, <1>8, <1>10
  <2>3. ~(j < k) /\ ~(k < j)
    BY <1>4, <2>1, <2>2
  <2> QED
    BY <2>2, <2>3
<1>12. Distinct(F)
  <2> SUFFICES ASSUME NEW i \in DOMAIN F, NEW j \in DOMAIN F, F[i].dest = F[j].dest PROVE i = j
    BY DEF Distinct
  <2>1. ASSUME NEW k \in DOMAIN fs, NEW m \in DOMAIN ns PROVE F[k].dest # F[M + m].dest
    BY <1>7, <1>10 DEF Taken
  <2>2. CASE i \in DOMAIN fs /\ j \in DOMAIN fs
    BY <1>7, <2>2 DEF FilesOk, Distinct
  <2>3. CASE i \in DOMAIN fs /\ j \notin DOMAIN fs
    BY <1>7, <2>1, <2>3
  <2>4. CASE i \notin DOMAIN fs /\ j \in DOMAIN fs
    BY <1>7, <2>1, <2>4
  <2>5. CASE i \notin DOMAIN fs /\ j \notin DOMAIN fs
    <3>1. PICK k, m : k \in DOMAIN ns /\ m \in DOMAIN ns /\ i = M + k /\ j = M + m
      BY <1>7, <2>5
    <3>2. ns[k].dest = ns[m].dest
      BY <1>7, <3>1
    <3> QED
      BY <1>11, <3>1, <3>2
  <2> QED
    BY <2>2, <2>3, <2>4, <2>5
<1>13. Itself(O)
  <2> SUFFICES ASSUME NEW k \in DOMAIN O PROVE O[k].src[2] = O[k].dest
    BY DEF Itself
  <2>1. CASE k \in DOMAIN os
    BY <1>8, <2>1 DEF FilesOk, Itself
  <2>2. CASE k \notin DOMAIN os
    BY <1>8, <2>2 DEF Itself
  <2> QED
    BY <2>1, <2>2
<1>14. \A i \in DOMAIN F : FirstIn(O, F[i])
  <2> TAKE i \in DOMAIN F
  <2>1. CASE i \in DOMAIN fs
    <3>1. PICK j \in DOMAIN os : os[j] = fs[i] /\ \A k \in 1..(j - 1) : os[k].dest # fs[i].dest
      BY <2>1 DEF FilesOk, FirstIn
    <3>2. \A k \in 1..(j - 1) : k \in DOMAIN os
      BY <1>8
    <3>3. O[j] = F[i] /\ \A k \in 1..(j - 1) : O[k].dest # F[i].dest
      BY <1>7, <1>8, <2>1, <3>1, <3>2
    <3> QED
      BY <1>8, <3>1, <3>3 DEF FirstIn
  <2>2. CASE i \notin DOMAIN fs
    <3>1. PICK m \in DOMAIN ns : i = M + m
      BY <1>7, <2>2
    <3>2. PICK j : j = at[m]
      OBVIOUS
    <3>3. j \in DOMAIN new /\ F[i] = new[j] /\ O[N + j] = F[i] /\ ~Taken(fs, F[i].dest) /\ N + j \in DOMAIN O
      BY <1>7, <1>8, <1>10, <3>1, <3>2
    <3>n. PICK n : n = N + j
      OBVIOUS
    <3>4. ASSUME NEW k \in 1..(n - 1) PROVE O[k].dest # F[i].dest
      <4>1. CASE k \in DOMAIN os
        <5>1. Taken(fs, os[k].dest)
          BY <4>1 DEF FilesOk
        <5> QED
          BY <1>8, <3>3, <4>1, <5>1
      <4>2. CASE k \notin DOMAIN os
        <5>1. j \in Nat \ {0} /\ DOMAIN new = 1..Len(new) /\ Len(new) \in Nat
          BY <1>8, <3>3
        <5>2. PICK h : h = k - N
          OBVIOUS
        <5>3. h \in DOMAIN new /\ h # j /\ k = N + h
          BY <1>8, <3>3, <3>n, <4>2, <5>1, <5>2
        <5>4. O[k] = new[h]
          BY <1>8, <5>3
        <5> QED
          BY <3>3, <5>3, <5>4 DEF Distinct
      <4> QED
        BY <4>1, <4>2
    <3> QED
      BY <3>3, <3>n, <3>4 DEF FirstIn
  <2> QED
    BY <2>1, <2>2
<1>15. \A x : Taken(fs, x) \/ Taken(new, x) => Taken(F, x)
  <2> TAKE x
  <2>1. CASE Taken(fs, x)
    BY <1>7, <2>1 DEF Taken
  <2>2. CASE ~Taken(fs, x) /\ Taken(new, x)
    <3>1. PICK i \in DOMAIN new : new[i].dest = x
      BY <2>2 DEF Taken
    <3>2. i \in I
      BY <1>1, <2>2, <3>1
    <3>3. PICK k \in DOMAIN ns : at[k] = i
      BY <1>4, <3>2
    <3>4. M + k \in DOMAIN F /\ F[M + k] = new[i]
      BY <1>4, <1>7, <3>3
    <3> QED
      BY <3>1, <3>4 DEF Taken
  <2> QED
    BY <2>1, <2>2
<1>16. \A j \in DOMAIN O : Taken(F, O[j].dest)
  <2> TAKE j \in DOMAIN O
  <2>1. CASE j \in DOMAIN os
    BY <1>8, <1>15, <2>1 DEF FilesOk
  <2>2. CASE j \notin DOMAIN os
    <3>1. PICK i \in DOMAIN new : O[j] = new[i]
      BY <1>8, <2>2
    <3>2. Taken(new, O[j].dest)
      BY <3>1 DEF Taken
    <3> QED
      BY <1>15, <3>2
  <2> QED
    BY <2>1, <2>2
<1> QED
  BY <1>5, <1>7, <1>8, <1>9, <1>12, <1>13, <1>14, <1>15, <1>16 DEF FilesOk

-----------------------------------------------------------------------------
(* What one closure brings.                                                *)

\* Names in a sequence, each once.
Named(t, T) ==
    /\ t \in Seq(Names) /\ \A i \in DOMAIN t : t[i] \in T
    /\ \A i, j \in DOMAIN t : t[i] = t[j] => i = j
    /\ \A x \in T : \E i \in DOMAIN t : t[i] = x

LEMMA ThoseAreNamed ==
  ASSUME NEW s \in Seq(Names), IsInjective(s), NEW T \in SUBSET Range(s)
  PROVE  Named(Those(s, T), T)
<1>1. PICK I, t : I = {i \in DOMAIN s : s[i] \in T} /\ t = Pick(s, I)
  OBVIOUS
<1>2. I \subseteq DOMAIN s
  BY <1>1
<1>3. t \in Seq(Names) /\ Picked(s, I, t)
  BY <1>1, <1>2, PickIs
<1>4. PICK at \in [DOMAIN t -> I] :
        /\ \A k \in DOMAIN t : t[k] = s[at[k]]
        /\ \A i \in I : \E k \in DOMAIN t : at[k] = i
        /\ \A k, m \in DOMAIN t : k < m => at[k] < at[m]
  BY <1>3 DEF Picked
<1>5. \A k \in DOMAIN t : at[k] \in DOMAIN s /\ t[k] \in T
  BY <1>1, <1>4
<1>6. ASSUME NEW i \in DOMAIN t, NEW j \in DOMAIN t, t[i] = t[j] PROVE i = j
  <2>1. at[i] = at[j]
    BY <1>4, <1>5, <1>6 DEF IsInjective
  <2>2. i \in Nat /\ j \in Nat /\ at[i] \in Nat
    BY <1>3, <1>5
  <2>3. ~(i < j) /\ ~(j < i)
    BY <1>4, <2>1, <2>2
  <2> QED
    BY <2>2, <2>3
<1>7. \A x \in T : \E i \in DOMAIN t : t[i] = x
  <2> TAKE x \in T
  <2>1. PICK i \in DOMAIN s : s[i] = x
    BY DEF Range
  <2>2. i \in I
    BY <1>1, <2>1
  <2> QED
    BY <1>4, <2>1, <2>2
<1> QED
  BY <1>1, <1>3, <1>5, <1>6, <1>7 DEF Those, Named

LEMMA InOrderIsNamed ==
  ASSUME NEW T \in SUBSET Names
  PROVE  Named(InOrder(T), T)
<1>1. PathOrder \in Seq(Names) /\ IsInjective(PathOrder) /\ T \in SUBSET Range(PathOrder)
  BY PathsAreOrdered DEF Names
<1> QED
  BY <1>1, ThoseAreNamed DEF InOrder

\* Files of one root, each at a path of its own.
FilesFor(fs, T) ==
    fs \in Seq(File) /\ Itself(fs) /\ Distinct(fs) /\ \A x : Taken(fs, x) <=> x \in T

LEMMA FilesAtAre ==
  ASSUME NEW o \in Origins, NEW T, NEW t, Named(t, T)
  PROVE  FilesFor(FilesAt(o, t), T)
<1>1. PICK fs : fs = FilesAt(o, t)
  OBVIOUS
<1>2. Len(t) \in Nat /\ DOMAIN t = 1..Len(t) /\ \A i \in DOMAIN t : t[i] \in Names
  BY DEF Named
<1>3. fs = [i \in 1..Len(t) |-> [src |-> <<o, t[i]>>, dest |-> t[i]]]
  BY <1>1, <1>2 DEF FilesAt
<1>4. \A i \in 1..Len(t) : [src |-> <<o, t[i]>>, dest |-> t[i]] \in File
  BY <1>2 DEF File
<1>5. fs \in Seq(File) /\ DOMAIN fs = DOMAIN t
  BY <1>2, <1>3, <1>4
<1>6. \A i \in DOMAIN fs : fs[i].dest = t[i] /\ fs[i].src[2] = t[i]
  BY <1>2, <1>3
<1>7. Itself(fs) /\ Distinct(fs)
  BY <1>5, <1>6 DEF Itself, Distinct, Named
<1>8. \A x : Taken(fs, x) <=> x \in T
  BY <1>5, <1>6 DEF Taken, Named
<1> QED
  BY <1>1, <1>5, <1>7, <1>8 DEF FilesFor

\* One root: its traced paths and what they leave.
LEMMA TracesAre ==
  ASSUME NEW T \in Traces
  PROVE  T \in SUBSET Resolution /\ OneRoot(T)
BY DEF Traces, kSubset, OneRoot

LEMMA ResolutionIs ==
  \A r \in Resolution : /\ r.orig \in Names /\ r.canon \in Names /\ r.link \in BOOLEAN
                        /\ r.link => r.orig # r.canon
BY DEF Resolution

LEMMA BuiltFilesAre ==
  ASSUME NEW o \in Origins, NEW T \in SUBSET Resolution
  PROVE  FilesFor(BuiltFiles(o, T), {r.canon : r \in T})
<1>1. {r.canon : r \in T} \in SUBSET Names
  BY ResolutionIs
<1> QED
  BY <1>1, InOrderIsNamed, FilesAtAre DEF BuiltFiles

Brought(ls, T) ==
    /\ ls \in Seq(Link)
    /\ \A i \in DOMAIN ls : \E r \in T : r.link /\ ls[i] = RunLink(r)
    /\ \A i, j \in DOMAIN ls : ls[i].dest = ls[j].dest => i = j
    /\ \A r \in T : r.link => \E i \in DOMAIN ls : ls[i] = RunLink(r)

LEMMA BuiltLinksAre ==
  ASSUME NEW T \in SUBSET Resolution, OneRoot(T)
  PROVE  Brought(BuiltLinks(T), T)
<1>1. PICK L : L = {r.orig : r \in {q \in T : q.link}}
  OBVIOUS
<1>2. L \in SUBSET Names
  BY <1>1, ResolutionIs
<1>3. PICK t : t = InOrder(L)
  OBVIOUS
<1>4. Named(t, L)
  BY <1>2, <1>3, InOrderIsNamed
<1>5. Len(t) \in Nat /\ DOMAIN t = 1..Len(t) /\ \A i \in DOMAIN t : t[i] \in L
  BY <1>4 DEF Named
<1>6. PICK ls : ls = BuiltLinks(T)
  OBVIOUS
<1>7. ls = [i \in DOMAIN t |-> [form |-> "run", dest |-> t[i],
                                 target |-> (CHOOSE r \in T : r.orig = t[i]).canon]]
  BY <1>1, <1>3, <1>6 DEF BuiltLinks
<1>8. ASSUME NEW i \in DOMAIN t, NEW r \in T, r.orig = t[i]
      PROVE  r.link /\ ls[i] = RunLink(r)
  <2>1. PICK q \in T : q.link /\ q.orig = t[i]
    BY <1>1, <1>5
  <2>2. r = q
    BY <1>8, <2>1 DEF OneRoot
  <2>3. (CHOOSE p \in T : p.orig = t[i]) = r
    BY <1>8 DEF OneRoot
  <2> QED
    BY <1>7, <1>8, <2>1, <2>2, <2>3 DEF RunLink
<1>9. \A i \in DOMAIN t : \E r \in T : r.orig = t[i] /\ r.link /\ ls[i] = RunLink(r)
  <2> TAKE i \in DOMAIN t
  <2>1. PICK r \in T : r.orig = t[i]
    BY <1>1, <1>5
  <2> QED
    BY <1>8, <2>1
<1>10. \A r \in Resolution : RunLink(r) \in Link
  BY ResolutionIs DEF RunLink, Link
<1>11. ls \in Seq(Link)
  <2>1. \A i \in 1..Len(t) : ls[i] \in Link
    BY <1>5, <1>9, <1>10
  <2> QED
    BY <1>5, <1>7, <2>1
<1>12. DOMAIN ls = DOMAIN t /\ \A i \in DOMAIN ls : ls[i].dest = t[i]
  BY <1>7
<1>13. \A r \in T : r.link => \E i \in DOMAIN ls : ls[i] = RunLink(r)
  <2> SUFFICES ASSUME NEW r \in T, r.link PROVE \E i \in DOMAIN ls : ls[i] = RunLink(r)
    OBVIOUS
  <2>1. PICK i \in DOMAIN t : t[i] = r.orig
    BY <1>1, <1>4 DEF Named
  <2> QED
    BY <1>8, <1>12, <2>1
<1> QED
  BY <1>4, <1>6, <1>9, <1>11, <1>12, <1>13 DEF Brought, Named

\* Links are added where none of their form is.
Merged(ls, new, A) ==
    /\ A \in Seq(Link)
    /\ \A i \in DOMAIN A : (\E j \in DOMAIN ls : A[i] = ls[j]) \/ \E j \in DOMAIN new : A[i] = new[j]
    /\ \A j \in DOMAIN ls : \E i \in DOMAIN A : A[i] = ls[j]
    /\ \A j \in DOMAIN new : Linked(ls, new[j]) \/ \E i \in DOMAIN A : A[i] = new[j]
    /\ RunsApart(A)

LEMMA AddLinksMerge ==
  ASSUME NEW ls \in Seq(Link), RunsApart(ls), \A i \in DOMAIN ls : ls[i].form = "run",
         NEW T, NEW new, Brought(new, T)
  PROVE  Merged(ls, new, AddLinks(ls, new))
<1>1. PICK I : I = {i \in DOMAIN new : ~Linked(ls, new[i])}
  OBVIOUS
<1>2. PICK ns : ns = Pick(new, I)
  OBVIOUS
<1>3. ns \in Seq(Link) /\ Picked(new, I, ns)
  BY <1>1, <1>2, PickIs DEF Brought
<1>4. PICK at \in [DOMAIN ns -> I] :
        /\ \A k \in DOMAIN ns : ns[k] = new[at[k]]
        /\ \A i \in I : \E k \in DOMAIN ns : at[k] = i
        /\ \A k, m \in DOMAIN ns : k < m => at[k] < at[m]
  BY <1>3 DEF Picked
<1>5. PICK A, M : A = ls \o ns /\ M = Len(ls)
  OBVIOUS
<1>6. /\ A \in Seq(Link) /\ M \in Nat /\ DOMAIN ls = 1..M /\ DOMAIN ns \subseteq Nat \ {0}
      /\ \A i \in DOMAIN ls : i \in DOMAIN A /\ A[i] = ls[i]
      /\ \A j \in DOMAIN ns : M + j \in DOMAIN A /\ A[M + j] = ns[j]
      /\ \A k \in DOMAIN A : k \in DOMAIN ls \/ \E j \in DOMAIN ns : k = M + j
  <2>1. A \in Seq(Link) /\ Joined(ls, ns, A, M)
    BY <1>3, <1>5, Concat
  <2> QED
    BY <2>1 DEF Joined
<1>7. \A k \in DOMAIN ns : at[k] \in DOMAIN new /\ ns[k] = new[at[k]] /\ ~Linked(ls, ns[k])
  BY <1>1, <1>4
<1>8. \A i \in DOMAIN new : new[i].form = "run"
  BY DEF Brought, RunLink
<1>9. \A j, k \in DOMAIN ns : ns[j].dest = ns[k].dest => j = k
  <2> SUFFICES ASSUME NEW j \in DOMAIN ns, NEW k \in DOMAIN ns, ns[j].dest = ns[k].dest PROVE j = k
    OBVIOUS
  <2>1. at[j] = at[k]
    BY <1>7 DEF Brought
  <2>2. at[j] \in Nat /\ j \in Nat /\ k \in Nat
    <3>1. new \in Seq(Link)
      BY DEF Brought
    <3> QED
      BY <1>6, <1>7, <3>1
  <2>3. ~(j < k) /\ ~(k < j)
    BY <1>4, <2>1, <2>2
  <2> QED
    BY <2>2, <2>3
<1>10. RunsApart(A)
  <2> SUFFICES ASSUME NEW i \in DOMAIN A, NEW j \in DOMAIN A, A[i].dest = A[j].dest PROVE i = j
    BY DEF RunsApart
  <2>1. ASSUME NEW k \in DOMAIN ls, NEW m \in DOMAIN ns PROVE A[k].dest # A[M + m].dest
    <3>1. A[k] = ls[k] /\ A[M + m] = ns[m] /\ ls[k].form = "run" /\ ns[m].form = "run"
      BY <1>6, <1>7, <1>8
    <3> QED
      BY <1>7, <3>1 DEF Linked
  <2>2. CASE i \in DOMAIN ls /\ j \in DOMAIN ls
    BY <1>6, <2>2 DEF RunsApart
  <2>3. CASE i \in DOMAIN ls /\ j \notin DOMAIN ls
    BY <1>6, <2>1, <2>3
  <2>4. CASE i \notin DOMAIN ls /\ j \in DOMAIN ls
    BY <1>6, <2>1, <2>4
  <2>5. CASE i \notin DOMAIN ls /\ j \notin DOMAIN ls
    <3>1. PICK k, m : k \in DOMAIN ns /\ m \in DOMAIN ns /\ i = M + k /\ j = M + m
      BY <1>6, <2>5
    <3>2. ns[k].dest = ns[m].dest
      BY <1>6, <3>1
    <3> QED
      BY <1>9, <3>1, <3>2
  <2> QED
    BY <2>2, <2>3, <2>4, <2>5
<1>11. \A i \in DOMAIN A : (\E j \in DOMAIN ls : A[i] = ls[j]) \/ \E j \in DOMAIN new : A[i] = new[j]
  BY <1>6, <1>7
<1>12. \A j \in DOMAIN new : Linked(ls, new[j]) \/ \E i \in DOMAIN A : A[i] = new[j]
  <2> SUFFICES ASSUME NEW j \in DOMAIN new, ~Linked(ls, new[j]) PROVE \E i \in DOMAIN A : A[i] = new[j]
    OBVIOUS
  <2>1. PICK k \in DOMAIN ns : at[k] = j
    BY <1>1, <1>4
  <2> QED
    BY <1>6, <1>7, <2>1
<1>13. A = AddLinks(ls, new)
  BY <1>1, <1>2, <1>5 DEF AddLinks
<1> QED
  BY <1>6, <1>10, <1>11, <1>12, <1>13 DEF Merged

-----------------------------------------------------------------------------
(* Where a path leads, step by step.                                       *)

Places0 == 0..(Cardinality(Names) + 1)
Leads == [Names -> Names \cup {NoName}]
IsWay(to, x, w) ==
    /\ w \in [Places0 -> Names \cup {NoName}] /\ w[0] = x
    /\ \A n \in Places0 : n # 0 => w[n] = IF w[n - 1] = NoName THEN NoName ELSE to[w[n - 1]]

LEMMA NamesAreFinite ==
  /\ IsFiniteSet(Names) /\ Cardinality(Names) \in Nat /\ (\A x \in Names : Cardinality(Names) >= 1)
<1>1. PICK n : n = Len(PathOrder)
  OBVIOUS
<1>2. n \in Nat /\ DOMAIN PathOrder = 1..n /\ PathOrder \in [1..n -> Names]
  BY <1>1, PathsAreOrdered
<1>3. Names = {PathOrder[i] : i \in 1..n}
  BY <1>2 DEF Names, Range
<1>4. IsFiniteSet(1..n)
  BY <1>2, FS_Interval
<1>5. PathOrder \in Surjection(1..n, Names)
  BY <1>2, <1>3 DEF Surjection
<1>6. IsFiniteSet(Names)
  BY <1>4, <1>5, FS_Surjection
<1>7. Cardinality(Names) \in Nat
  BY <1>6, FS_CardinalityType
<1>8. ASSUME NEW x \in Names PROVE Cardinality(Names) >= 1
  <2>1. Cardinality(Names) # 0
    BY <1>6, FS_EmptySet
  <2> QED
    BY <1>7, <2>1
<1> QED
  BY <1>6, <1>7, <1>8

\* Recursion along the way is well defined.
LEMMA WayIs ==
  ASSUME NEW to \in Leads, NEW x \in Names \cup {NoName}
  PROVE  IsWay(to, x, Way(to, x))
<1> DEFINE Body(g, k) ==
             [n \in 0..k |-> IF n = 0 THEN x ELSE IF g[n - 1] = NoName THEN NoName ELSE to[g[n - 1]]]
           Walks(g, k) == g = Body(g, k) /\ \A n \in 0..k : g[n] \in Names \cup {NoName}
           T == {k \in Nat : ~\E g : Walks(g, k)}
<1>1. \E g : Walks(g, 0)
  <2>1. PICK g : g = [n \in 0..0 |-> x]
    OBVIOUS
  <2>2. g = Body(g, 0)
    BY <2>1
  <2> QED
    BY <2>1, <2>2
<1>2. ASSUME NEW k \in Nat, NEW g, Walks(g, k) PROVE \E h : Walks(h, k + 1)
  <2>1. PICK h : h = [n \in 0..(k + 1) |->
                        IF n = k + 1 THEN IF g[k] = NoName THEN NoName ELSE to[g[k]] ELSE g[n]]
    OBVIOUS
  <2>2. \A n \in 0..k : h[n] = g[n] /\ g[n] = (IF n = 0 THEN x ELSE IF g[n - 1] = NoName THEN NoName ELSE to[g[n - 1]])
    BY <1>2, <2>1
  <2>3. \A n \in 0..k : h[n] = (IF n = 0 THEN x ELSE IF h[n - 1] = NoName THEN NoName ELSE to[h[n - 1]])
    <3> TAKE n \in 0..k
    <3>1. n # 0 => n - 1 \in 0..k
      OBVIOUS
    <3> QED
      BY <2>2, <3>1
  <2>4. h[k + 1] = IF h[k] = NoName THEN NoName ELSE to[h[k]]
    BY <2>1
  <2>5. \A n \in 0..(k + 1) : h[n] = (IF n = 0 THEN x ELSE IF h[n - 1] = NoName THEN NoName ELSE to[h[n - 1]])
    BY <2>3, <2>4
  <2>6. h = Body(h, k + 1)
    BY <2>1, <2>5
  <2>7. h[k + 1] \in Names \cup {NoName}
    <3>1. h[k] \in Names \cup {NoName}
      BY <1>2, <2>1
    <3> QED
      BY <2>4, <3>1 DEF Leads
  <2>8. \A n \in 0..(k + 1) : h[n] \in Names \cup {NoName}
    BY <1>2, <2>2, <2>7
  <2> QED
    BY <2>6, <2>8
<1> HIDE DEF Body, Walks
<1>3. T = {}
  <2> SUFFICES ASSUME T # {} PROVE FALSE
    OBVIOUS
  <2>1. PICK n \in T : \A m \in T : n <= m
    BY Least
  <2>2. n \in Nat /\ n # 0
    BY <1>1
  <2>3. n - 1 \in Nat /\ n - 1 \notin T /\ n = (n - 1) + 1
    BY <2>1, <2>2
  <2>4. \E g : Walks(g, n - 1)
    BY <2>3
  <2> QED
    BY <1>2, <2>3, <2>4
<1>4. PICK K : K = Cardinality(Names) + 1
  OBVIOUS
<1>5. K \in Nat
  BY <1>4, NamesAreFinite
<1>6. PICK g : Walks(g, K)
  BY <1>3, <1>5
<1>7. g = Body(g, K)
  BY <1>6 DEF Walks
<1>8. PICK h : h = Body(h, K) /\ Way(to, x) = h
  BY <1>4, <1>7 DEF Way, Body
<1>9. \A n \in 0..K : h[n] = (IF n = 0 THEN x ELSE IF h[n - 1] = NoName THEN NoName ELSE to[h[n - 1]])
  BY <1>8 DEF Body
<1>10. \A n \in 0..K : h[n] \in Names \cup {NoName}
  <2> DEFINE U == {n \in 0..K : h[n] \notin Names \cup {NoName}}
  <2> SUFFICES ASSUME U # {} PROVE FALSE
    OBVIOUS
  <2>1. U \in SUBSET Nat
    OBVIOUS
  <2>2. PICK n \in U : \A m \in U : n <= m
    BY <2>1, Least
  <2>0. 0 \in 0..K /\ h[0] = x
    BY <1>5, <1>9
  <2>n. n \in 0..K /\ h[n] \notin Names \cup {NoName}
    OBVIOUS
  <2>3. n \in 0..K /\ n # 0
    BY <2>0, <2>n, x \in Names \cup {NoName}
  <2>4. n - 1 \in 0..K /\ n - 1 \notin U
    BY <1>5, <2>1, <2>2, <2>3
  <2>5. h[n - 1] \in Names \cup {NoName}
    BY <2>4
  <2>6. h[n] \in Names \cup {NoName}
    BY <1>9, <2>3, <2>5 DEF Leads
  <2> QED
    BY <2>6
<1>11. DOMAIN h = 0..K
  BY <1>8 DEF Body
<1>12. h \in [0..K -> Names \cup {NoName}]
  <2>1. h = [n \in 0..K |-> h[n]]
    BY <1>8 DEF Body
  <2> QED
    BY <1>10, <2>1
<1>13. h[0] = x /\ \A n \in 0..K : n # 0 => h[n] = IF h[n - 1] = NoName THEN NoName ELSE to[h[n - 1]]
  <2>1. 0 \in 0..K
    BY <1>5
  <2> QED
    BY <1>9, <2>1
<1> QED
  BY <1>4, <1>8, <1>12, <1>13 DEF IsWay, Places0

\* A way of the same steps is the same.
LEMMA WaysAgree ==
  ASSUME NEW to \in Leads, NEW up \in Leads, NEW x \in Names,
         NEW w, NEW v, IsWay(to, x, w), IsWay(up, x, v),
         \A n \in Places0 : w[n] # NoName => to[w[n]] = up[w[n]]
  PROVE  \A n \in Places0 : v[n] = w[n]
<1> DEFINE U == {n \in Places0 : v[n] # w[n]}
<1> SUFFICES ASSUME U # {} PROVE FALSE
  OBVIOUS
<1>1. Places0 \in SUBSET Nat /\ U \in SUBSET Nat
  BY DEF Places0
<1>2. PICK n \in U : \A m \in U : n <= m
  BY <1>1, Least
<1>3. n \in Places0 /\ n # 0
  BY DEF IsWay
<1>4. n - 1 \in Places0 /\ n - 1 \notin U
  BY <1>1, <1>2, <1>3, NamesAreFinite DEF Places0
<1>5. v[n - 1] = w[n - 1]
  BY <1>4
<1> QED
  BY <1>3, <1>4, <1>5 DEF IsWay

\* Where no path is, none follows.
LEMMA NoWayOn ==
  ASSUME NEW to, NEW x, NEW w, IsWay(to, x, w), NEW m \in Places0, w[m] = NoName
  PROVE  \A n \in Places0 : m <= n => w[n] = NoName
<1> DEFINE U == {n \in Places0 : m <= n /\ w[n] # NoName}
<1> SUFFICES ASSUME U # {} PROVE FALSE
  OBVIOUS
<1>1. Places0 \in SUBSET Nat /\ U \in SUBSET Nat
  BY DEF Places0
<1>2. PICK n \in U : \A k \in U : n <= k
  BY <1>1, Least
<1>3. n \in Places0 /\ m <= n /\ n # m /\ n # 0 /\ m \in Nat /\ n \in Nat
  BY <1>1
<1>4. n - 1 \in Places0 /\ m <= n - 1 /\ n - 1 \notin U
  BY <1>1, <1>2, <1>3, NamesAreFinite DEF Places0
<1>5. w[n - 1] = NoName
  BY <1>4
<1> QED
  BY <1>3, <1>5 DEF IsWay

\* What a way goes through does not lead to a cycle, if the way ends.
LEMMA WayGoesOn ==
  ASSUME NEW to \in Leads, NEW x \in Names, to[x] # NoName, ~Cyclic(to, x)
  PROVE  ~Cyclic(to, to[x])
<1>1. PICK w, v : w = Way(to, x) /\ v = Way(to, to[x])
  OBVIOUS
<1>2. IsWay(to, x, w) /\ IsWay(to, to[x], v)
  BY <1>1, WayIs DEF Leads
<1>3. PICK m \in Places0 : w[m] = NoName
  BY <1>1, <1>2 DEF Cyclic, Range, IsWay
<1>4. \A n \in Places0 : n # 0 => v[n - 1] = w[n]
  <2> DEFINE U == {n \in Places0 : n # 0 /\ v[n - 1] # w[n]}
  <2> SUFFICES ASSUME U # {} PROVE FALSE
    OBVIOUS
  <2>1. Places0 \in SUBSET Nat /\ U \in SUBSET Nat
    BY DEF Places0
  <2>2. PICK n \in U : \A k \in U : n <= k
    BY <2>1, Least
  <2>3. n \in Places0 /\ n # 0 /\ n \in Nat
    BY <2>1
  <2>4. x # NoName
    BY PathsAreOrdered
  <2>5. n # 1
    BY <1>2, <2>3, <2>4 DEF IsWay
  <2>6. PICK k : k = n - 1
    OBVIOUS
  <2>7. k \in Places0 /\ k # 0 /\ k \notin U /\ n = k + 1 /\ k - 1 \in Places0
    BY <2>2, <2>3, <2>5, <2>6, NamesAreFinite DEF Places0
  <2>8. v[k - 1] = w[k]
    BY <2>7
  <2>9. v[k] = w[n]
    BY <1>2, <2>3, <2>6, <2>7, <2>8 DEF IsWay
  <2> QED
    BY <2>6, <2>9
<1>5. m # 0 /\ m - 1 \in Places0
  <2>1. m # 0
    BY <1>2, <1>3, PathsAreOrdered DEF IsWay
  <2> QED
    BY <2>1, NamesAreFinite DEF Places0
<1>6. v[m - 1] = NoName
  BY <1>3, <1>4, <1>5
<1> QED
  BY <1>1, <1>2, <1>5, <1>6 DEF Cyclic, Range, IsWay

LEMMA WayHasNoCycle ==
  ASSUME NEW to \in Leads, NEW x \in Names, ~Cyclic(to, x), NEW w, w = Way(to, x),
         NEW n \in Places0, w[n] # NoName
  PROVE  w[n] \in Names /\ ~Cyclic(to, w[n])
<1>1. IsWay(to, x, w)
  BY WayIs
<1>2. \A k \in Places0 : w[k] \in Names \cup {NoName}
  BY <1>1 DEF IsWay
<1> DEFINE U == {k \in Places0 : w[k] # NoName /\ Cyclic(to, w[k])}
<1> SUFFICES ASSUME U # {} PROVE FALSE
  BY <1>2
<1>3. Places0 \in SUBSET Nat /\ U \in SUBSET Nat
  BY DEF Places0
<1>4. PICK k \in U : \A j \in U : k <= j
  BY <1>3, Least
<1>5. k \in Places0 /\ k # 0 /\ k \in Nat
  BY <1>1, <1>3 DEF IsWay
<1>6. k - 1 \in Places0 /\ k - 1 \notin U
  BY <1>3, <1>4, <1>5, NamesAreFinite DEF Places0
<1>7. w[k - 1] # NoName /\ w[k] = to[w[k - 1]]
  BY <1>1, <1>5 DEF IsWay
<1>8. w[k - 1] \in Names /\ ~Cyclic(to, w[k - 1])
  BY <1>2, <1>6, <1>7
<1> QED
  BY <1>7, <1>8, WayGoesOn

\* Steps that are the same along a way that ends lead to the same end.
LEMMA SameWay ==
  ASSUME NEW to \in Leads, NEW up \in Leads, NEW x \in Names, ~Cyclic(to, x),
         \A y \in Names : ~Cyclic(to, y) /\ (\E n \in Places0 : Way(to, x)[n] = y) => to[y] = up[y]
  PROVE  ~Cyclic(up, x) /\ Range(Way(up, x)) = Range(Way(to, x))
<1>1. PICK w, v : w = Way(to, x) /\ v = Way(up, x)
  OBVIOUS
<1>2. IsWay(to, x, w) /\ IsWay(up, x, v)
  BY <1>1, WayIs
<1>3. \A n \in Places0 : w[n] # NoName => to[w[n]] = up[w[n]]
  BY <1>1, WayHasNoCycle
<1>4. \A n \in Places0 : v[n] = w[n]
  BY <1>2, <1>3, WaysAgree
<1>5. Range(v) = Range(w)
  BY <1>2, <1>4 DEF Range, IsWay
<1> QED
  BY <1>1, <1>5 DEF Cyclic

\* The last path of a way: the only one that leads nowhere.
IsEnd(to, x, y) == y \in Range(Way(to, x)) \ {NoName} /\ to[y] = NoName
LEMMA OneEnd ==
  ASSUME NEW to \in Leads, NEW x \in Names, ~Cyclic(to, x)
  PROVE  /\ \E y \in Names : IsEnd(to, x, y)
         /\ \A y, z : IsEnd(to, x, y) /\ IsEnd(to, x, z) => y = z
<1>1. PICK w : w = Way(to, x)
  OBVIOUS
<1>2. IsWay(to, x, w)
  BY <1>1, WayIs
<1>3. DOMAIN w = Places0 /\ Range(w) \subseteq Names \cup {NoName}
  BY <1>2 DEF IsWay, Range
<1>4. Places0 \in SUBSET Nat /\ \A n \in Places0 : n # 0 => n - 1 \in Places0
  BY NamesAreFinite DEF Places0
<1>5. \E y \in Names : IsEnd(to, x, y)
  <2> DEFINE U == {n \in Places0 : w[n] = NoName}
  <2>1. U # {} /\ U \in SUBSET Nat
    BY <1>1, <1>3, <1>4 DEF Cyclic, Range
  <2>2. PICK n \in U : \A m \in U : n <= m
    BY <2>1, Least
  <2>3. n \in Places0 /\ n # 0 /\ n \in Nat
    BY <1>2, <1>4, PathsAreOrdered DEF IsWay
  <2>4. n - 1 \in Places0 /\ n - 1 \notin U
    BY <1>4, <2>2, <2>3
  <2>5. w[n - 1] # NoName /\ to[w[n - 1]] = NoName
    BY <1>2, <2>3, <2>4 DEF IsWay
  <2> QED
    BY <1>1, <1>3, <2>4, <2>5 DEF IsEnd, Range
<1>6. ASSUME NEW y, NEW z, IsEnd(to, x, y), IsEnd(to, x, z) PROVE y = z
  <2>1. PICK m, n : m \in Places0 /\ n \in Places0 /\ w[m] = y /\ w[n] = z
    BY <1>1, <1>3, <1>6 DEF IsEnd, Range
  <2>2. ASSUME NEW i \in Places0, NEW j \in Places0, i < j, w[i] # NoName, to[w[i]] = NoName
        PROVE  w[j] = NoName
    <3>1. PICK k : k = i + 1
      OBVIOUS
    <3>2. k \in Places0 /\ k # 0 /\ k - 1 = i /\ k <= j
      BY <1>4, <2>2, <3>1, NamesAreFinite DEF Places0
    <3>3. w[k] = NoName
      BY <1>2, <2>2, <3>2 DEF IsWay
    <3> QED
      BY <1>2, <3>2, <3>3, NoWayOn
  <2>3. ~(m < n) /\ ~(n < m)
    BY <1>6, <2>1, <2>2 DEF IsEnd
  <2>4. m = n
    BY <1>4, <2>1, <2>3
  <2> QED
    BY <2>1, <2>4
<1> QED
  BY <1>5, <1>6

\* Short ways.
LEMMA ShortWays ==
  ASSUME NEW to \in Leads, NEW x \in Names
  PROVE  /\ to[x] = NoName => ~Cyclic(to, x) /\ IsEnd(to, x, x)
         /\ to[x] # NoName /\ to[to[x]] = NoName => ~Cyclic(to, x) /\ IsEnd(to, x, to[x])
<1>1. PICK w : w = Way(to, x)
  OBVIOUS
<1>2. IsWay(to, x, w)
  BY <1>1, WayIs
<1>3. 0 \in Places0 /\ 1 \in Places0 /\ 2 \in Places0
  BY NamesAreFinite DEF Places0
<1>4. x # NoName /\ DOMAIN w = Places0
  BY <1>2, PathsAreOrdered DEF IsWay
<1>5. w[0] = x /\ w[1] = to[x]
  <2>1. 1 # 0 /\ 1 - 1 = 0
    OBVIOUS
  <2>2. w[1] = IF w[1 - 1] = NoName THEN NoName ELSE to[w[1 - 1]]
    BY <1>2, <1>3, <2>1 DEF IsWay
  <2> QED
    BY <1>2, <1>4, <2>1, <2>2 DEF IsWay
<1>6. w[1] # NoName => w[2] = to[w[1]]
  <2>1. 2 # 0 /\ 2 - 1 = 1
    OBVIOUS
  <2>2. w[2] = IF w[2 - 1] = NoName THEN NoName ELSE to[w[2 - 1]]
    BY <1>2, <1>3, <2>1 DEF IsWay
  <2> QED
    BY <2>1, <2>2
<1> QED
  BY <1>1, <1>3, <1>4, <1>5, <1>6 DEF Cyclic, IsEnd, Range
-----------------------------------------------------------------------------
(* Links of one form as steps, and what is left of them.                   *)

LastOf(ls, i) == \A j \in DOMAIN ls : i < j => ~(ls[j].form = ls[i].form /\ ls[j].dest = ls[i].dest)
LEMMA LinksIn ==
  ASSUME NEW s \in Seq(Link)
  PROVE  \A i \in DOMAIN s : /\ s[i] \in Link /\ s[i].form \in {"run", "pay"}
                             /\ s[i].dest \in Names /\ s[i].target \in Names
  <1> TAKE i \in DOMAIN s
<1>1. s[i] \in Link
  OBVIOUS
<1> QED
  BY <1>1 DEF Link

LEMMA TargetsLead ==
  ASSUME NEW ls \in Seq(Link), NEW form
  PROVE  /\ FirstTarget(ls, form) \in Leads /\ LastTarget(ls, form) \in Leads
         /\ \A x \in Names : LinksOf(ls, form, x) = {} => LastTarget(ls, form)[x] = NoName
         /\ \A i \in DOMAIN ls : ls[i].form = form /\ LastOf(ls, i) =>
               LastTarget(ls, form)[ls[i].dest] = ls[i].target
<1>1. DOMAIN ls = 1..Len(ls) /\ Len(ls) \in Nat
  OBVIOUS
<1>2. \A x : LinksOf(ls, form, x) \in SUBSET (1..Len(ls)) /\ LinksOf(ls, form, x) \in SUBSET Nat
  BY <1>1 DEF LinksOf
<1>3. ASSUME NEW x \in Names, LinksOf(ls, form, x) # {}
      PROVE  ls[Min(LinksOf(ls, form, x))].target \in Names /\ ls[Max(LinksOf(ls, form, x))].target \in Names
  <2>1. PICK I : I = LinksOf(ls, form, x)
    OBVIOUS
  <2>2. Min(I) \in I /\ Max(I) \in I
    BY <1>1, <1>2, <1>3, <2>1, MinIsLeast, MaxIsLast
  <2>3. Min(I) \in DOMAIN ls /\ Max(I) \in DOMAIN ls
    BY <2>1, <2>2 DEF LinksOf
  <2> QED
    BY <2>1, <2>3, LinksIn
<1>4. FirstTarget(ls, form) \in Leads
  BY <1>3 DEF FirstTarget, Leads
<1>5. LastTarget(ls, form) \in Leads
  BY <1>3 DEF LastTarget, Leads
<1>6. \A x \in Names : LinksOf(ls, form, x) = {} => LastTarget(ls, form)[x] = NoName
  BY DEF LastTarget
<1>7. ASSUME NEW i \in DOMAIN ls, ls[i].form = form, LastOf(ls, i)
      PROVE  LastTarget(ls, form)[ls[i].dest] = ls[i].target
  <2>1. PICK x, I : x = ls[i].dest /\ I = LinksOf(ls, form, x)
    OBVIOUS
  <2>2. x \in Names /\ i \in I
    BY <1>7, <2>1, LinksIn DEF LinksOf
  <2>3. Max(I) \in I /\ i <= Max(I)
    BY <1>1, <1>2, <2>1, <2>2, MaxIsLast
  <2>4. PICK m : m = Max(I)
    OBVIOUS
  <2>5. m \in DOMAIN ls /\ ls[m].form = form /\ ls[m].dest = x /\ m \in Nat /\ i \in Nat
    BY <1>1, <2>1, <2>3, <2>4 DEF LinksOf
  <2>6. m = i
    BY <1>7, <2>1, <2>3, <2>4, <2>5 DEF LastOf
  <2>7. LastTarget(ls, form)[x] = ls[Max(I)].target
    BY <2>1, <2>2 DEF LastTarget
  <2> QED
    BY <2>1, <2>4, <2>6, <2>7
<1> QED
  BY <1>4, <1>5, <1>6, <1>7

\* A form and path that has links has a last one.
LEMMA OneIsLast ==
  ASSUME NEW ls \in Seq(Link), NEW form, NEW x, LinksOf(ls, form, x) # {}
  PROVE  \E i \in DOMAIN ls : ls[i].form = form /\ ls[i].dest = x /\ LastOf(ls, i)
<1>1. DOMAIN ls = 1..Len(ls) /\ Len(ls) \in Nat
  OBVIOUS
<1>2. LinksOf(ls, form, x) \in SUBSET (1..Len(ls))
  BY <1>1 DEF LinksOf
<1>3. PICK m : m = Max(LinksOf(ls, form, x))
  OBVIOUS
<1>4. m \in LinksOf(ls, form, x) /\ \A j \in LinksOf(ls, form, x) : j <= m
  BY <1>1, <1>2, <1>3, MaxIsLast
<1>5. m \in DOMAIN ls /\ ls[m].form = form /\ ls[m].dest = x
  BY <1>4 DEF LinksOf
<1>6. ASSUME NEW j \in DOMAIN ls, m < j, ls[j].form = form, ls[j].dest = x PROVE FALSE
  <2>1. j \in LinksOf(ls, form, x)
    BY <1>6 DEF LinksOf
  <2> QED
    BY <1>1, <1>4, <1>5, <1>6, <2>1
<1> QED
  BY <1>5, <1>6 DEF LastOf

\* With the links that lead to a cycle gone none leads to one.
LEMMA CyclesGone ==
  ASSUME NEW F \in Seq(Link), NEW I, I = {i \in DOMAIN F : ~InCycle(F, F[i])}, NEW G, G = Pick(F, I)
  PROVE  /\ G \in Seq(Link) /\ Picked(F, I, G)
         /\ \A i \in DOMAIN G : ~Cyclic(LastTarget(G, G[i].form), G[i].dest)
<1>1. G \in Seq(Link) /\ Picked(F, I, G)
  BY PickIs
<1>2. PICK at \in [DOMAIN G -> I] :
        /\ \A k \in DOMAIN G : G[k] = F[at[k]]
        /\ \A i \in I : \E k \in DOMAIN G : at[k] = i
        /\ \A k, m \in DOMAIN G : k < m => at[k] < at[m]
  BY <1>1 DEF Picked
<1>3. \A k \in DOMAIN G : at[k] \in DOMAIN F /\ ~InCycle(F, F[at[k]])
  BY <1>2
<1> SUFFICES ASSUME NEW i \in DOMAIN G PROVE ~Cyclic(LastTarget(G, G[i].form), G[i].dest)
  BY <1>1
<1>4. PICK f, x, L, M : f = G[i].form /\ x = G[i].dest /\ L = LastTarget(F, f) /\ M = LastTarget(G, f)
  OBVIOUS
<1>5. L \in Leads /\ M \in Leads /\ x \in Names
  BY <1>1, <1>4, TargetsLead, LinksIn
<1>6. ~Cyclic(L, x)
  BY <1>2, <1>3, <1>4 DEF InCycle
<1>7. ASSUME NEW y \in Names, ~Cyclic(L, y) PROVE L[y] = M[y]
  <2>1. CASE LinksOf(F, f, y) = {}
    <3>1. LinksOf(G, f, y) = {}
      BY <1>2, <1>3, <2>1 DEF LinksOf
    <3>2. LastTarget(F, f)[y] = NoName
      BY <2>1, TargetsLead
    <3>3. LastTarget(G, f)[y] = NoName
      BY <1>1, <3>1, TargetsLead
    <3> QED
      BY <1>4, <3>2, <3>3
  <2>2. CASE LinksOf(F, f, y) # {}
    <3>1. PICK m \in DOMAIN F : F[m].form = f /\ F[m].dest = y /\ LastOf(F, m)
      BY <2>2, OneIsLast
    <3>2. L[y] = F[m].target
      BY <1>4, <3>1, TargetsLead
    <3>3. m \in I
      BY <1>4, <1>7, <3>1 DEF InCycle
    <3>4. PICK k \in DOMAIN G : at[k] = m
      BY <1>2, <3>3
    <3>5. G[k] = F[m]
      BY <1>2, <3>4
    <3>6. LastOf(G, k)
      <4> SUFFICES ASSUME NEW j \in DOMAIN G, k < j, G[j].form = f, G[j].dest = y PROVE FALSE
        BY <3>1, <3>5 DEF LastOf
      <4>1. at[k] < at[j] /\ at[j] \in DOMAIN F /\ G[j] = F[at[j]]
        BY <1>2, <1>3
      <4> QED
        BY <3>1, <3>4, <4>1 DEF LastOf
    <3>7. M[y] = G[k].target
      BY <1>1, <1>4, <3>1, <3>5, <3>6, TargetsLead
    <3> QED
      BY <3>2, <3>5, <3>7
  <2> QED
    BY <2>1, <2>2
<1>8. ~Cyclic(M, x)
  BY <1>5, <1>6, <1>7, SameWay
<1> QED
  BY <1>4, <1>8
-----------------------------------------------------------------------------
(* What one more closure, or one more copied entry, leaves of these.       *)

TracesType == [Origins -> SUBSET Resolution]
AllRun(ls) == \A i \in DOMAIN ls : ls[i].form = "run"

\* One more root is traced.
Traced(t, o, T, u) ==
    /\ t \in TracesType /\ o \in Roots /\ t[o] = {} /\ T \in SUBSET Resolution /\ OneRoot(T)
    /\ u = [t EXCEPT ![o] = T]

LEMMA TracedRoots ==
  ASSUME NEW t, NEW o, NEW T, NEW u, Traced(t, o, T, u)
  PROVE  /\ u \in TracesType /\ u[o] = T /\ (\A p \in Origins : p # o => u[p] = t[p])
         /\ \A p \in Origins : t[p] \subseteq u[p]
BY DEF Traced, TracesType, Roots

LEMMA LinksGrow ==
  ASSUME NEW t, NEW o, NEW T, NEW u, Traced(t, o, T, u),
         NEW ls \in Seq(Link), LinksOk(t, ls), AllRun(ls),
         NEW new, Brought(new, T), NEW A, Merged(ls, new, A)
  PROVE  A \in Seq(Link) /\ LinksOk(u, A) /\ AllRun(A)
<1>1. /\ u[o] = T /\ (\A p \in Origins : p # o => u[p] = t[p])
      /\ \A p \in Origins : t[p] \subseteq u[p]
  BY TracedRoots
<1>2. o \in Roots /\ o \in Origins /\ t[o] = {} /\ Roots \subseteq Origins
  BY DEF Traced, Roots
<1>3. \A i \in DOMAIN new : \E r \in T : r.link /\ new[i] = RunLink(r)
  BY DEF Brought
<1>4. ASSUME NEW i \in DOMAIN A PROVE LinkFrom(u, A[i]) /\ A[i].form = "run"
  <2>1. CASE \E j \in DOMAIN ls : A[i] = ls[j]
    <3>1. PICK j \in DOMAIN ls : A[i] = ls[j]
      BY <2>1
    <3>2. ls[j].form = "run" /\ LinkFrom(t, ls[j])
      BY DEF AllRun, LinksOk
    <3>3. PICK p \in Roots : \E r \in t[p] : r.link /\ r.orig = ls[j].dest /\ r.canon = ls[j].target
      BY <3>2 DEF LinkFrom
    <3>4. u[p] = t[p]
      BY <1>1, <1>2, <3>3
    <3> QED
      BY <3>1, <3>2, <3>3, <3>4 DEF LinkFrom
  <2>2. CASE \E j \in DOMAIN new : A[i] = new[j]
    <3>1. PICK r \in T : r.link /\ A[i] = RunLink(r)
      BY <1>3, <2>2
    <3> QED
      BY <1>1, <1>2, <3>1 DEF LinkFrom, RunLink
  <2> QED
    BY <2>1, <2>2 DEF Merged
<1>5. RunsFirst(A) /\ RunsApart(A) /\ AllApart(A)
  <2>1. RunsApart(A)
    BY DEF Merged
  <2> QED
    BY <1>4, <2>1 DEF RunsFirst, RunsApart, AllApart
<1>6. LinksKept(u, A)
  <2> SUFFICES ASSUME NEW p \in Roots, NEW r \in u[p], r.link, Solo(u, p, r)
               PROVE  \E i \in DOMAIN A : A[i] = RunLink(r)
    BY DEF LinksKept
  <2>1. CASE p # o
    <3>1. r \in t[p] /\ Solo(t, p, r)
      BY <1>1, <1>2, <2>1 DEF Solo
    <3>2. PICK j \in DOMAIN ls : ls[j] = RunLink(r)
      BY <3>1 DEF LinksOk, LinksKept
    <3>3. \E i \in DOMAIN A : A[i] = ls[j]
      BY DEF Merged
    <3> QED
      BY <3>2, <3>3
  <2>2. CASE p = o
    <3>1. PICK j \in DOMAIN new : new[j] = RunLink(r)
      BY <1>1, <2>2 DEF Brought
    <3>2. ASSUME Linked(ls, new[j]) PROVE FALSE
      <4>1. PICK i \in DOMAIN ls : ls[i].form = "run" /\ ls[i].dest = r.orig
        BY <3>1, <3>2 DEF Linked, RunLink
      <4>2. PICK q \in Roots : \E s \in t[q] : s.orig = r.orig
        BY <4>1 DEF LinksOk, LinkFrom
      <4>3. PICK s \in t[q] : s.orig = r.orig
        BY <4>2
      <4>4. q # o /\ q \in Origins \ {o} /\ s \in u[q]
        BY <1>1, <1>2, <4>3
      <4> QED
        BY <2>2, <4>3, <4>4 DEF Solo
    <3>3. \E i \in DOMAIN A : A[i] = new[j]
      BY <3>2 DEF Merged
    <3> QED
      BY <3>1, <3>3
  <2> QED
    BY <2>1, <2>2
<1>7. A \in Seq(Link)
  BY DEF Merged
<1> QED
  BY <1>4, <1>5, <1>6, <1>7 DEF LinksOk, AllRun

\* Without earlier ones all that it brings is there.
LEMMA FirstLinks ==
  ASSUME NEW T, NEW new, Brought(new, T)
  PROVE  Merged(<<>>, new, new)
BY DEF Merged, Brought, RunsApart

LEMMA AliasesGrow ==
  ASSUME NEW t, NEW o, NEW T, NEW u, Traced(t, o, T, u), NEW as, AliasesOk(t, as),
         NEW B, BuiltAliases(o, T) \subseteq B, B \subseteq AliasesOf(o, T),
         AliasesOf(o, FirstPaths(T)) \subseteq B, o = Host => AliasesOf(o, T) \subseteq B
  PROVE  AliasesOk(u, as \cup B)
<1>1. u[o] = T /\ (\A p \in Origins : p # o => u[p] = t[p])
  BY TracedRoots
<1>2. o \in Roots /\ t[o] = {} /\ Roots \subseteq Origins
  BY DEF Traced, Roots
<1>3. ASSUME NEW a \in as \cup B
      PROVE  \E p \in Roots : \E r \in u[p] : a = Alias(p, r) /\ r.orig # r.canon
  <2>1. CASE a \in as
    <3>1. PICK p \in Roots : \E r \in t[p] : a = Alias(p, r) /\ r.orig # r.canon
      BY <2>1 DEF AliasesOk
    <3>2. u[p] = t[p]
      BY <1>1, <1>2, <3>1
    <3> QED
      BY <3>1, <3>2
  <2>2. CASE a \in B
    BY <1>1, <1>2, <2>2 DEF AliasesOf, Alias
  <2> QED
    BY <2>1, <2>2
<1>4. ASSUME NEW p \in Roots, NEW r \in u[p], r.orig # r.canon, ~r.link, ~Drops(p, r, u[p])
      PROVE  Alias(p, r) \in as \cup B
  <2>1. CASE p # o
    BY <1>1, <1>2, <1>4, <2>1 DEF AliasesOk
  <2>2. CASE p = o /\ r.canon \notin Elves
    <3>1. Alias(o, r) \in BuiltAliases(o, T)
      BY <1>1, <1>4, <2>2 DEF BuiltAliases, AliasesOf, Alias
    <3> QED
      BY <2>2, <3>1
  <2>3. CASE p = o /\ r.canon \in Elves
    <3>1. o = Host \/ r \in FirstPaths(T)
      BY <1>1, <1>4, <2>3 DEF Drops
    <3>2. Alias(o, r) \in AliasesOf(o, T) /\ (r \in FirstPaths(T) => Alias(o, r) \in AliasesOf(o, FirstPaths(T)))
      BY <1>1, <1>4, <2>3 DEF AliasesOf, Alias
    <3> QED
      BY <2>3, <3>1, <3>2
  <2> QED
    BY <2>1, <2>2, <2>3
<1> QED
  BY <1>3, <1>4 DEF AliasesOk

LEMMA AliasesType ==
  ASSUME NEW o \in Origins, NEW T \in SUBSET Resolution
  PROVE  /\ AliasesOf(o, T) \subseteq (Origins \X Names) \X Names
         /\ BuiltAliases(o, T) \subseteq AliasesOf(o, T)
         /\ AliasesOf(o, FirstPaths(T)) \subseteq AliasesOf(o, T)
<1>1. AliasesOf(o, T) \subseteq (Origins \X Names) \X Names
  BY ResolutionIs DEF AliasesOf
<1>2. BuiltAliases(o, T) \subseteq AliasesOf(o, T)
  BY DEF BuiltAliases, AliasesOf
<1>3. AliasesOf(o, FirstPaths(T)) \subseteq AliasesOf(o, T)
  BY DEF FirstPaths, AliasesOf
<1> QED
  BY <1>1, <1>2, <1>3

LEMMA CanonsGrow ==
  ASSUME NEW t, NEW o, NEW T, NEW u, Traced(t, o, T, u), TracesOk(t),
         NEW fs, CanonsTaken(t, fs), NEW new, FilesFor(new, {r.canon : r \in T}),
         NEW F, \A x : Taken(fs, x) \/ Taken(new, x) => Taken(F, x)
  PROVE  TracesOk(u) /\ CanonsTaken(u, F)
<1>0. OneRoot(T)
  BY DEF Traced
<1>1. u[o] = T /\ (\A p \in Origins : p # o => u[p] = t[p]) /\ OneRoot(T)
  BY <1>0, TracedRoots
<1>2. TracesOk(u)
  <2> SUFFICES ASSUME NEW p \in Roots PROVE OneRoot(u[p])
    BY DEF TracesOk
  <2>1. CASE p = o
    BY <1>1, <2>1
  <2>2. CASE p # o
    <3>1. u[p] = t[p] /\ OneRoot(t[p])
      BY <1>1, <2>2 DEF TracesOk, Roots
    <3> QED
      BY <3>1
  <2> QED
    BY <2>1, <2>2
<1>3. ASSUME NEW p \in Roots, NEW r \in u[p] PROVE Taken(F, r.canon)
  <2>1. CASE p = o
    BY <1>1, <1>3, <2>1 DEF FilesFor
  <2>2. CASE p # o
    <3>1. r \in t[p]
      BY <1>1, <2>2 DEF Roots
    <3> QED
      BY <3>1 DEF CanonsTaken
  <2> QED
    BY <2>1, <2>2
<1> QED
  BY <1>2, <1>3 DEF CanonsTaken

\* An entry of a copied directory names a path, and traces none.
Entered(t, r, u) ==
    t \in TracesType /\ r \in Resolution /\ u = [t EXCEPT ![Copied] = @ \cup {r}]
LEMMA EntryKeeps ==
  ASSUME NEW t, NEW r, NEW u, Entered(t, r, u)
  PROVE  /\ u \in TracesType /\ r \in u[Copied] /\ \A o \in Roots : u[o] = t[o]
         /\ TracesOk(t) => TracesOk(u)
         /\ \A fs : CanonsTaken(t, fs) => CanonsTaken(u, fs)
         /\ \A as : AliasesOk(t, as) => AliasesOk(u, as)
         /\ \A ls : LinksOk(t, ls) => LinksOk(u, ls)
<1>1. Copied \in Origins /\ Roots \subseteq Origins
  BY DEF Origins, Roots
<1>2. u \in TracesType /\ r \in u[Copied] /\ t[Copied] \subseteq u[Copied]
  BY <1>1 DEF Entered, TracesType
<1>3. \A o \in Roots : u[o] = t[o]
  BY <1>1 DEF Entered, TracesType, Roots
<1>4. \A p \in Origins : t[p] \subseteq u[p]
  BY <1>2, <1>3 DEF Roots
<1>5. ASSUME NEW ls, LinksOk(t, ls) PROVE LinksOk(u, ls)
  <2>1. \A i \in DOMAIN ls : LinkFrom(u, ls[i])
    BY <1>2, <1>3, <1>5 DEF LinksOk, LinkFrom
  <2>2. LinksKept(u, ls)
    <3> SUFFICES ASSUME NEW o \in Roots, NEW q \in u[o], q.link, Solo(u, o, q)
                 PROVE  \E i \in DOMAIN ls : ls[i] = RunLink(q)
      BY DEF LinksKept
    <3>1. q \in t[o] /\ Solo(t, o, q)
      BY <1>3, <1>4 DEF Solo
    <3> QED
      BY <1>5, <3>1 DEF LinksOk, LinksKept
  <2> QED
    BY <1>5, <2>1, <2>2 DEF LinksOk
<1>6. TracesOk(t) => TracesOk(u)
  BY <1>3 DEF TracesOk
<1>7. \A fs : CanonsTaken(t, fs) => CanonsTaken(u, fs)
  BY <1>3 DEF CanonsTaken
<1>8. \A as : AliasesOk(t, as) => AliasesOk(u, as)
  BY <1>3 DEF AliasesOk
<1> QED
  BY <1>2, <1>3, <1>5, <1>6, <1>7, <1>8

\* A copied link comes after all the others.
LEMMA LinkAppended ==
  ASSUME NEW t, NEW ls \in Seq(Link), LinksOk(t, ls), NEW l \in Link, l.form = "pay",
         LinkFrom(t, l), l \notin Range(ls)
  PROVE  Append(ls, l) \in Seq(Link) /\ LinksOk(t, Append(ls, l))
<1>1. PICK A, n : A = Append(ls, l) /\ n = Len(ls) + 1
  OBVIOUS
<1>2. /\ A \in Seq(Link) /\ DOMAIN ls = 1..Len(ls) /\ Len(ls) \in Nat
      /\ DOMAIN A = DOMAIN ls \cup {n} /\ A[n] = l /\ \A i \in DOMAIN ls : A[i] = ls[i]
  BY <1>1
<1>3. \A i \in DOMAIN ls : i < n /\ i # n /\ ~(n < i) /\ ls[i] # l
  BY <1>1, <1>2 DEF Range
<1>4. \A i \in DOMAIN A : LinkFrom(t, A[i])
  BY <1>2 DEF LinksOk
<1>5. RunsFirst(A)
  <2> SUFFICES ASSUME NEW i \in DOMAIN A, NEW j \in DOMAIN A, i < j, A[j].form = "run" PROVE A[i].form = "run"
    BY DEF RunsFirst
  <2>1. j \in DOMAIN ls
    BY <1>2
  <2>2. i \in DOMAIN ls
    BY <1>2, <1>3, <2>1
  <2> QED
    BY <1>2, <2>1, <2>2 DEF LinksOk, RunsFirst
<1>6. RunsApart(A)
  <2> SUFFICES ASSUME NEW i \in DOMAIN A, NEW j \in DOMAIN A, A[i].form = "run", A[j].form = "run", A[i].dest = A[j].dest PROVE i = j
    BY DEF RunsApart
  <2>1. i \in DOMAIN ls /\ j \in DOMAIN ls
    BY <1>2
  <2> QED
    BY <1>2, <2>1 DEF LinksOk, RunsApart
<1>7. AllApart(A)
  BY <1>2, <1>3 DEF LinksOk, AllApart
<1>8. LinksKept(t, A)
  BY <1>2 DEF LinksOk, LinksKept
<1> QED
  BY <1>1, <1>2, <1>4, <1>5, <1>6, <1>7, <1>8 DEF LinksOk
-----------------------------------------------------------------------------
(* The inputs, one step at a time.                                         *)

LEMMA OriginsAre ==
  /\ Host \in Roots /\ Copied \in Origins /\ Copied \notin Roots
  /\ \A o \in Range(Images) : o \in Roots /\ o # Host
BY OriginsAreDistinct DEF Roots, Origins

\* While inputs are collected nothing is in the payload.
LEMMA StillCollecting ==
  ASSUME TypeOK, Assembled, pc \notin Emitting, UNCHANGED <<next, held, link>>,
         pc' \in {"images", "assets", "copy", "sanitize", "refused"},
         images' \in Seq(Range(Images)), files' \in Seq(File), offers' \in Seq(File),
         links' \in Seq(Link), aliases' \subseteq (Origins \X Names) \X Names, traces' \in TracesType
  PROVE  TypeOK' /\ Sanitized' /\ PayloadOk'
<1>1. next = 1 /\ \A x \in Names : link[x] = NoName
  BY DEF Assembled, PayloadOk, Emitting, Linking
<1>2. pc' \notin Emitting /\ pc' \notin Linking /\ pc' # "files" /\ pc' # "links" /\ pc' # "done" /\ pc' # "failed"
  BY DEF Emitting, Linking
<1>3. next' = 1 /\ held' = held /\ link' = link
  BY <1>1
<1>4. Sanitized'
  BY <1>2 DEF Sanitized
<1>5. PayloadOk'
  BY <1>1, <1>2, <1>3 DEF PayloadOk
<1>6. next' \in 1..(Len(files') + Len(links') + 1)
  <2>1. PICK m, n : m = Len(files') /\ n = Len(links')
    OBVIOUS
  <2>2. m \in Nat /\ n \in Nat
    BY <2>1
  <2> QED
    BY <1>3, <2>1, <2>2
<1>7. TypeOK'
  BY <1>3, <1>6 DEF TypeOK, TracesType
<1> QED
  BY <1>4, <1>5, <1>7

LEMMA FirstFiles ==
  ASSUME NEW fs \in Seq(File), Itself(fs), Distinct(fs)
  PROVE  FilesOk(fs, fs)
<1>1. DOMAIN fs = 1..Len(fs) /\ Len(fs) \in Nat
  OBVIOUS
<1>2. \A i \in DOMAIN fs : FirstIn(fs, fs[i])
  <2> TAKE i \in DOMAIN fs
  <2>1. \A k \in 1..(i - 1) : k \in DOMAIN fs /\ k # i
    BY <1>1
  <2>2. \A k \in 1..(i - 1) : fs[k].dest # fs[i].dest
    BY <2>1 DEF Distinct
  <2> QED
    BY <2>2 DEF FirstIn
<1>3. \A j \in DOMAIN fs : Taken(fs, fs[j].dest)
  BY DEF Taken
<1> QED
  BY <1>2, <1>3 DEF FilesOk

LEMMA CollectHostKeeps ==
  ASSUME TypeOK, Assembled, CollectHost
  PROVE  TypeOK' /\ Assembled'
<1>1. PICK T \in Traces :
        /\ files' = BuiltFiles(Host, T) /\ links' = BuiltLinks(T)
        /\ aliases' = BuiltAliases(Host, T) \cup AliasesOf(Host, T)
        /\ traces' = [traces EXCEPT ![Host] = T]
  BY DEF CollectHost
<1>2. /\ pc = "host" /\ pc' = "images" /\ offers' = files'
      /\ images' = images /\ next' = next /\ held' = held /\ link' = link
  BY DEF CollectHost, payload
<1>3. /\ images = Images /\ links = <<>> /\ aliases = {}
      /\ traces = [o \in Origins |-> {}]
  BY <1>2 DEF Assembled, ImagesOk
<1>4. Host \in Roots /\ Host \in Origins /\ T \in SUBSET Resolution /\ OneRoot(T)
  BY OriginsAre, TracesAre DEF Roots
<1>5. Traced(traces, Host, T, traces')
  BY <1>1, <1>3, <1>4 DEF Traced, TypeOK, TracesType
<1>6. traces' \in TracesType /\ \A p \in Origins : p # Host => traces'[p] = {}
  BY <1>3, <1>5, TracedRoots
<1>7. FilesFor(files', {r.canon : r \in T})
  BY <1>1, <1>4, BuiltFilesAre
<1>8. files' \in Seq(File) /\ FilesOk(files', offers')
  BY <1>2, <1>7, FirstFiles DEF FilesFor
<1>9. TracesOk(traces') /\ CanonsTaken(traces', files')
  <2>1. TracesOk(traces)
    BY DEF Assembled
  <2>2. CanonsTaken(traces, <<>>)
    BY <1>3 DEF CanonsTaken, Roots
  <2>3. \A x : Taken(<<>>, x) \/ Taken(files', x) => Taken(files', x)
    BY DEF Taken
  <2> QED
    BY <1>5, <1>7, <2>1, <2>2, <2>3, CanonsGrow
<1>10. links' \in Seq(Link) /\ LinksOk(traces', links') /\ AllRun(links')
  <2>1. Brought(links', T)
    BY <1>1, <1>4, BuiltLinksAre
  <2>2. Merged(links, links', links')
    BY <1>3, <2>1, FirstLinks
  <2>3. LinksOk(traces, links) /\ links \in Seq(Link)
    BY DEF Assembled, TypeOK
  <2>4. AllRun(links)
    BY <1>3 DEF AllRun
  <2> QED
    BY <1>5, <2>1, <2>2, <2>3, <2>4, LinksGrow
<1>11. AliasesOk(traces', aliases') /\ aliases' \subseteq (Origins \X Names) \X Names
  <2>1. /\ AliasesOf(Host, T) \subseteq (Origins \X Names) \X Names
        /\ BuiltAliases(Host, T) \subseteq AliasesOf(Host, T)
        /\ AliasesOf(Host, FirstPaths(T)) \subseteq AliasesOf(Host, T)
    BY <1>4, AliasesType
  <2>2. AliasesOk(traces, aliases)
    BY DEF Assembled
  <2>3. PICK B : B = BuiltAliases(Host, T) \cup AliasesOf(Host, T)
    OBVIOUS
  <2>4. AliasesOk(traces', aliases \cup B)
    BY <1>5, <2>1, <2>2, <2>3, AliasesGrow
  <2>5. aliases' = aliases \cup B
    BY <1>1, <1>3, <2>3
  <2> QED
    BY <1>1, <2>1, <2>4, <2>5
<1>12. images' \in Seq(Range(Images))
  BY <1>2 DEF TypeOK
<1>13. ImagesOk'
  <2>1. \A i \in DOMAIN Images : Images[i] \in Range(Images) /\ Images[i] \in Origins /\ Images[i] # Host
    BY OriginsAre DEF Range, Roots
  <2>2. \A i, j \in DOMAIN Images : Images[i] = Images[j] => i = j
    BY OriginsAreDistinct DEF IsInjective
  <2> QED
    BY <1>2, <1>3, <1>6, <1>10, <2>1, <2>2 DEF ImagesOk, AllRun
<1>14. TypeOK' /\ Sanitized' /\ PayloadOk'
  <2>1. pc \notin Emitting
    BY <1>2 DEF Emitting
  <2> QED
    BY <1>2, <1>6, <1>8, <1>10, <1>11, <1>12, <2>1, StillCollecting
<1> QED
  BY <1>8, <1>9, <1>10, <1>11, <1>13, <1>14 DEF Assembled

LEMMA MergeImageKeeps ==
  ASSUME TypeOK, Assembled, MergeImage
  PROVE  TypeOK' /\ Assembled'
<1>1. PICK o : o = Head(images)
  OBVIOUS
<1>2. PICK T \in Traces :
        /\ files' = FirstCome(files, BuiltFiles(o, T)) /\ links' = AddLinks(links, BuiltLinks(T))
        /\ aliases' = aliases \cup BuiltAliases(o, T) \cup AliasesOf(o, FirstPaths(T))
        /\ traces' = [traces EXCEPT ![o] = T]
        /\ offers' = offers \o BuiltFiles(o, T)
  BY <1>1 DEF MergeImage
<1>3. /\ pc = "images" /\ pc' = pc /\ images # <<>> /\ images' = Tail(images)
      /\ next' = next /\ held' = held /\ link' = link
  BY DEF MergeImage, payload
<1>4. images \in Seq(Range(Images)) /\ files \in Seq(File) /\ offers \in Seq(File) /\ links \in Seq(Link)
  BY DEF TypeOK
<1>5. /\ \A i \in DOMAIN images : traces[images[i]] = {} /\ images[i] \in Range(Images)
      /\ \A i, j \in DOMAIN images : images[i] = images[j] => i = j
      /\ AllRun(links)
  BY <1>3 DEF Assembled, ImagesOk, AllRun
<1>6. 1 \in DOMAIN images /\ o = images[1]
  BY <1>1, <1>3, <1>4
<1>7. o \in Roots /\ o \in Origins /\ o # Host /\ traces[o] = {}
  BY <1>5, <1>6, OriginsAre DEF Roots
<1>8. T \in SUBSET Resolution /\ OneRoot(T)
  BY TracesAre
<1>9. Traced(traces, o, T, traces')
  BY <1>2, <1>7, <1>8 DEF Traced, TypeOK, TracesType
<1>10. traces' \in TracesType /\ \A p \in Origins : p # o => traces'[p] = traces[p]
  BY <1>9, TracedRoots
<1>11. PICK new : new = BuiltFiles(o, T)
  OBVIOUS
<1>12. FilesFor(new, {r.canon : r \in T})
  BY <1>7, <1>8, <1>11, BuiltFilesAre
<1>13. /\ files' \in Seq(File) /\ offers' \in Seq(File) /\ FilesOk(files', offers')
       /\ \A x : Taken(files, x) \/ Taken(new, x) => Taken(files', x)
  <2>1. FilesOk(files, offers)
    BY DEF Assembled
  <2>2. new \in Seq(File) /\ Itself(new) /\ Distinct(new)
    BY <1>12 DEF FilesFor
  <2> QED
    BY <1>2, <1>4, <1>11, <2>1, <2>2, FirstComeKeeps
<1>14. TracesOk(traces') /\ CanonsTaken(traces', files')
  <2>1. TracesOk(traces) /\ CanonsTaken(traces, files)
    BY DEF Assembled
  <2> QED
    BY <1>9, <1>12, <1>13, <2>1, CanonsGrow
<1>15. links' \in Seq(Link) /\ LinksOk(traces', links') /\ AllRun(links')
  <2>1. PICK nl : nl = BuiltLinks(T)
    OBVIOUS
  <2>2. Brought(nl, T)
    BY <1>8, <2>1, BuiltLinksAre
  <2>3. LinksOk(traces, links) /\ RunsApart(links)
    BY DEF Assembled, LinksOk
  <2>4. Merged(links, nl, links')
    BY <1>2, <1>4, <1>5, <2>1, <2>2, <2>3, AddLinksMerge DEF AllRun
  <2> QED
    BY <1>4, <1>5, <1>9, <2>2, <2>3, <2>4, LinksGrow
<1>16. AliasesOk(traces', aliases') /\ aliases' \subseteq (Origins \X Names) \X Names
  <2>1. /\ AliasesOf(o, T) \subseteq (Origins \X Names) \X Names
        /\ BuiltAliases(o, T) \subseteq AliasesOf(o, T)
        /\ AliasesOf(o, FirstPaths(T)) \subseteq AliasesOf(o, T)
    BY <1>7, <1>8, AliasesType
  <2>2. AliasesOk(traces, aliases) /\ aliases \subseteq (Origins \X Names) \X Names
    BY DEF Assembled, TypeOK
  <2>3. PICK B : B = BuiltAliases(o, T) \cup AliasesOf(o, FirstPaths(T))
    OBVIOUS
  <2>4. AliasesOk(traces', aliases \cup B)
    BY <1>7, <1>9, <2>1, <2>2, <2>3, AliasesGrow
  <2>5. aliases' = aliases \cup B
    BY <1>2, <2>3
  <2> QED
    BY <2>1, <2>2, <2>3, <2>4, <2>5
<1>17. images' \in Seq(Range(Images))
  BY <1>3, <1>4
<1>18. ImagesOk'
  <2>1. \A i \in DOMAIN images' : i \in Nat /\ i + 1 \in DOMAIN images /\ images'[i] = images[i + 1] /\ i + 1 # 1
    BY <1>3, <1>4
  <2>2. ASSUME NEW i \in DOMAIN images' PROVE traces'[images'[i]] = {} /\ images'[i] \in Range(Images)
    <3>1. images'[i] \in Range(Images) /\ images'[i] # o /\ traces[images'[i]] = {}
      BY <1>5, <1>6, <2>1
    <3>2. images'[i] \in Origins
      BY <3>1, OriginsAre DEF Roots
    <3> QED
      BY <1>10, <3>1, <3>2
  <2>3. ASSUME NEW i \in DOMAIN images', NEW j \in DOMAIN images', images'[i] = images'[j] PROVE i = j
    <3>1. PICK k, m : k = i + 1 /\ m = j + 1
      OBVIOUS
    <3>2. k = m
      BY <1>5, <2>1, <2>3, <3>1
    <3> QED
      BY <2>1, <3>1, <3>2
  <2> QED
    BY <1>3, <1>15, <2>2, <2>3 DEF ImagesOk, AllRun
<1>19. TypeOK' /\ Sanitized' /\ PayloadOk'
  <2>1. pc \notin Emitting
    BY <1>3 DEF Emitting
  <2> QED
    BY <1>3, <1>10, <1>13, <1>15, <1>16, <1>17, <2>1, StillCollecting
<1> QED
  BY <1>13, <1>14, <1>15, <1>16, <1>18, <1>19 DEF Assembled
LEMMA EndImagesKeeps ==
  ASSUME TypeOK, Assembled, EndImages
  PROVE  TypeOK' /\ Assembled'
<1>1. /\ pc = "images" /\ pc' = "assets" /\ images' = Images
      /\ files' = files /\ links' = links /\ aliases' = aliases /\ traces' = traces /\ offers' = offers
      /\ next' = next /\ held' = held /\ link' = link
  BY DEF EndImages, closure, payload
<1>2. /\ images' \in Seq(Range(Images)) /\ files' \in Seq(File) /\ offers' \in Seq(File)
      /\ links' \in Seq(Link) /\ aliases' \subseteq (Origins \X Names) \X Names /\ traces' \in TracesType
  BY <1>1, ImagesAreListed DEF TypeOK, TracesType
<1>3. TypeOK' /\ Sanitized' /\ PayloadOk'
  <2>1. pc \notin Emitting
    BY <1>1 DEF Emitting
  <2> QED
    BY <1>1, <1>2, <2>1, StillCollecting
<1>4. ImagesOk'
  BY <1>1 DEF ImagesOk
<1> QED
  BY <1>1, <1>3, <1>4 DEF Assembled

LEMMA EnsureAssetsKeeps ==
  ASSUME TypeOK, Assembled, EnsureAssets
  PROVE  TypeOK' /\ Assembled'
<1>1. PICK o : o = Head(images)
  OBVIOUS
<1>2. PICK present \in SUBSET Range(Assets) :
        /\ files' = FirstCome(files, FilesAt(o, Those(Assets, present)))
        /\ offers' = offers \o FilesAt(o, Those(Assets, present))
  BY <1>1 DEF EnsureAssets
<1>3. /\ pc = "assets" /\ pc' = pc /\ images # <<>> /\ images' = Tail(images)
      /\ links' = links /\ aliases' = aliases /\ traces' = traces
      /\ next' = next /\ held' = held /\ link' = link
  BY DEF EnsureAssets, payload
<1>4. images \in Seq(Range(Images)) /\ files \in Seq(File) /\ offers \in Seq(File)
  BY DEF TypeOK
<1>5. 1 \in DOMAIN images /\ o = images[1]
  BY <1>1, <1>3, <1>4
<1>6. o \in Origins
  BY <1>4, <1>5, OriginsAre DEF Roots
<1>7. PICK new : new = FilesAt(o, Those(Assets, present))
  OBVIOUS
<1>8. FilesFor(new, present)
  <2>1. Named(Those(Assets, present), present)
    BY AssetsArePaths, ThoseAreNamed
  <2> QED
    BY <1>6, <1>7, <2>1, FilesAtAre
<1>9. /\ files' \in Seq(File) /\ offers' \in Seq(File) /\ FilesOk(files', offers')
      /\ \A x : Taken(files, x) \/ Taken(new, x) => Taken(files', x)
  <2>1. FilesOk(files, offers)
    BY DEF Assembled
  <2>2. new \in Seq(File) /\ Itself(new) /\ Distinct(new)
    BY <1>8 DEF FilesFor
  <2> QED
    BY <1>2, <1>4, <1>7, <2>1, <2>2, FirstComeKeeps
<1>10. TracesOk(traces') /\ CanonsTaken(traces', files')
  BY <1>3, <1>9 DEF Assembled, CanonsTaken
<1>11. /\ images' \in Seq(Range(Images))
       /\ links' \in Seq(Link) /\ aliases' \subseteq (Origins \X Names) \X Names /\ traces' \in TracesType
  BY <1>3, <1>4 DEF TypeOK, TracesType
<1>12. TypeOK' /\ Sanitized' /\ PayloadOk'
  <2>1. pc \notin Emitting
    BY <1>3 DEF Emitting
  <2> QED
    BY <1>3, <1>9, <1>11, <2>1, StillCollecting
<1>13. ImagesOk'
  BY <1>3 DEF ImagesOk
<1>14. LinksOk(traces', links') /\ AliasesOk(traces', aliases')
  BY <1>3 DEF Assembled
<1> QED
  BY <1>9, <1>10, <1>12, <1>13, <1>14 DEF Assembled

LEMMA EndOfInputKeeps ==
  ASSUME TypeOK, Assembled, EndAssets \/ EndCopies
  PROVE  TypeOK' /\ Assembled'
<1>1. /\ pc \in {"assets", "copy"} /\ pc' \in {"copy", "sanitize"} /\ images' = images
      /\ files' = files /\ links' = links /\ aliases' = aliases /\ traces' = traces /\ offers' = offers
      /\ next' = next /\ held' = held /\ link' = link
  BY DEF EndAssets, EndCopies, closure, payload
<1>2. /\ images' \in Seq(Range(Images)) /\ files' \in Seq(File) /\ offers' \in Seq(File)
      /\ links' \in Seq(Link) /\ aliases' \subseteq (Origins \X Names) \X Names /\ traces' \in TracesType
  BY <1>1 DEF TypeOK, TracesType
<1>3. TypeOK' /\ Sanitized' /\ PayloadOk'
  <2>1. pc \notin Emitting
    BY <1>1 DEF Emitting
  <2> QED
    BY <1>1, <1>2, <2>1, StillCollecting
<1>4. ImagesOk'
  BY <1>1 DEF ImagesOk
<1> QED
  BY <1>1, <1>3, <1>4 DEF Assembled

\* A copied file, or link, or neither.
LEMMA AddCopyKeeps ==
  ASSUME NEW x \in Names, TypeOK, Assembled, AddCopy(x)
  PROVE  /\ files' \in Seq(File) /\ offers' \in Seq(File) /\ FilesOk(files', offers')
         /\ \A y : Taken(files, y) => Taken(files', y)
<1>1. PICK f, new : f = CopiedFile(x) /\ new = <<f>>
  OBVIOUS
<1>2. f \in File /\ f.dest = x /\ f.src[2] = x
  BY <1>1, OriginsAre DEF CopiedFile, File
<1>3. DOMAIN new = {1} /\ new[1] = f /\ new \in Seq(File)
  BY <1>1, <1>2
<1>4. Itself(new) /\ Distinct(new)
  BY <1>2, <1>3 DEF Itself, Distinct
<1>5. files' = FirstCome(files, new) /\ offers' = Append(offers, f)
  BY <1>1 DEF AddCopy
<1>6. files \in Seq(File) /\ offers \in Seq(File) /\ FilesOk(files, offers)
  BY DEF TypeOK, Assembled
<1>7. Append(offers, f) = offers \o new
  BY <1>1, <1>2, <1>6, AppendIsConcat
<1> QED
  BY <1>3, <1>4, <1>5, <1>6, <1>7, FirstComeKeeps

LEMMA CopyKeeps ==
  ASSUME TypeOK, Assembled, NEW r \in Resolution, Copying(r),
         pc' \in {"copy", "refused"},
         files' \in Seq(File) /\ offers' \in Seq(File) /\ FilesOk(files', offers'),
         \A y : Taken(files, y) => Taken(files', y),
         \/ links' = links
         \/ /\ r.orig # r.canon /\ [form |-> "pay", dest |-> r.orig, target |-> r.canon] \notin Range(links)
            /\ links' = Append(links, [form |-> "pay", dest |-> r.orig, target |-> r.canon])
  PROVE  TypeOK' /\ Assembled'
<1>1. /\ pc = "copy" /\ images' = images /\ aliases' = aliases
      /\ next' = next /\ held' = held /\ link' = link
      /\ traces' = [traces EXCEPT ![Copied] = @ \cup {r}]
  BY DEF Copying, payload
<1>2. Entered(traces, r, traces')
  BY <1>1 DEF Entered, TypeOK, TracesType
<1>3. /\ traces' \in TracesType /\ r \in traces'[Copied]
      /\ TracesOk(traces') /\ CanonsTaken(traces', files) /\ AliasesOk(traces', aliases')
      /\ LinksOk(traces', links)
  <2>1. /\ TracesOk(traces) /\ CanonsTaken(traces, files) /\ AliasesOk(traces, aliases)
        /\ LinksOk(traces, links)
    BY DEF Assembled
  <2>2. traces' \in TracesType /\ r \in traces'[Copied] /\ TracesOk(traces')
    BY <1>2, <2>1, EntryKeeps
  <2>3. CanonsTaken(traces', files) /\ AliasesOk(traces', aliases)
    BY <1>2, <2>1, EntryKeeps
  <2>4. LinksOk(traces', links)
    BY <1>2, <2>1, EntryKeeps
  <2> QED
    BY <1>1, <2>2, <2>3, <2>4
<1>4. CanonsTaken(traces', files')
  BY <1>3 DEF CanonsTaken
<1>5. links' \in Seq(Link) /\ LinksOk(traces', links')
  <2>0. links \in Seq(Link)
    BY DEF TypeOK
  <2>1. CASE links' = links
    BY <1>3, <2>0, <2>1
  <2>2. CASE links' # links
    <3>1. PICK l : l = [form |-> "pay", dest |-> r.orig, target |-> r.canon]
      OBVIOUS
    <3>2. l \in Link /\ l.form = "pay" /\ l.dest = r.orig /\ l.target = r.canon
      BY <3>1, ResolutionIs DEF Link
    <3>3. l \notin Range(links) /\ links' = Append(links, l) /\ r.orig # r.canon
      BY <2>2, <3>1
    <3>4. LinkFrom(traces', l)
      BY <1>3, <3>2, <3>3 DEF LinkFrom
    <3> QED
      BY <1>3, <2>0, <3>2, <3>3, <3>4, LinkAppended
  <2> QED
    BY <2>1, <2>2
<1>6. /\ images' \in Seq(Range(Images)) /\ aliases' \subseteq (Origins \X Names) \X Names
  BY <1>1 DEF TypeOK
<1>7. TypeOK' /\ Sanitized' /\ PayloadOk'
  <2>1. pc \notin Emitting
    BY <1>1 DEF Emitting
  <2> QED
    BY <1>1, <1>3, <1>5, <1>6, <2>1, StillCollecting
<1>8. ImagesOk'
  BY DEF ImagesOk
<1> QED
  BY <1>3, <1>4, <1>5, <1>7, <1>8 DEF Assembled

LEMMA CopyFileKeeps ==
  ASSUME TypeOK, Assembled, CopyFile
  PROVE  TypeOK' /\ Assembled'
<1>1. PICK x \in Names :
        /\ Copying([orig |-> x, canon |-> x, link |-> FALSE]) /\ AddCopy(x) /\ pc' = pc
  BY DEF CopyFile
<1>2. PICK r : r = [orig |-> x, canon |-> x, link |-> FALSE]
  OBVIOUS
<1>3. r \in Resolution /\ Copying(r)
  BY <1>1, <1>2 DEF Resolution
<1>4. pc' \in {"copy", "refused"} /\ links' = links
  BY <1>1 DEF Copying, AddCopy
<1> QED
  BY <1>1, <1>3, <1>4, AddCopyKeeps, CopyKeeps

\* A link that is copied as one does not lead to itself.
LEMMA NoSelfLink ==
  ASSUME links \in Seq(Link), NEW x \in Names, NEW target \in Names, ~ClosesCycle(x, target)
  PROVE  x # target
<1>1. PICK to, w : to = FirstTarget(links, "pay") /\ w = Way(to, target)
  OBVIOUS
<1>2. IsWay(to, target, w)
  BY <1>1, TargetsLead, WayIs
<1>3. 0 \in Places0
  BY NamesAreFinite DEF Places0
<1>4. target \in Range(w)
  BY <1>2, <1>3 DEF IsWay, Range
<1> QED
  BY <1>1, <1>4 DEF ClosesCycle

LEMMA CopyLinkKeeps ==
  ASSUME TypeOK, Assembled, CopyLink
  PROVE  TypeOK' /\ Assembled'
<1>1. PICK x, target \in Names :
        /\ Copying([orig |-> x, canon |-> target, link |-> x # target])
        /\ \/ /\ Taken(files, x)
              /\ UNCHANGED <<pc, files, links, offers>>
           \/ /\ ~Taken(files, x) /\ ClosesCycle(x, target)
              /\ \/ AddCopy(x) /\ UNCHANGED pc
                 \/ pc' = "refused" /\ UNCHANGED <<files, links, offers>>
           \/ /\ ~Taken(files, x) /\ ~ClosesCycle(x, target)
              /\ LET l == [form |-> "pay", dest |-> x, target |-> target]
                 IN  links' = IF l \in Range(links) THEN links ELSE Append(links, l)
              /\ UNCHANGED <<pc, files, offers>>
  BY DEF CopyLink
<1>2. PICK r : r = [orig |-> x, canon |-> target, link |-> x # target]
  OBVIOUS
<1>3. r \in Resolution /\ Copying(r) /\ r.orig = x /\ r.canon = target
  BY <1>1, <1>2 DEF Resolution
<1>4. pc = "copy" /\ files \in Seq(File) /\ offers \in Seq(File) /\ FilesOk(files, offers) /\ links \in Seq(Link)
  BY <1>3 DEF Copying, TypeOK, Assembled
<1>5. CASE files' = files /\ offers' = offers /\ links' = links /\ pc' \in {"copy", "refused"}
  BY <1>3, <1>4, <1>5, CopyKeeps
<1>6. CASE AddCopy(x) /\ pc' = pc
  <2>1. pc' \in {"copy", "refused"} /\ links' = links
    BY <1>4, <1>6 DEF AddCopy
  <2> QED
    BY <1>3, <1>6, <2>1, AddCopyKeeps, CopyKeeps
<1>7. CASE /\ ~ClosesCycle(x, target) /\ UNCHANGED <<pc, files, offers>>
           /\ links' = IF [form |-> "pay", dest |-> x, target |-> target] \in Range(links) THEN links
                       ELSE Append(links, [form |-> "pay", dest |-> x, target |-> target])
  <2>1. x # target
    BY <1>4, <1>7, NoSelfLink
  <2>2. pc' \in {"copy", "refused"} /\ files' = files /\ offers' = offers
    BY <1>4, <1>7
  <2>3. CASE links' = links
    BY <1>3, <1>4, <2>2, <2>3, CopyKeeps
  <2>4. CASE links' # links
    <3>1. PICK l : l = [form |-> "pay", dest |-> r.orig, target |-> r.canon]
      OBVIOUS
    <3>2. l \notin Range(links) /\ links' = Append(links, l) /\ r.orig # r.canon
      BY <1>3, <1>7, <2>1, <2>4, <3>1
    <3> QED
      BY <1>3, <1>4, <2>2, <3>1, <3>2, CopyKeeps
  <2> QED
    BY <2>3, <2>4
<1> QED
  BY <1>1, <1>4, <1>5, <1>6, <1>7

\* Clean-up.
StillThere(t, ls, I) ==
    \A o \in Roots : \A r \in t[o] :
        r.link /\ Solo(t, o, r) => \E i \in I : ls[i] = RunLink(r)
LEMMA FreeKeeps ==
  ASSUME NEW t, TracesOk(t), NEW ls \in Seq(Link), LinksOk(t, ls),
         NEW I \in SUBSET DOMAIN ls, NEW A, Picked(ls, I, A), A \in Seq(Link), StillThere(t, ls, I)
  PROVE  LinksOk(t, A)
<1>1. PICK at \in [DOMAIN A -> I] :
        /\ \A k \in DOMAIN A : A[k] = ls[at[k]]
        /\ \A i \in I : \E k \in DOMAIN A : at[k] = i
        /\ \A k, m \in DOMAIN A : k < m => at[k] < at[m]
  BY DEF Picked
<1>2. \A k \in DOMAIN A : at[k] \in DOMAIN ls /\ at[k] \in Nat /\ k \in Nat
  BY <1>1
<1>3. ASSUME NEW k \in DOMAIN A, NEW m \in DOMAIN A, at[k] = at[m] PROVE k = m
  <2>1. ~(k < m) /\ ~(m < k)
    BY <1>1, <1>2, <1>3
  <2> QED
    BY <1>2, <2>1
<1>4. \A i \in DOMAIN A : LinkFrom(t, A[i])
  BY <1>1, <1>2 DEF LinksOk
<1>5. RunsFirst(A)
  BY <1>1, <1>2 DEF LinksOk, RunsFirst
<1>6. RunsApart(A)
  BY <1>1, <1>2, <1>3 DEF LinksOk, RunsApart
<1>7. AllApart(A)
  BY <1>1, <1>2, <1>3 DEF LinksOk, AllApart
<1>8. LinksKept(t, A)
  BY <1>1 DEF LinksKept, StillThere
<1> QED
  BY <1>4, <1>5, <1>6, <1>7, <1>8 DEF LinksOk

\* Nothing leads on from a file, of links that are traced.
LEMMA CanonNotLinked ==
  ASSUME NEW t, TracesOk(t), NEW ls, LinksOk(t, ls), NEW o \in Roots, NEW r \in t[o], Solo(t, o, r),
         t \in TracesType, NEW i \in DOMAIN ls, ls[i].form = "run"
  PROVE  ls[i].dest # r.canon
<1> SUFFICES ASSUME ls[i].dest = r.canon PROVE FALSE
  OBVIOUS
<1>1. PICK p \in Roots : \E q \in t[p] : q.link /\ q.orig = r.canon
  BY DEF LinksOk, LinkFrom
<1>2. PICK q \in t[p] : q.link /\ q.orig = r.canon
  BY <1>1
<1>3. p = o
  BY <1>2 DEF Solo, Roots
<1>4. q.orig = q.canon
  BY <1>2, <1>3 DEF TracesOk, OneRoot
<1>5. q \in Resolution
  BY <1>2 DEF TracesType, Roots
<1> QED
  BY <1>2, <1>4, <1>5, ResolutionIs

LEMMA SanitizeKeeps ==
  ASSUME TypeOK, Assembled, Sanitize
  PROVE  TypeOK' /\ (pc' # "refused" => Assembled')
<1>1. /\ pc = "sanitize" /\ pc' \in {"files", "refused"} /\ images' = images
      /\ files' = files /\ aliases' = aliases /\ traces' = traces /\ offers' = offers
      /\ next' = next /\ held' = held /\ link' = link
  BY DEF Sanitize, payload
<1>2. /\ links \in Seq(Link) /\ traces \in TracesType /\ TracesOk(traces) /\ LinksOk(traces, links)
  BY DEF TypeOK, TracesType, Assembled
<1>3. PICK I, F : I = {i \in DOMAIN links : ~(links[i].form = "pay" /\ Taken(files, links[i].dest))} /\ F = Pick(links, I)
  OBVIOUS
<1>4. F = Free
  BY <1>3 DEF Free
<1>5. F \in Seq(Link) /\ Picked(links, I, F) /\ I \in SUBSET DOMAIN links
  BY <1>2, <1>3, PickIs
<1>6. LinksOk(traces, F)
  <2>1. ASSUME NEW o \in Roots, NEW r \in traces[o], r.link, Solo(traces, o, r)
        PROVE  \E i \in I : links[i] = RunLink(r)
    <3>1. PICK i \in DOMAIN links : links[i] = RunLink(r)
      BY <1>2, <2>1 DEF LinksOk, LinksKept
    <3>2. i \in I
      BY <1>3, <3>1 DEF RunLink
    <3> QED
      BY <3>1, <3>2
  <2>2. StillThere(traces, links, I)
    BY <2>1 DEF StillThere
  <2> QED
    BY <1>2, <1>5, <2>2, FreeKeeps
<1>7. PICK J : J = {i \in DOMAIN F : ~InCycle(F, F[i])}
  OBVIOUS
<1>8. links' = Pick(F, J)
  BY <1>4, <1>7 DEF Sanitize
<1>9. /\ links' \in Seq(Link) /\ Picked(F, J, links') /\ J \in SUBSET DOMAIN F
      /\ \A i \in DOMAIN links' : ~Cyclic(LastTarget(links', links'[i].form), links'[i].dest)
  BY <1>5, <1>7, <1>8, CyclesGone
<1>10. LinksOk(traces, links')
  <2>1. ASSUME NEW o \in Roots, NEW r \in traces[o], r.link, Solo(traces, o, r)
        PROVE  \E i \in J : F[i] = RunLink(r)
    <3>1. PICK i \in DOMAIN F : F[i] = RunLink(r)
      BY <1>6, <2>1 DEF LinksOk, LinksKept
    <3>2. F[i].form = "run" /\ F[i].dest = r.orig /\ F[i].target = r.canon
      BY <3>1 DEF RunLink
    <3>3. PICK L : L = LastTarget(F, "run")
      OBVIOUS
    <3>4. L \in Leads
      BY <1>5, <3>3, TargetsLead
    <3>5. L[r.orig] = r.canon
      <4>1. LastOf(F, i)
        <5> SUFFICES ASSUME NEW j \in DOMAIN F, i < j, F[j].form = "run", F[j].dest = r.orig PROVE FALSE
          BY <3>2 DEF LastOf
        <5>1. i = j
          BY <1>6, <3>2 DEF LinksOk, RunsApart
        <5>2. i \in Nat /\ j \in Nat
          BY <1>5
        <5> QED
          BY <5>1, <5>2
      <4> QED
        BY <1>5, <3>2, <3>3, <4>1, TargetsLead
    <3>6. r \in Resolution /\ r.orig \in Names /\ r.canon \in Names
      BY <1>2, ResolutionIs DEF TracesType, Roots
    <3>7. L[r.canon] = NoName
      <4>1. LinksOf(F, "run", r.canon) = {}
        BY <1>2, <1>6, <2>1, CanonNotLinked DEF LinksOf
      <4> QED
        BY <1>5, <3>3, <3>6, <4>1, TargetsLead
    <3>8. ~Cyclic(L, r.orig)
      BY <3>4, <3>5, <3>6, <3>7, ShortWays
    <3>9. i \in J
      BY <1>7, <3>2, <3>3, <3>8 DEF InCycle
    <3> QED
      BY <3>1, <3>9
  <2>2. StillThere(traces, F, J)
    BY <2>1 DEF StillThere
  <2> QED
    BY <1>2, <1>5, <1>6, <1>9, <2>2, FreeKeeps
<1>11. \A i \in DOMAIN links' : links'[i].form = "pay" => ~Taken(files, links'[i].dest)
  <2> TAKE i \in DOMAIN links'
  <2>1. PICK j \in DOMAIN F : links'[i] = F[j]
    BY <1>9 DEF Picked
  <2>2. PICK k \in I : F[j] = links[k]
    BY <1>5 DEF Picked
  <2> QED
    BY <1>3, <2>1, <2>2
<1>12. next = 1 /\ \A x \in Names : link[x] = NoName
  BY <1>1 DEF Assembled, PayloadOk, Emitting, Linking
<1>13. TypeOK'
  <2>1. next' \in 1..(Len(files') + Len(links') + 1)
    <3>1. PICK m, n : m = Len(files') /\ n = Len(links')
      OBVIOUS
    <3>2. m \in Nat /\ n \in Nat
      BY <1>1, <1>9, <3>1 DEF TypeOK
    <3> QED
      BY <1>1, <1>12, <3>1, <3>2
  <2> QED
    BY <1>1, <1>9, <2>1 DEF TypeOK
<1>14. Sanitized'
  BY <1>1, <1>9, <1>11 DEF Sanitized, Taken
<1>15. pc' = "files" => PayloadOk'
  <2> SUFFICES ASSUME pc' = "files" PROVE PayloadOk'
    OBVIOUS
  <2>1. next' = 1 /\ next' <= Len(files') + 1
    <3>1. Len(files') \in Nat
      BY <1>1 DEF TypeOK
    <3> QED
      BY <1>1, <1>12, <3>1
  <2>2. HeldFrom(next)'
    <3>1. 1..(next' - 1) = {}
      BY <2>1
    <3> QED
      BY <3>1 DEF HeldFrom
  <2>3. \A x \in Names : link'[x] = NoName
    BY <1>1, <1>12
  <2> QED
    BY <2>1, <2>2, <2>3 DEF PayloadOk, Emitting, Linking
<1>16. ImagesOk'
  BY <1>1 DEF ImagesOk
<1>17. FilesOk(files', offers') /\ CanonsTaken(traces', files') /\ AliasesOk(traces', aliases')
  BY <1>1 DEF Assembled
<1> QED
  BY <1>1, <1>2, <1>10, <1>13, <1>14, <1>15, <1>16, <1>17 DEF Assembled
-----------------------------------------------------------------------------
(* emit.                                                                   *)

LEMMA StagedIsContents ==
  ASSUME TypeOK, NEW f \in File
  PROVE  Staged(f) \in Digests
<1>1. PICK o, x : o \in Origins /\ x \in Names /\ f.src = <<o, x>>
  BY DEF File
<1>2. PICK via : via = {r \in traces[o] : r.orig = x /\ o # Copied}
  OBVIOUS
<1>3. via # {} => (CHOOSE r \in via : TRUE).canon \in Names
  <2>1. via \subseteq Resolution
    BY <1>1, <1>2 DEF TypeOK
  <2> QED
    BY <2>1, ResolutionIs
<1>4. \A p \in Origins : \A y \in Names : DigestOf[p][y] \in Digests
  BY ContentsKnown
<1>5. Contents(f.src) = DigestOf[o][IF via = {} THEN x ELSE (CHOOSE r \in via : TRUE).canon]
  BY <1>1, <1>2 DEF Contents
<1>6. Contents(f.src) \in Digests
  BY <1>1, <1>3, <1>4, <1>5
<1>7. DigestOf[Host][ResolvConf] \in Digests
  BY <1>4, AssetsArePaths, OriginsAre DEF Roots
<1> QED
  BY <1>6, <1>7 DEF Staged

\* What emit does not change.
Inputs == <<images, files, links, aliases, traces, offers>>
LEMMA SamePlaces ==
  ASSUME UNCHANGED Inputs
  PROVE  /\ \A i \in DOMAIN files : PlacedBy(files[i])' = PlacedBy(files[i])
         /\ \A i \in DOMAIN files : Staged(files[i])' = Staged(files[i])
BY DEF Inputs, PlacedBy, AliasPaths, Staged, Contents

LEMMA InputsKept ==
  ASSUME TypeOK, Assembled, UNCHANGED Inputs, pc \in Emitting, pc' \in Emitting
  PROVE  /\ TracesOk(traces') /\ FilesOk(files', offers') /\ CanonsTaken(traces', files')
         /\ LinksOk(traces', links') /\ AliasesOk(traces', aliases')
         /\ ImagesOk' /\ Sanitized'
<1>1. ImagesOk'
  BY DEF ImagesOk, Emitting
<1>2. Sanitized'
  <2>1. /\ \A i \in DOMAIN links : links[i].form = "pay" => ~Taken(files, links[i].dest)
        /\ \A i \in DOMAIN links : ~Cyclic(LastTarget(links, links[i].form), links[i].dest)
    BY DEF Assembled, Sanitized
  <2>2. links' = links /\ files' = files
    BY DEF Inputs
  <2> QED
    BY <2>1, <2>2 DEF Sanitized, Taken
<1> QED
  BY <1>1, <1>2 DEF Assembled, Inputs

LEMMA StageFileKeeps ==
  ASSUME TypeOK, Assembled, StageFile
  PROVE  TypeOK' /\ Assembled'
<1>1. /\ pc = "files" /\ pc' = pc /\ UNCHANGED Inputs /\ link' = link
      /\ next <= Len(files) /\ next' = next + 1
  BY DEF StageFile, closure, Inputs
<1>2. PICK m, n : m = Len(files) /\ n = next
  OBVIOUS
<1>3. m \in Nat /\ n \in Nat \ {0} /\ n <= m /\ n \in DOMAIN files /\ DOMAIN files = 1..m
  BY <1>1, <1>2 DEF TypeOK
<1>4. PICK f : f = files[n]
  OBVIOUS
<1>5. held' = [x \in Names |-> IF x \in PlacedBy(f) THEN Staged(f) ELSE held[x]]
  BY <1>2, <1>4 DEF StageFile, PlacedBy
<1>6. f \in File /\ Staged(f) \in Digests
  BY <1>3, <1>4, StagedIsContents, FilesIn DEF TypeOK
<1>7. next' = n + 1 /\ 1..(next' - 1) = 1..n /\ 1..n = (1..(n - 1)) \cup {n} /\ next' <= m + 1
  BY <1>1, <1>2, <1>3
<1>8. TypeOK'
  <2>1. held' \in [Names -> Digests \cup {Nothing}]
    BY <1>5, <1>6 DEF TypeOK
  <2>2. next' \in 1..(m + Len(links) + 1)
    <3>1. PICK k : k = Len(links)
      OBVIOUS
    <3>2. k \in Nat
      BY <3>1 DEF TypeOK
    <3> QED
      BY <1>3, <1>7, <3>1, <3>2
  <2> QED
    BY <1>1, <1>2, <2>1, <2>2 DEF TypeOK, Inputs
<1>9. \A x \in Names : link[x] = NoName
  BY <1>1 DEF Assembled, PayloadOk, Linking
<1>10. ASSUME NEW x \in Names, NEW i \in 1..n, x \in PlacedBy(files[i])
       PROVE  \E j \in 1..n : x \in PlacedBy(files[j]) /\ held'[x] = Staged(files[j])
  <2>1. CASE x \in PlacedBy(f)
    BY <1>3, <1>4, <1>5, <2>1
  <2>2. CASE x \notin PlacedBy(f)
    <3>1. i \in 1..(n - 1)
      BY <1>3, <1>4, <1>10, <2>2
    <3>2. HeldFrom(n)
      BY <1>1, <1>2 DEF Assembled, PayloadOk
    <3>3. \E j \in 1..(n - 1) : x \in PlacedBy(files[j]) /\ held[x] = Staged(files[j])
      BY <1>9, <1>10, <3>1, <3>2 DEF HeldFrom
    <3>4. held'[x] = held[x]
      BY <1>5, <2>2
    <3> QED
      BY <1>7, <3>3, <3>4
  <2> QED
    BY <2>1, <2>2
<1>11. HeldFrom(next)'
  <2>1. \A i \in 1..n : i \in DOMAIN files /\ PlacedBy(files[i])' = PlacedBy(files[i]) /\ Staged(files[i])' = Staged(files[i])
    BY <1>1, <1>3, SamePlaces
  <2> QED
    BY <1>7, <1>10, <2>1 DEF HeldFrom
<1>12. PayloadOk'
  <2>1. next' <= Len(files') + 1
    BY <1>1, <1>2, <1>7 DEF Inputs
  <2> QED
    BY <1>1, <1>9, <1>11, <2>1 DEF PayloadOk, Emitting, Linking
<1> QED
  BY <1>1, <1>8, <1>12, InputsKept DEF Assembled, Emitting

LEMMA EndFilesKeeps ==
  ASSUME TypeOK, Assembled, EndFiles
  PROVE  TypeOK' /\ Assembled'
<1>1. /\ pc = "files" /\ pc' = "links" /\ UNCHANGED Inputs /\ held' = held /\ link' = link
      /\ next > Len(files) /\ next' = 1
  BY DEF EndFiles, closure, payload, Inputs
<1>2. PICK m, k : m = Len(files) /\ k = Len(links)
  OBVIOUS
<1>3. m \in Nat /\ k \in Nat /\ DOMAIN files = 1..m /\ next \in Nat
  BY <1>2 DEF TypeOK
<1>4. next = m + 1 /\ HeldFrom(next) /\ \A x \in Names : link[x] = NoName
  BY <1>1, <1>2, <1>3 DEF Assembled, PayloadOk, Linking
<1>5. TypeOK'
  <2>1. next' \in 1..(m + k + 1)
    BY <1>1, <1>3
  <2> QED
    BY <1>1, <1>2, <2>1 DEF TypeOK, Inputs
<1>6. HeldFrom(Len(files) + 1)'
  <2>1. \A i \in 1..((m + 1) - 1) : i \in DOMAIN files /\ PlacedBy(files[i])' = PlacedBy(files[i]) /\ Staged(files[i])' = Staged(files[i])
    BY <1>1, <1>3, SamePlaces
  <2>2. Len(files') = m
    BY <1>1, <1>2 DEF Inputs
  <2>3. HeldFrom(m + 1)
    BY <1>4
  <2> QED
    BY <1>1, <2>1, <2>2, <2>3 DEF HeldFrom
<1>7. \A x \in Names : PlacedAt(next, x)'
  <2>1. 1..(next' - 1) = {}
    BY <1>1
  <2> QED
    BY <1>1, <1>4, <2>1 DEF PlacedAt
<1>8. next' <= Len(links') + 1
  BY <1>1, <1>2, <1>3 DEF Inputs
<1>9. PayloadOk'
  BY <1>1, <1>6, <1>7, <1>8 DEF PayloadOk, Emitting, Linking
<1> QED
  BY <1>1, <1>5, <1>9, InputsKept DEF Assembled, Emitting

LEMMA NoLinkToItself ==
  ASSUME TypeOK, Assembled, NEW i \in DOMAIN links
  PROVE  /\ links[i].dest # links[i].target /\ links[i].dest \in Names /\ links[i].target \in Names
         /\ links[i].form = "run" => Taken(files, links[i].target)
<1>1. LinkFrom(traces, links[i]) /\ CanonsTaken(traces, files)
  BY DEF Assembled, LinksOk
<1>2. \A o \in Roots : \A r \in traces[o] : r \in Resolution
  BY DEF TypeOK, Roots
<1>3. links[i].dest # links[i].target
  BY <1>1, <1>2, ResolutionIs DEF LinkFrom
<1>4. links[i].form = "run" => Taken(files, links[i].target)
  BY <1>1 DEF LinkFrom, CanonsTaken
<1> QED
  BY <1>3, <1>4, LinksIn DEF TypeOK

LEMMA PlaceLinkKeeps ==
  ASSUME TypeOK, Assembled, PlaceLink
  PROVE  TypeOK' /\ Assembled'
<1>1. pc = "links" /\ UNCHANGED Inputs /\ next <= Len(links)
  BY DEF PlaceLink, closure, Inputs
<1>2. PICK m, k, n : m = Len(files) /\ k = Len(links) /\ n = next
  OBVIOUS
<1>3. /\ m \in Nat /\ k \in Nat /\ n \in Nat \ {0} /\ n <= k /\ n \in DOMAIN links
      /\ DOMAIN links = 1..k /\ DOMAIN files = 1..m
  BY <1>1, <1>2 DEF TypeOK
<1>4. PICK l : l = links[n]
  OBVIOUS
<1>5. l.dest # l.target /\ l.dest \in Names /\ l.target \in Names /\ l.target # NoName
  BY <1>3, <1>4, NoLinkToItself, PathsAreOrdered
<1>6. HeldFrom(m + 1) /\ \A x \in Names : PlacedAt(n, x)
  BY <1>1, <1>2 DEF Assembled, PayloadOk, Linking
<1>7. \A i \in 1..((m + 1) - 1) : i \in DOMAIN files /\ PlacedBy(files[i])' = PlacedBy(files[i]) /\ Staged(files[i])' = Staged(files[i])
  BY <1>1, <1>3, SamePlaces
<1>8. Len(files') = m /\ Len(links') = k /\ links' = links
  BY <1>1, <1>2 DEF Inputs
<1>9. CASE InTheWay(l.dest)
  <2>1. pc' = "failed" /\ next' = next /\ held' = held /\ link' = link
    BY <1>2, <1>4, <1>5, <1>9 DEF PlaceLink, payload
  <2>2. TypeOK'
    BY <1>1, <2>1 DEF TypeOK, Inputs
  <2>3. HeldFrom(Len(files) + 1)'
    BY <1>6, <1>7, <1>8, <2>1 DEF HeldFrom
  <2>4. \A x \in Names : PlacedAt(next, x)'
    BY <1>2, <1>6, <1>8, <2>1 DEF PlacedAt
  <2>5. InTheWay(links[next].dest)'
    BY <1>2, <1>4, <1>8, <1>9, <2>1 DEF InTheWay, Found, Loops, End
  <2>6. next' \in DOMAIN links'
    BY <1>2, <1>3, <1>8, <2>1
  <2>7. PayloadOk'
    BY <2>1, <2>3, <2>4, <2>5, <2>6 DEF PayloadOk, Emitting, Linking
  <2> QED
    BY <1>1, <2>1, <2>2, <2>7, InputsKept DEF Assembled, Emitting
<1>10. CASE ~InTheWay(l.dest)
  <2>1. /\ pc' = "links" /\ next' = n + 1
        /\ held' = [held EXCEPT ![l.dest] = Nothing]
        /\ link' = [link EXCEPT ![l.dest] = l.target]
    BY <1>1, <1>2, <1>4, <1>5, <1>10 DEF PlaceLink
  <2>2. \A x \in Names : /\ x # l.dest => held'[x] = held[x] /\ link'[x] = link[x]
                         /\ x = l.dest => link'[x] = l.target
    BY <1>5, <2>1 DEF TypeOK
  <2>3. TypeOK'
    <3>1. next' \in 1..(m + k + 1)
      BY <1>3, <2>1
    <3>2. held' \in [Names -> Digests \cup {Nothing}] /\ link' \in [Names -> Names \cup {NoName}]
      BY <1>5, <2>1 DEF TypeOK
    <3> QED
      BY <1>1, <1>8, <2>1, <3>1, <3>2 DEF TypeOK, Inputs
  <2>4. HeldFrom(Len(files) + 1)'
    <3>1. ASSUME NEW x \in Names, link'[x] = NoName, NEW i \in 1..((m + 1) - 1), x \in PlacedBy(files[i])
          PROVE  \E j \in 1..((m + 1) - 1) : x \in PlacedBy(files[j]) /\ held'[x] = Staged(files[j])
      <4>1. x # l.dest
        BY <1>5, <2>2, <3>1
      <4>2. link[x] = NoName /\ held'[x] = held[x]
        BY <2>2, <3>1, <4>1
      <4> QED
        BY <1>6, <3>1, <4>2 DEF HeldFrom
    <3> QED
      BY <1>7, <1>8, <3>1 DEF HeldFrom
  <2>5. \A x \in Names : PlacedAt(next, x)'
    <3> TAKE x \in Names
    <3>1. next' - 1 = n /\ 1..n = (1..(n - 1)) \cup {n} /\ n \in 1..n
      BY <1>3, <2>1
    <3>2. CASE x = l.dest
      <4>1. \A j \in (n + 1)..n : FALSE
        BY <1>3
      <4> QED
        BY <1>4, <1>8, <2>2, <3>1, <3>2, <4>1 DEF PlacedAt
    <3>3. CASE x # l.dest
      <4>1. PlacedAt(n, x) /\ link'[x] = link[x] /\ links[n].dest # x
        BY <1>4, <1>6, <2>2, <3>3
      <4>2. CASE link[x] = NoName /\ \A i \in 1..(n - 1) : links[i].dest # x
        <5>1. \A i \in 1..n : links[i].dest # x
          BY <3>1, <4>1, <4>2
        <5> QED
          BY <1>8, <3>1, <4>1, <4>2, <5>1 DEF PlacedAt
      <4>3. CASE \E i \in 1..(n - 1) :
                   /\ links[i].dest = x /\ link[x] = links[i].target
                   /\ \A j \in (i + 1)..(n - 1) : links[j].dest # x
        <5>1. PICK i \in 1..(n - 1) :
                   /\ links[i].dest = x /\ link[x] = links[i].target
                   /\ \A j \in (i + 1)..(n - 1) : links[j].dest # x
          BY <4>3
        <5>2. \A j \in (i + 1)..n : j \in (i + 1)..(n - 1) \/ j = n
          BY <1>3
        <5>3. \A j \in (i + 1)..n : links[j].dest # x
          BY <4>1, <5>1, <5>2
        <5> QED
          BY <1>8, <3>1, <4>1, <5>1, <5>3 DEF PlacedAt
      <4> QED
        BY <4>1, <4>2, <4>3 DEF PlacedAt
    <3> QED
      BY <3>2, <3>3
  <2>6. next' <= Len(links') + 1
    BY <1>3, <1>8, <2>1
  <2>7. PayloadOk'
    BY <2>1, <2>4, <2>5, <2>6 DEF PayloadOk, Emitting, Linking
  <2> QED
    BY <1>1, <2>1, <2>3, <2>7, InputsKept DEF Assembled, Emitting
<1> QED
  BY <1>9, <1>10

LEMMA EndLinksKeeps ==
  ASSUME TypeOK, Assembled, EndLinks
  PROVE  TypeOK' /\ Assembled'
<1>1. /\ pc = "links" /\ pc' = "done" /\ UNCHANGED Inputs /\ held' = held /\ link' = link
      /\ next > Len(links) /\ next' = next
  BY DEF EndLinks, closure, payload, Inputs
<1>2. PICK m, k : m = Len(files) /\ k = Len(links)
  OBVIOUS
<1>3. m \in Nat /\ k \in Nat /\ DOMAIN files = 1..m /\ next \in Nat
  BY <1>2 DEF TypeOK
<1>4. next = k + 1 /\ HeldFrom(m + 1) /\ \A x \in Names : PlacedAt(next, x)
  BY <1>1, <1>2, <1>3 DEF Assembled, PayloadOk, Linking
<1>5. TypeOK'
  BY <1>1 DEF TypeOK, Inputs
<1>6. HeldFrom(Len(files) + 1)'
  <2>1. \A i \in 1..((m + 1) - 1) : i \in DOMAIN files /\ PlacedBy(files[i])' = PlacedBy(files[i]) /\ Staged(files[i])' = Staged(files[i])
    BY <1>1, <1>3, SamePlaces
  <2>2. Len(files') = m
    BY <1>1, <1>2 DEF Inputs
  <2> QED
    BY <1>1, <1>4, <2>1, <2>2 DEF HeldFrom
<1>7. \A x \in Names : PlacedAt(next, x)'
  BY <1>1, <1>4 DEF PlacedAt, Inputs
<1>8. next' = Len(links') + 1
  BY <1>1, <1>2, <1>4 DEF Inputs
<1>9. PayloadOk'
  BY <1>1, <1>6, <1>7, <1>8 DEF PayloadOk, Emitting, Linking
<1> QED
  BY <1>1, <1>5, <1>9, InputsKept DEF Assembled, Emitting

LEMMA StutterKeeps ==
  ASSUME BundleInv, UNCHANGED vars
  PROVE  BundleInv'
<1>1. /\ pc' = pc /\ images' = images /\ files' = files /\ links' = links /\ aliases' = aliases
      /\ next' = next /\ held' = held /\ link' = link /\ traces' = traces /\ offers' = offers
  BY DEF vars
<1>2. TypeOK'
  BY <1>1 DEF BundleInv, TypeOK
<1>3. ASSUME pc # "refused" PROVE Assembled'
  <2>1. Assembled /\ TypeOK
    BY <1>3 DEF BundleInv
  <2>2. ImagesOk' /\ Sanitized'
    BY <1>1, <2>1 DEF Assembled, ImagesOk, Sanitized, Taken
  <2>3. HeldFrom(next)' = HeldFrom(next) /\ HeldFrom(Len(files) + 1)' = HeldFrom(Len(files) + 1)
    BY <1>1 DEF HeldFrom, PlacedBy, AliasPaths, Staged, Contents
  <2>4. \A x \in Names : PlacedAt(next, x)' = PlacedAt(next, x)
    BY <1>1 DEF PlacedAt
  <2>5. InTheWay(links[next].dest)' = InTheWay(links[next].dest)
    BY <1>1 DEF InTheWay, Found, Loops, End
  <2>6. PayloadOk'
    BY <1>1, <2>1, <2>3, <2>4, <2>5 DEF Assembled, PayloadOk
  <2> QED
    BY <1>1, <2>1, <2>2, <2>6 DEF Assembled
<1> QED
  BY <1>1, <1>2, <1>3 DEF BundleInv
-----------------------------------------------------------------------------
(* The inductive invariant, and what follows from it.                      *)

LEMMA BundleInvInit == Init => BundleInv
<1> SUFFICES ASSUME Init PROVE TypeOK /\ Assembled
  BY DEF BundleInv
<1>1. /\ pc = "host" /\ images = Images /\ files = <<>> /\ links = <<>> /\ aliases = {} /\ next = 1
      /\ held = [x \in Names |-> Nothing] /\ link = [x \in Names |-> NoName]
      /\ traces = [o \in Origins |-> {}] /\ offers = <<>>
  BY DEF Init
<1>2. TypeOK
  <2>1. Len(files) = 0 /\ Len(links) = 0
    BY <1>1
  <2>2. next \in 1..(Len(files) + Len(links) + 1)
    BY <1>1, <2>1
  <2> QED
    BY <1>1, <2>2, ImagesAreListed DEF TypeOK
<1>3. TracesOk(traces) /\ CanonsTaken(traces, files) /\ AliasesOk(traces, aliases)
  BY <1>1 DEF TracesOk, OneRoot, CanonsTaken, AliasesOk, Roots
<1>4. FilesOk(files, offers)
  BY <1>1 DEF FilesOk, Itself, Distinct
<1>5. LinksOk(traces, links)
  BY <1>1 DEF LinksOk, RunsFirst, RunsApart, AllApart, LinksKept, Roots
<1>6. ImagesOk /\ Sanitized /\ PayloadOk
  BY <1>1 DEF ImagesOk, Sanitized, PayloadOk, Emitting, Linking
<1> QED
  BY <1>2, <1>3, <1>4, <1>5, <1>6 DEF Assembled

LEMMA BundleInvNext == BundleInv /\ [Next]_vars => BundleInv'
<1> SUFFICES ASSUME BundleInv, [Next]_vars PROVE BundleInv'
  OBVIOUS
<1>1. CASE UNCHANGED vars
  BY <1>1, StutterKeeps
<1>2. CASE Next
  <2>1. pc # "refused"
    BY <1>2 DEF Next, CollectHost, MergeImage, EndImages, EnsureAssets, EndAssets, CopyFile, CopyLink,
                Copying, EndCopies, Sanitize, StageFile, EndFiles, PlaceLink, EndLinks
  <2>2. TypeOK /\ Assembled
    BY <2>1 DEF BundleInv
  <2>3. CASE CollectHost
    BY <2>2, <2>3, CollectHostKeeps DEF BundleInv
  <2>4. CASE MergeImage
    BY <2>2, <2>4, MergeImageKeeps DEF BundleInv
  <2>5. CASE EndImages
    BY <2>2, <2>5, EndImagesKeeps DEF BundleInv
  <2>6. CASE EnsureAssets
    BY <2>2, <2>6, EnsureAssetsKeeps DEF BundleInv
  <2>7. CASE EndAssets \/ EndCopies
    BY <2>2, <2>7, EndOfInputKeeps DEF BundleInv
  <2>8. CASE CopyFile
    BY <2>2, <2>8, CopyFileKeeps DEF BundleInv
  <2>9. CASE CopyLink
    BY <2>2, <2>9, CopyLinkKeeps DEF BundleInv
  <2>10. CASE Sanitize
    BY <2>2, <2>10, SanitizeKeeps DEF BundleInv
  <2>11. CASE StageFile
    BY <2>2, <2>11, StageFileKeeps DEF BundleInv
  <2>12. CASE EndFiles
    BY <2>2, <2>12, EndFilesKeeps DEF BundleInv
  <2>13. CASE PlaceLink
    BY <2>2, <2>13, PlaceLinkKeeps DEF BundleInv
  <2>14. CASE EndLinks
    BY <2>2, <2>14, EndLinksKeeps DEF BundleInv
  <2> QED
    BY <1>2, <2>3, <2>4, <2>5, <2>6, <2>7, <2>8, <2>9, <2>10, <2>11, <2>12, <2>13, <2>14 DEF Next
<1> QED
  BY <1>1, <1>2

LEMMA BundleInvHolds == Spec => []BundleInv
<1>1. Init => BundleInv
  BY BundleInvInit
<1>2. BundleInv /\ [Next]_vars => BundleInv'
  BY BundleInvNext
<1> QED
  BY <1>1, <1>2, PTL DEF Spec

\* What a path without links, and with one, has.
LEMMA FoundIs ==
  ASSUME link \in Leads, NEW x \in Names
  PROVE  /\ link[x] = NoName => Found(x) = held[x]
         /\ link[x] # NoName /\ link[link[x]] = NoName => Found(x) = held[link[x]]
<1>1. ASSUME NEW y, IsEnd(link, x, y), ~Cyclic(link, x) PROVE Found(x) = held[y]
  <2>1. End(x) = y
    <3>1. \A z : z \in Range(Way(link, x)) \ {NoName} /\ link[z] = NoName => z = y
      BY <1>1, OneEnd DEF IsEnd
    <3>2. y \in Range(Way(link, x)) \ {NoName} /\ link[y] = NoName
      BY <1>1 DEF IsEnd
    <3> QED
      BY <3>1, <3>2 DEF End
  <2> QED
    BY <1>1, <2>1 DEF Found, Loops
<1>2. /\ link[x] = NoName => ~Cyclic(link, x) /\ IsEnd(link, x, x)
      /\ link[x] # NoName /\ link[link[x]] = NoName => ~Cyclic(link, x) /\ IsEnd(link, x, link[x])
  BY ShortWays
<1> QED
  BY <1>1, <1>2

\* At a path where no link is wanted there is none, and the file that is
\* there is one of those that were to be.
LEMMA Unlinked ==
  ASSUME TypeOK, Assembled, pc = "done", NEW x \in Names, \A i \in DOMAIN links : links[i].dest # x
  PROVE  link[x] = NoName
<1>1. PlacedAt(next, x) /\ next = Len(links) + 1
  BY DEF Assembled, PayloadOk, Linking
<1>2. \A i \in 1..(next - 1) : i \in DOMAIN links
  BY <1>1 DEF TypeOK
<1> QED
  BY <1>1, <1>2 DEF PlacedAt

LEMMA HasFile ==
  ASSUME TypeOK, Assembled, pc \in Linking, NEW x \in Names, link[x] = NoName,
         NEW k \in DOMAIN files, x \in PlacedBy(files[k])
  PROVE  \E i \in DOMAIN files : x \in PlacedBy(files[i]) /\ held[x] = Staged(files[i])
<1>1. PICK m : m = Len(files)
  OBVIOUS
<1>2. m \in Nat /\ DOMAIN files = 1..m /\ 1..((m + 1) - 1) = 1..m
  BY <1>1 DEF TypeOK
<1>3. HeldFrom(m + 1)
  BY <1>1 DEF Assembled, PayloadOk
<1> QED
  BY <1>2, <1>3 DEF HeldFrom

LEMMA AliasAt ==
  ASSUME Assembled, NEW k \in DOMAIN files, NEW x, x \in PlacedBy(files[k]), x # files[k].dest
  PROVE  \E o \in Roots : \E r \in traces[o] :
            r.orig = x /\ r.orig # r.canon /\ files[k].src = <<o, r.canon>>
<1>1. PICK a \in aliases : a[1] = files[k].src /\ a[2] = x
  BY DEF PlacedBy, AliasPaths
<1>2. PICK o \in Roots : \E r \in traces[o] : a = Alias(o, r) /\ r.orig # r.canon
  BY DEF Assembled, AliasesOk
<1>3. PICK r \in traces[o] : a = Alias(o, r) /\ r.orig # r.canon
  BY <1>2
<1> QED
  BY <1>1, <1>3 DEF Alias

LEMMA FirstOfferFollows ==
  ASSUME TypeOK, Assembled
  PROVE  FirstOfferKept
<1> SUFFICES ASSUME pc = "done", NEW i \in DOMAIN offers, NEW x, x = offers[i].dest,
                    \A j \in 1..(i - 1) : offers[j].dest # x,
                    \A o \in Origins : \A r \in traces[o] : r.orig = x => r.canon = x
             PROVE  Found(x) = Staged(offers[i])
  BY DEF FirstOfferKept
<1>1. offers \in Seq(File) /\ files \in Seq(File) /\ x \in Names /\ i \in Nat \ {0} /\ link \in Leads
  BY FilesIn DEF TypeOK, Leads
<1>2. FilesOk(files, offers) /\ LinksOk(traces, links) /\ Sanitized
  BY DEF Assembled
<1>3. PICK k \in DOMAIN files : files[k].dest = x
  BY <1>2 DEF FilesOk, Taken
<1>4. files[k] = offers[i]
  <2>1. PICK j \in DOMAIN offers : offers[j] = files[k] /\ \A h \in 1..(j - 1) : offers[h].dest # x
    BY <1>2, <1>3 DEF FilesOk, FirstIn
  <2>2. j \in Nat \ {0} /\ ~(j < i) /\ ~(i < j)
    BY <1>1, <1>3, <2>1
  <2>3. i = j
    BY <1>1, <2>2
  <2> QED
    BY <2>1, <2>3
<1>5. \A j \in DOMAIN links : links[j].dest # x
  <2> SUFFICES ASSUME NEW j \in DOMAIN links, links[j].dest = x PROVE FALSE
    OBVIOUS
  <2>1. links[j].form # "pay"
    BY <1>2, <1>3 DEF Sanitized, Emitting, Taken
  <2>2. PICK o \in Roots : \E r \in traces[o] : r.link /\ r.orig = x
    BY <1>2, <2>1 DEF LinksOk, LinkFrom
  <2>3. PICK r \in traces[o] : r.link /\ r.orig = x
    BY <2>2
  <2>4. r \in Resolution /\ r.canon = x
    BY <2>3 DEF TypeOK, Roots
  <2> QED
    BY <2>3, <2>4, ResolutionIs
<1>6. link[x] = NoName /\ Found(x) = held[x]
  BY <1>1, <1>5, Unlinked, FoundIs
<1>7. PICK m \in DOMAIN files : x \in PlacedBy(files[m]) /\ held[x] = Staged(files[m])
  BY <1>1, <1>3, <1>6, HasFile DEF PlacedBy, Linking
<1>8. files[m].dest = x
  BY <1>7, AliasAt DEF Roots
<1>9. m = k
  BY <1>2, <1>3, <1>8 DEF FilesOk, Distinct
<1> QED
  BY <1>4, <1>6, <1>7, <1>9

\* A last link is the one a payload has.
LEMMA LinkIsLast ==
  ASSUME TypeOK, Assembled, NEW form, NEW x \in Names,
         NEW n \in Nat, PlacedAt(n, x), n <= Len(links) + 1,
         \A i \in DOMAIN links : links[i].dest = x /\ i < n => links[i].form = form,
         \A i \in DOMAIN links : links[i].dest = x /\ links[i].form = form => i < n
  PROVE  link[x] = LastTarget(links, form)[x]
<1>1. links \in Seq(Link) /\ DOMAIN links = 1..Len(links) /\ Len(links) \in Nat
  BY DEF TypeOK
<1>2. \A i \in 1..(n - 1) : i \in DOMAIN links /\ i < n /\ i \in Nat
  BY <1>1
<1>3. CASE link[x] = NoName /\ \A i \in 1..(n - 1) : links[i].dest # x
  <2>1. LinksOf(links, form, x) = {}
    <3>1. \A i \in DOMAIN links : i < n => i \in 1..(n - 1)
      BY <1>1
    <3> QED
      BY <1>3, <3>1 DEF LinksOf
  <2> QED
    BY <1>1, <1>3, <2>1, TargetsLead
<1>4. CASE \E i \in 1..(n - 1) :
             /\ links[i].dest = x /\ link[x] = links[i].target
             /\ \A j \in (i + 1)..(n - 1) : links[j].dest # x
  <2>1. PICK i \in 1..(n - 1) :
             /\ links[i].dest = x /\ link[x] = links[i].target
             /\ \A j \in (i + 1)..(n - 1) : links[j].dest # x
    BY <1>4
  <2>2. i \in DOMAIN links /\ links[i].form = form
    BY <1>2, <2>1
  <2>3. LastOf(links, i)
    <3> SUFFICES ASSUME NEW j \in DOMAIN links, i < j, links[j].form = form, links[j].dest = x PROVE FALSE
      BY <2>1, <2>2 DEF LastOf
    <3>1. j < n
      OBVIOUS
    <3>2. j \in (i + 1)..(n - 1)
      BY <1>1, <1>2, <3>1
    <3> QED
      BY <2>1, <3>2
  <2> QED
    BY <1>1, <2>1, <2>2, <2>3, TargetsLead
<1> QED
  BY <1>3, <1>4 DEF PlacedAt

LEMMA LoopsFollow ==
  ASSUME TypeOK, Assembled
  PROVE  LoopsNeedBothForms
<1> SUFFICES ASSUME pc = "done", \A k, l \in Range(links) : k.form = l.form, NEW x \in Names
             PROVE  ~Cyclic(link, x)
  BY DEF LoopsNeedBothForms, Loops
<1>1. links \in Seq(Link) /\ DOMAIN links = 1..Len(links) /\ Len(links) \in Nat /\ link \in Leads
  BY DEF TypeOK, Leads
<1>2. \A i, j \in DOMAIN links : links[i].form = links[j].form
  BY DEF Range
<1>3. CASE \A i \in DOMAIN links : links[i].dest # x
  BY <1>1, <1>3, Unlinked, ShortWays
<1>4. CASE \E i \in DOMAIN links : links[i].dest = x
  <2>1. PICK i \in DOMAIN links : links[i].dest = x
    BY <1>4
  <2>2. PICK form, L : form = links[i].form /\ L = LastTarget(links, form)
    OBVIOUS
  <2>3. ~Cyclic(L, x)
    BY <2>1, <2>2 DEF Assembled, Sanitized, Emitting
  <2>4. ASSUME NEW y \in Names PROVE link[y] = L[y]
    <3>1. next = Len(links) + 1 /\ PlacedAt(next, y)
      BY DEF Assembled, PayloadOk, Linking
    <3>2. next \in Nat /\ next <= Len(links) + 1
      BY <1>1, <3>1
    <3>3. \A j \in DOMAIN links : j < next /\ links[j].form = form
      BY <1>1, <1>2, <2>2, <3>1
    <3> QED
      BY <2>2, <3>1, <3>2, <3>3, LinkIsLast
  <2>5. link = L
    <3>1. L \in Leads
      BY <1>1, <2>2, TargetsLead
    <3> QED
      BY <1>1, <2>4, <3>1 DEF Leads
  <2> QED
    BY <2>3, <2>5
<1> QED
  BY <1>3, <1>4

LEMMA BlockedFollows ==
  ASSUME TypeOK, Assembled
  PROVE  BlockedByCopiesOnly
<1> SUFFICES ASSUME pc = "failed"
             PROVE  \E k, l \in Range(links) :
                       k.form = "pay" /\ l.form = "pay" /\ k.dest = l.dest /\ k.target # l.target
  BY DEF BlockedByCopiesOnly
<1>1. links \in Seq(Link) /\ DOMAIN links = 1..Len(links) /\ Len(links) \in Nat /\ link \in Leads
  BY DEF TypeOK, Leads
<1>2. PICK n : n = next
  OBVIOUS
<1>3. n \in DOMAIN links /\ n \in Nat /\ InTheWay(links[n].dest)
  BY <1>1, <1>2 DEF Assembled, PayloadOk, Linking
<1>4. \A y \in Names : PlacedAt(n, y)
  BY <1>2 DEF Assembled, PayloadOk, Linking
<1>5. LinksOk(traces, links) /\ CanonsTaken(traces, files) /\ Sanitized
  BY DEF Assembled
<1>6. PICK x : x = links[n].dest
  OBVIOUS
<1>7. x \in Names /\ link[x] # NoName /\ Found(x) = Nothing
  BY <1>1, <1>3, <1>6, LinksIn DEF InTheWay
<1>8. PICK i \in 1..(n - 1) : links[i].dest = x /\ link[x] = links[i].target
  BY <1>4, <1>7 DEF PlacedAt
<1>9. i \in DOMAIN links /\ i < n /\ i # n
  BY <1>1, <1>3
<1>10. links[n].form = "pay"
  <2> SUFFICES ASSUME links[n].form = "run" PROVE FALSE
    BY <1>1, <1>3, LinksIn
  <2>1. links[i].form = "run"
    BY <1>3, <1>5, <1>9 DEF LinksOk, RunsFirst
  <2> QED
    BY <1>3, <1>5, <1>6, <1>8, <1>9, <2>1 DEF LinksOk, RunsApart
<1>11. links[i].form = "pay"
  <2> SUFFICES ASSUME links[i].form = "run" PROVE FALSE
    BY <1>1, <1>9, LinksIn
  <2>1. PICK L : L = LastTarget(links, "run")
    OBVIOUS
  <2>2. L \in Leads
    BY <1>1, <2>1, TargetsLead
  <2>3. \A j \in DOMAIN links : links[j].form = "run" => j < n
    <3> SUFFICES ASSUME NEW j \in DOMAIN links, links[j].form = "run", ~(j < n) PROVE FALSE
      OBVIOUS
    <3>1. j # n
      BY <1>10
    <3>2. n < j
      BY <1>1, <1>3, <3>1
    <3> QED
      BY <1>3, <1>5, <1>10, <3>2 DEF LinksOk, RunsFirst
  \* A file has no copied link, and so leads where traced ones do.
  <2>4. ASSUME NEW y \in Names, Taken(files, y) PROVE link[y] = L[y]
    <3>1. \A j \in DOMAIN links : links[j].dest = y => links[j].form = "run"
      BY <1>1, <1>5, <2>4, LinksIn DEF Sanitized, Emitting
    <3>2. n <= Len(links) + 1
      BY <1>1, <1>3
    <3> QED
      BY <1>3, <1>4, <2>1, <2>3, <3>1, <3>2, LinkIsLast
  <2>5. link[x] = L[x]
    <3>1. LastOf(links, i)
      <4> SUFFICES ASSUME NEW j \in DOMAIN links, i < j, links[j].form = "run", links[j].dest = x PROVE FALSE
        BY <1>8 DEF LastOf
      <4>1. i = j
        BY <1>5, <1>8, <1>9 DEF LinksOk, RunsApart
      <4> QED
        BY <1>1, <4>1
    <3> QED
      BY <1>1, <1>8, <1>9, <2>1, <3>1, TargetsLead
  <2>6. PICK w : w = Way(L, x)
    OBVIOUS
  <2>7. IsWay(L, x, w)
    BY <1>7, <2>2, <2>6, WayIs
  <2>8. ~Cyclic(L, x)
    BY <1>5, <1>8, <1>9, <2>1 DEF Sanitized, Emitting
  <2>9. ASSUME NEW y \in Names, L[y] # NoName PROVE L[y] \in Names /\ Taken(files, L[y])
    <3>1. LinksOf(links, "run", y) # {}
      BY <1>1, <2>1, <2>9, TargetsLead
    <3>2. PICK j \in DOMAIN links : links[j].form = "run" /\ links[j].dest = y /\ LastOf(links, j)
      BY <1>1, <3>1, OneIsLast
    <3>3. L[y] = links[j].target
      BY <1>1, <2>1, <3>2, TargetsLead
    <3> QED
      BY <3>2, <3>3, NoLinkToItself
  <2>10. \A m \in Places0 : m # 0 /\ w[m] # NoName => w[m] \in Names /\ Taken(files, w[m])
    <3> SUFFICES ASSUME NEW m \in Places0, m # 0, w[m] # NoName PROVE w[m] \in Names /\ Taken(files, w[m])
      OBVIOUS
    <3>1. m - 1 \in Places0
      BY NamesAreFinite DEF Places0
    <3>2. w[m - 1] \in Names /\ w[m] = L[w[m - 1]]
      BY <2>7, <3>1 DEF IsWay
    <3> QED
      BY <2>9, <3>2
  <2>11. \A y \in Names : ~Cyclic(L, y) /\ (\E m \in Places0 : Way(L, x)[m] = y) => L[y] = link[y]
    <3> SUFFICES ASSUME NEW m \in Places0, w[m] \in Names PROVE L[w[m]] = link[w[m]]
      BY <2>6
    <3>1. CASE m = 0
      BY <2>5, <2>7, <3>1 DEF IsWay
    <3>2. CASE m # 0
      BY <2>4, <2>10, <3>2, PathsAreOrdered
    <3> QED
      BY <3>1, <3>2
  <2>12. ~Cyclic(link, x) /\ Range(Way(link, x)) = Range(w)
    BY <1>1, <1>7, <2>2, <2>6, <2>8, <2>11, SameWay
  <2>13. PICK y \in Names : IsEnd(link, x, y)
    BY <1>1, <1>7, <2>12, OneEnd
  <2>14. y \in Range(w) /\ link[y] = NoName /\ y # x
    BY <1>7, <2>12, <2>13 DEF IsEnd
  <2>15. PICK m \in Places0 : w[m] = y
    BY <2>7, <2>14 DEF IsWay, Range
  <2>16. Taken(files, y)
    <3>1. m # 0
      BY <2>7, <2>14, <2>15 DEF IsWay
    <3> QED
      BY <2>10, <2>15, <3>1, PathsAreOrdered
  <2>17. held[y] # Nothing
    <3>1. PICK k \in DOMAIN files : files[k].dest = y
      BY <2>16 DEF Taken
    <3>2. PICK h \in DOMAIN files : held[y] = Staged(files[h])
      BY <2>14, <3>1, HasFile DEF PlacedBy, Linking
    <3>3. files[h] \in File
      BY FilesIn DEF TypeOK
    <3> QED
      BY <3>2, <3>3, StagedIsContents, ContentsKnown
  <2>18. Found(x) = held[y]
    <3>1. \A z : z \in Range(Way(link, x)) \ {NoName} /\ link[z] = NoName => z = y
      BY <1>1, <1>7, <2>12, <2>13, OneEnd DEF IsEnd
    <3>2. y \in Range(Way(link, x)) \ {NoName} /\ link[y] = NoName
      BY <2>13 DEF IsEnd
    <3>3. End(x) = y
      BY <3>1, <3>2 DEF End
    <3> QED
      BY <2>12, <3>3 DEF Found, Loops
  <2> QED
    BY <1>7, <2>17, <2>18
<1>12. links[i].target # links[n].target
  <2> SUFFICES ASSUME links[i].target = links[n].target PROVE FALSE
    OBVIOUS
  <2>1. links[i] \in Link /\ links[n] \in Link
    BY <1>1, <1>3, <1>9
  <2>2. links[i] = links[n]
    BY <1>6, <1>8, <1>10, <1>11, <2>1 DEF Link
  <2> QED
    BY <1>3, <1>5, <1>9, <2>2 DEF LinksOk, AllApart
<1>13. links[i] \in Range(links) /\ links[n] \in Range(links)
  BY <1>3, <1>9 DEF Range
<1> QED
  BY <1>6, <1>8, <1>10, <1>11, <1>12, <1>13
\* What a source of a root holds: what its path leads to there.
LEMMA ContentsAre ==
  ASSUME TypeOK, Assembled, NEW o \in Roots, NEW r \in traces[o], DigestOf[o][r.canon] # Empty,
         NEW f, f.src = <<o, r.canon>> \/ f.src = <<o, r.orig>>
  PROVE  Staged(f) = DigestOf[o][r.canon]
<1>1. OneRoot(traces[o]) /\ o # Copied
  BY DEF Assembled, TracesOk, Roots
<1>2. PICK x : f.src = <<o, x>> /\ x \in {r.canon, r.orig}
  OBVIOUS
<1>3. PICK via : via = {q \in traces[o] : q.orig = x /\ o # Copied}
  OBVIOUS
<1>4. \A q \in via : q.canon = r.canon
  BY <1>1, <1>2, <1>3 DEF OneRoot
<1>5. via = {} => x = r.canon
  BY <1>1, <1>2, <1>3
<1>6. Contents(f.src) = DigestOf[o][IF via = {} THEN x ELSE (CHOOSE q \in via : TRUE).canon]
  BY <1>2, <1>3 DEF Contents
<1>7. (IF via = {} THEN x ELSE (CHOOSE q \in via : TRUE).canon) = r.canon
  BY <1>4, <1>5
<1> QED
  BY <1>6, <1>7 DEF Staged

LEMMA PathsFollow ==
  ASSUME TypeOK, Assembled
  PROVE  PathsServed
<1> SUFFICES ASSUME pc = "done", NEW o \in Roots, NEW r \in traces[o],
                    ~Contested(o, r.orig), ~Contested(o, r.canon), ~DroppedByMerge(o, r),
                    DigestOf[o][r.canon] # Empty
             PROVE  Found(r.orig) = DigestOf[o][r.canon]
  BY DEF PathsServed, Roots, Served
<1>1. PICK x, y : x = r.orig /\ y = r.canon
  OBVIOUS
<1>2. /\ r \in Resolution /\ x \in Names /\ y \in Names /\ link \in Leads /\ traces \in TracesType
      /\ files \in Seq(File) /\ offers \in Seq(File)
  BY <1>1, ResolutionIs DEF TypeOK, TracesType, Roots, Leads
<1>3. /\ TracesOk(traces) /\ FilesOk(files, offers) /\ CanonsTaken(traces, files)
      /\ LinksOk(traces, links) /\ AliasesOk(traces, aliases) /\ Sanitized
  BY DEF Assembled
<1>4. Solo(traces, o, r)
  BY DEF Contested, Solo
<1>5. OneRoot(traces[o]) /\ o \in Origins /\ Copied \in Origins \ {o}
  BY <1>3, OriginsAre DEF TracesOk, Roots
<1>6. \A p \in Origins : \A q \in traces[p] : q.orig \in {x, y} => p = o
  BY <1>1, <1>4 DEF Solo
\* A file of these paths is of o.
<1>7. ASSUME NEW k \in DOMAIN files, files[k].dest \in {x, y}
      PROVE  files[k].src = <<o, files[k].dest>>
  <2>1. PICK j \in DOMAIN offers : offers[j] = files[k]
    BY <1>3 DEF FilesOk, FirstIn
  <2>2. files[k].src[1] = o
    BY <1>1, <1>7, <2>1 DEF Contested
  <2>3. files[k].src[2] = files[k].dest
    BY <1>3, <2>1 DEF FilesOk, Itself
  <2>4. files[k] \in File
    BY <1>2
  <2>5. PICK p, z : files[k].src = <<p, z>>
    BY <2>4 DEF File
  <2> QED
    BY <2>2, <2>3, <2>5
<1>8. ASSUME NEW k \in DOMAIN files, files[k].dest = y PROVE Staged(files[k]) = DigestOf[o][y]
  BY <1>1, <1>7, <1>8, ContentsAre
<1>9. PICK k \in DOMAIN files : files[k].dest = y
  BY <1>1, <1>3 DEF CanonsTaken, Taken
\* At its own path is the file, and no link.
<1>10. ASSUME NEW i \in DOMAIN links, links[i].dest = y PROVE FALSE
  <2>1. links[i].form # "pay"
    BY <1>9, <1>10 DEF Assembled, Sanitized, Emitting, Taken
  <2>2. links[i].form = "run"
    BY <2>1, LinksIn DEF TypeOK
  <2> QED
    BY <1>1, <1>2, <1>3, <1>4, <1>10, <2>2, CanonNotLinked
<1>11. link[y] = NoName
  BY <1>2, <1>10, Unlinked
<1>12. held[y] = DigestOf[o][y]
  <2>1. PICK m \in DOMAIN files : y \in PlacedBy(files[m]) /\ held[y] = Staged(files[m])
    BY <1>2, <1>9, <1>11, HasFile DEF PlacedBy, Linking
  <2>2. files[m].dest = y
    <3> SUFFICES ASSUME files[m].dest # y PROVE FALSE
      OBVIOUS
    <3>1. PICK p \in Roots : \E q \in traces[p] : q.orig = y /\ q.orig # q.canon
      BY <2>1, AliasAt
    <3>2. PICK q \in traces[p] : q.orig = y /\ q.orig # q.canon
      BY <3>1
    <3>3. p = o
      BY <1>6, <3>2 DEF Roots
    <3> QED
      BY <1>1, <1>5, <3>2, <3>3 DEF OneRoot
  <2> QED
    BY <1>8, <2>1, <2>2
<1>13. CASE x = y
  BY <1>1, <1>2, <1>11, <1>12, <1>13, FoundIs
<1>14. ASSUME NEW i \in DOMAIN links, links[i].dest = x
       PROVE  r.link /\ links[i] = RunLink(r)
  <2>1. LinkFrom(traces, links[i])
    BY <1>3 DEF LinksOk
  <2>2. links[i].form = "run"
    BY <1>5, <1>6, <1>14, <2>1 DEF LinkFrom
  <2>3. PICK p \in Roots : \E q \in traces[p] : q.link /\ q.orig = x /\ q.canon = links[i].target
    BY <1>14, <2>1, <2>2 DEF LinkFrom
  <2>4. PICK q \in traces[p] : q.link /\ q.orig = x /\ q.canon = links[i].target
    BY <2>3
  <2>5. p = o
    BY <1>6, <2>4 DEF Roots
  <2>6. q = r
    BY <1>1, <1>5, <2>4, <2>5 DEF OneRoot
  <2>7. links[i] \in Link
    BY DEF TypeOK
  <2> QED
    BY <1>1, <1>14, <2>2, <2>4, <2>6, <2>7 DEF RunLink, Link
<1>15. CASE x # y /\ r.link
  <2>1. PICK i \in DOMAIN links : links[i] = RunLink(r)
    BY <1>3, <1>4, <1>15 DEF LinksOk, LinksKept
  <2>2. links[i].dest = x /\ links[i].target = y
    BY <1>1, <2>1 DEF RunLink
  <2>3. PlacedAt(next, x) /\ next = Len(links) + 1
    BY <1>2 DEF Assembled, PayloadOk, Linking
  <2>4. \A j \in 1..(next - 1) : j \in DOMAIN links
    BY <2>3 DEF TypeOK
  <2>5. i \in 1..(next - 1)
    BY <2>3 DEF TypeOK
  <2>6. PICK j \in 1..(next - 1) : links[j].dest = x /\ link[x] = links[j].target
    BY <2>2, <2>3, <2>5 DEF PlacedAt
  <2>7. links[j] = RunLink(r)
    BY <1>14, <2>4, <2>6
  <2>8. link[x] = y
    BY <1>1, <2>6, <2>7 DEF RunLink
  <2>9. y # NoName
    BY <1>2, PathsAreOrdered
  <2> QED
    BY <1>1, <1>2, <1>11, <1>12, <2>8, <2>9, FoundIs
<1>16. CASE x # y /\ ~r.link
  <2>1. \A i \in DOMAIN links : links[i].dest # x
    BY <1>14, <1>16
  <2>2. link[x] = NoName
    BY <1>2, <2>1, Unlinked
  <2>3. ~Drops(o, r, traces[o])
    BY DEF Drops, DroppedByMerge
  <2>4. Alias(o, r) \in aliases
    BY <1>1, <1>3, <1>16, <2>3 DEF AliasesOk
  <2>5. x \in PlacedBy(files[k])
    <3>1. files[k].src = <<o, y>>
      BY <1>7, <1>9
    <3>2. Alias(o, r)[1] = files[k].src /\ Alias(o, r)[2] = x
      BY <1>1, <3>1 DEF Alias
    <3>3. x \notin {l.dest : l \in {h \in Range(links) : h.form = "run"}}
      BY <2>1 DEF Range
    <3> QED
      BY <1>9, <1>16, <2>4, <3>2, <3>3 DEF PlacedBy, AliasPaths
  <2>6. PICK m \in DOMAIN files : x \in PlacedBy(files[m]) /\ held[x] = Staged(files[m])
    BY <1>2, <2>2, <2>5, HasFile DEF Linking
  <2>7. CASE files[m].dest = x
    <3>1. files[m].src = <<o, r.orig>>
      BY <1>1, <1>7, <2>7
    <3>2. Staged(files[m]) = DigestOf[o][y]
      BY <1>1, <3>1, ContentsAre
    <3> QED
      BY <1>1, <1>2, <2>2, <2>6, <3>2, FoundIs
  <2>8. CASE files[m].dest # x
    <3>1. PICK p \in Roots : \E q \in traces[p] : q.orig = x /\ files[m].src = <<p, q.canon>>
      BY <2>6, <2>8, AliasAt
    <3>2. PICK q \in traces[p] : q.orig = x /\ files[m].src = <<p, q.canon>>
      BY <3>1
    <3>3. p = o
      BY <1>6, <3>2 DEF Roots
    <3>4. q = r
      BY <1>1, <1>5, <3>2, <3>3 DEF OneRoot
    <3>5. Staged(files[m]) = DigestOf[o][y]
      BY <1>1, <3>2, <3>3, <3>4, ContentsAre
    <3> QED
      BY <1>1, <1>2, <2>2, <2>6, <3>5, FoundIs
  <2> QED
    BY <2>7, <2>8
<1> QED
  BY <1>13, <1>15, <1>16

\* Every stage, and every list and map that one hands to the next, is of the
\* kind create and emit are written for.
THEOREM BundleTypes == Spec => []TypeOK
<1>1. BundleInv => TypeOK
  BY DEF BundleInv
<1> QED
  BY <1>1, BundleInvHolds, PTL

\* Of files that inputs offer for one path the payload has the first, where no
\* alias or traced link has a claim: merge, ensure_system_assets and
\* copy_dir_into_closure never replace a file, and emit puts no other there.
THEOREM BundleFirstOfferKept == Spec => []FirstOfferKept
<1>1. BundleInv => FirstOfferKept
  <2>1. CASE pc = "refused"
    BY <2>1 DEF FirstOfferKept
  <2>2. CASE pc # "refused"
    BY <2>2, FirstOfferFollows DEF BundleInv
  <2> QED
    BY <2>1, <2>2
<1> QED
  BY <1>1, BundleInvHolds, PTL

\* Every traced path, of the host or an image, leads to the file it led to in
\* its own root, unless another input names it or that file, or merge dropped
\* it.
THEOREM BundlePathsServed == Spec => []PathsServed
<1>1. BundleInv => PathsServed
  <2>1. CASE pc = "refused"
    BY <2>1 DEF PathsServed
  <2>2. CASE pc # "refused"
    BY <2>2, PathsFollow DEF BundleInv
  <2> QED
    BY <2>1, <2>2
<1> QED
  BY <1>1, BundleInvHolds, PTL

\* Links that are all traced, or all copied, form no loop in the payload:
\* what sanitize_symlinks looks for among links of one spelling it finds.
THEOREM BundleLoopsNeedBothForms == Spec => []LoopsNeedBothForms
<1>1. BundleInv => LoopsNeedBothForms
  <2>1. CASE pc = "refused"
    BY <2>1 DEF LoopsNeedBothForms
  <2>2. CASE pc # "refused"
    BY <2>2, LoopsFollow DEF BundleInv
  <2> QED
    BY <2>1, <2>2
<1> QED
  BY <1>1, BundleInvHolds, PTL

\* emit fails on a link that is in the way only where two copied directories
\* have links with different targets for one path.
THEOREM BundleBlockedByCopiesOnly == Spec => []BlockedByCopiesOnly
<1>1. BundleInv => BlockedByCopiesOnly
  <2>1. CASE pc = "refused"
    BY <2>1 DEF BlockedByCopiesOnly
  <2>2. CASE pc # "refused"
    BY <2>2, BlockedFollows DEF BundleInv
  <2> QED
    BY <2>1, <2>2
<1> QED
  BY <1>1, BundleInvHolds, PTL
=============================================================================
