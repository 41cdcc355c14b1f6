-------------------------- MODULE ShimExtractProofs --------------------------
(***************************************************************************)
(* The marker tells the truth, and shims run what they decided on, for any *)
(* number of shims, bundles and files.                                     *)
(***************************************************************************)
EXTENDS ShimExtract, TLAPS

\* The file f of bundle b is there, or a shim of b is about to see to it.
Done(b, f) == f \in whole /\ BundleOf[owner[f]] = b
Pending(b, f) ==
    \E t \in Shims :
        /\ BundleOf[t] = b /\ cur[t] = f
        /\ \/ pc[t] = "reopen" /\ owner[f] = NoShim
           \/ pc[t] = "fill" /\ owner[f] = t
Settled(b, f) == Done(b, f) \/ Pending(b, f)
AllSettled(b) == \A f \in FilesOf[b] : Settled(b, f)

\* Another shim created the file that s unlinked: s fails at its next step.
Doomed(s) == pc[s] = "reopen" /\ owner[cur[s]] # NoShim

IsBusy(s) == pc[s] \in Busy

Lists ==
    \A s \in Shims :
        /\ IsBusy(s) => todo[s] \subseteq FilesOf[BundleOf[s]]
        /\ pc[s] \in {"mark", "stamp"} => todo[s] = {}
        /\ pc[s] \in {"reopen", "fill"} => cur[s] \in FilesOf[BundleOf[s]]

\* Nothing but shims of one bundle unpacks at a time.
OneBundle == \A s, o \in Shims : IsBusy(s) /\ IsBusy(o) => BundleOf[s] = BundleOf[o]

\* What a shim has done stays done, or is in another one's hands.
WorkStays ==
    \A s \in Shims : IsBusy(s) => \A f \in FilesOf[BundleOf[s]] \ todo[s] : Settled(BundleOf[s], f)

\* Shims that make each other fail leave one that does not, or nothing to do.
SomeoneFinishes ==
    \A s \in Shims : IsBusy(s) =>
        \/ AllSettled(BundleOf[s]) /\ marker \in {BundleOf[s], NoBundle}
        \/ \E o \in Shims : IsBusy(o) /\ ~Doomed(o)

Stamping == \A s \in Shims : pc[s] = "stamp" => marker \in {BundleOf[s], NoBundle}

\* The marker is true, but for what shims of its bundle are at.
MarkerSettled ==
    \A b \in Bundles : marker = b /\ (\A s \in Shims : IsBusy(s) => BundleOf[s] = b) => AllSettled(b)

\* So is what undisturbed shims run.
RunningSettled ==
    \A s \in Trusting \ disturbed :
        /\ \A o \in Shims : IsBusy(o) => BundleOf[o] = BundleOf[s]
        /\ AllSettled(BundleOf[s])

Sound ==
    ~mixed /\ ~cut =>
        OneBundle /\ WorkStays /\ SomeoneFinishes /\ Stamping /\ MarkerSettled /\ RunningSettled

IInv == TypeOK /\ Lists /\ Sound

-----------------------------------------------------------------------------
\* Nothing has been unpacked.
LEMMA ShimInit == Init => IInv
<1> SUFFICES ASSUME Init PROVE IInv
  OBVIOUS
<1>1. \A s \in Shims : ~IsBusy(s) /\ pc[s] = "check"
  BY DEF Init, IsBusy, Busy, Unfinished
<1>2. TypeOK
  BY DEF Init, TypeOK
<1>3. Lists
  BY <1>1 DEF Lists
<1>4. Sound
  BY <1>1, NonesAreNew DEF Init, Sound, OneBundle, WorkStays, SomeoneFinishes, Stamping,
     MarkerSettled, RunningSettled, Trusting
<1> QED
  BY <1>2, <1>3, <1>4 DEF IInv

\* Every action keeps the types.
LEMMA ShimTypesStep ==
    ASSUME TypeOK, Lists, NEW s \in Shims, Step(s) \/ BreakOff(s)
    PROVE  TypeOK'
<1> USE ShimsCarryBundles, ArchivesHaveEntry DEF TypeOK, Goto, Busy, Unfinished, Ends
<1>1. CASE Check(s)
  <2>1. CASE Trust(s) /\ UNCHANGED <<todo, mixed>>
    BY <1>1, <2>1 DEF Check, Trust
  <2>2. CASE /\ Goto(s, "next")
             /\ todo' = [todo EXCEPT ![s] = FilesOf[BundleOf[s]]]
             /\ mixed' = (mixed \/ \E o \in Others(s) : Foreign(s, o))
             /\ disturbed' = disturbed \cup {o \in Trusting : Foreign(s, o)}
    <3>1. mixed' \in BOOLEAN
      BY <2>2
    <3>2. disturbed' \subseteq Shims
      BY <2>2 DEF Trusting
    <3>3. pc' \in [Shims -> {"check", "exec"} \cup Busy \cup Ends] /\ todo' \in [Shims -> SUBSET Files]
      BY <2>2
    <3> QED
      BY <1>1, <3>1, <3>2, <3>3 DEF Check
  <2> QED
    BY <1>1, <2>1, <2>2 DEF Check
<1>2. CASE NextEntry(s)
  BY <1>2 DEF NextEntry
<1>3. CASE Reopen(s)
  BY <1>3 DEF Reopen
<1>4. CASE Fill(s)
  <2>1. cur[s] \in Files
    BY <1>4 DEF Fill, Lists
  <2> QED
    BY <1>4, <2>1 DEF Fill
<1>5. CASE Mark(s)
  BY <1>5 DEF Mark
<1>6. CASE Stamp(s)
  BY <1>6 DEF Stamp, Trust
<1>7. CASE Exec(s)
  BY <1>7 DEF Exec
<1>8. CASE BreakOff(s)
  BY <1>8 DEF BreakOff, Trusting
<1> QED
  BY <1>1, <1>2, <1>3, <1>4, <1>5, <1>6, <1>7, <1>8 DEF Step

\* Every action keeps the lists of entries in order.
LEMMA ShimListsStep ==
    ASSUME TypeOK, Lists, NEW s \in Shims, Step(s) \/ BreakOff(s)
    PROVE  Lists'
<1>1. \A t \in Shims \ {s} : pc'[t] = pc[t] /\ todo'[t] = todo[t] /\ cur'[t] = cur[t]
  BY DEF TypeOK, Step, Check, Trust, NextEntry, Reopen, Fill, Mark, Stamp, Exec, BreakOff, Goto
<1>2. /\ pc'[s] \in Busy => todo'[s] \subseteq FilesOf[BundleOf[s]]
      /\ pc'[s] \in {"mark", "stamp"} => todo'[s] = {}
      /\ pc'[s] \in {"reopen", "fill"} => cur'[s] \in FilesOf[BundleOf[s]]
  <2> USE ShimsCarryBundles, ArchivesHaveEntry DEF TypeOK, Lists, IsBusy, Goto, Busy, Unfinished
  <2>1. CASE Check(s)
    BY <2>1 DEF Check, Trust
  <2>2. CASE NextEntry(s)
    BY <2>2 DEF NextEntry
  <2>3. CASE Reopen(s)
    BY <2>3 DEF Reopen
  <2>4. CASE Fill(s)
    BY <2>4 DEF Fill
  <2>5. CASE Mark(s)
    BY <2>5 DEF Mark
  <2>6. CASE Stamp(s)
    BY <2>6 DEF Stamp, Trust
  <2>7. CASE Exec(s)
    BY <2>7 DEF Exec
  <2>8. CASE BreakOff(s)
    BY <2>8 DEF BreakOff
  <2> QED
    BY <2>1, <2>2, <2>3, <2>4, <2>5, <2>6, <2>7, <2>8 DEF Step
<1> QED
  BY <1>1, <1>2 DEF Lists, IsBusy

\* No step of a shim undoes what is done or pending for its own bundle.
LEMMA SettledOneStays ==
    ASSUME TypeOK, Lists, NEW s \in Shims, Step(s), NEW b \in Bundles,
           IsBusy(s) => BundleOf[s] = b, NEW f \in FilesOf[b], Settled(b, f)
    PROVE  Settled(b, f)'
<1>1. Settled(b, f) /\ f \in Files
  BY ArchivesHaveEntry
<1> USE DEF TypeOK, Goto
<1>2. CASE Check(s) \/ Mark(s) \/ Stamp(s) \/ Exec(s)
  <2>1. /\ pc[s] \notin {"reopen", "fill"} /\ UNCHANGED <<whole, owner, cur>>
        /\ \A t \in Shims \ {s} : pc'[t] = pc[t]
    BY <1>2 DEF Check, Mark, Stamp, Exec, Trust
  <2> QED
    BY <1>1, <2>1 DEF Settled, Done, Pending
<1>3. CASE NextEntry(s)
  <2>1. PICK g \in todo[s] :
          /\ cur' = [cur EXCEPT ![s] = g] /\ whole' = whole \ {g}
          /\ IF Exists(g) THEN Goto(s, "reopen") /\ owner' = [owner EXCEPT ![g] = NoShim]
                          ELSE Goto(s, "fill") /\ owner' = [owner EXCEPT ![g] = s]
    BY <1>3 DEF NextEntry
  <2>2. pc[s] = "next" /\ BundleOf[s] = b /\ g \in Files
    BY <1>3 DEF NextEntry, IsBusy, Busy, Unfinished
  <2>3. CASE f = g
    BY <2>1, <2>2, <2>3 DEF Settled, Pending
  <2>4. CASE f # g
    BY <1>1, <2>1, <2>2, <2>4 DEF Settled, Done, Pending
  <2> QED
    BY <2>3, <2>4
<1>4. CASE Reopen(s)
  <2>1. /\ pc[s] = "reopen" /\ BundleOf[s] = b /\ UNCHANGED <<cur, whole>> /\ cur[s] \in Files
        /\ \A t \in Shims \ {s} : pc'[t] = pc[t]
    BY <1>4, ArchivesHaveEntry DEF Reopen, IsBusy, Busy, Unfinished, Lists
  <2>2. CASE owner[cur[s]] = NoShim
    <3>1. pc'[s] = "fill" /\ owner' = [owner EXCEPT ![cur[s]] = s]
      BY <1>4, <2>2 DEF Reopen
    <3>2. CASE f = cur[s]
      BY <2>1, <3>1, <3>2 DEF Settled, Pending
    <3>3. CASE f # cur[s]
      BY <1>1, <2>1, <3>1, <3>3 DEF Settled, Done, Pending
    <3> QED
      BY <3>2, <3>3
  <2>3. CASE owner[cur[s]] # NoShim
    BY <1>1, <1>4, <2>1, <2>3 DEF Reopen, Settled, Done, Pending
  <2> QED
    BY <2>2, <2>3
<1>5. CASE Fill(s)
  <2>1. /\ pc[s] = "fill" /\ BundleOf[s] = b /\ UNCHANGED owner /\ whole \subseteq whole'
        /\ owner[cur[s]] = s => cur[s] \in whole'
        /\ \A t \in Shims \ {s} : pc'[t] = pc[t] /\ cur'[t] = cur[t]
    BY <1>5 DEF Fill, IsBusy, Busy, Unfinished
  <2> QED
    BY <1>1, <2>1 DEF Settled, Done, Pending
<1> QED
  BY <1>2, <1>3, <1>4, <1>5 DEF Step

\* The same of all files of a bundle.
LEMMA SettledStays ==
    ASSUME TypeOK, Lists, NEW s \in Shims, Step(s), NEW b \in Bundles,
           IsBusy(s) => BundleOf[s] = b, AllSettled(b)
    PROVE  AllSettled(b)'
BY SettledOneStays DEF AllSettled

\* The parts of Sound, for a step with which a shim stays at work.
LEMMA WorkGoesOn ==
    ASSUME TypeOK, Lists, OneBundle, WorkStays, SomeoneFinishes, Stamping, MarkerSettled,
           RunningSettled, NEW s \in Shims, Step(s), IsBusy(s), pc'[s] \in Busy, ~Doomed(s)',
           UNCHANGED disturbed, marker' \in {marker, NoBundle},
           pc'[s] = "stamp" => marker' = NoBundle,
           \A t \in Shims \ {s} : pc'[t] = pc[t] /\ todo'[t] = todo[t],
           \A f \in todo[s] \ todo'[s] : Settled(BundleOf[s], f)'
    PROVE  (OneBundle /\ WorkStays /\ SomeoneFinishes /\ Stamping /\ MarkerSettled /\ RunningSettled)'
<1> USE ShimsCarryBundles, NonesAreNew
<1>1. \A t \in Shims : IsBusy(t)' <=> IsBusy(t)
  BY DEF IsBusy
<1>2. \A t \in Shims : IsBusy(t) => BundleOf[t] = BundleOf[s]
  BY DEF OneBundle
<1>3. \A b \in Bundles : BundleOf[s] = b /\ AllSettled(b) => AllSettled(b)'
  BY SettledStays
<1>4. OneBundle'
  BY <1>1 DEF OneBundle
<1>5. WorkStays'
  <2> SUFFICES ASSUME NEW t \in Shims, IsBusy(t), NEW f \in FilesOf[BundleOf[t]] \ todo'[t]
               PROVE  Settled(BundleOf[t], f)'
    BY <1>1 DEF WorkStays
  <2>1. BundleOf[t] = BundleOf[s]
    BY <1>2
  <2>2. CASE f \in todo[t]
    BY <2>1, <2>2
  <2>3. CASE f \notin todo[t]
    <3>1. Settled(BundleOf[s], f)
      BY <2>1, <2>3 DEF WorkStays
    <3> QED
      BY <2>1, <3>1, SettledOneStays
  <2> QED
    BY <2>2, <2>3
<1>6. SomeoneFinishes'
  BY <1>1 DEF SomeoneFinishes
<1>7. Stamping'
  BY DEF Stamping
<1>8. MarkerSettled'
  BY <1>1, <1>3 DEF MarkerSettled
<1>9. RunningSettled'
  <2>1. Trusting' = Trusting
    BY DEF Trusting, IsBusy, Busy, Unfinished
  <2> QED
    BY <1>1, <1>3, <2>1 DEF RunningSettled, Trusting
<1> QED
  BY <1>4, <1>5, <1>6, <1>7, <1>8, <1>9

\* The parts of Sound, for a step with which a shim that is not at work does
\* not begin, and changes nothing but its own pc.
LEMMA IdleGoesOn ==
    ASSUME TypeOK, OneBundle, WorkStays, SomeoneFinishes, Stamping, MarkerSettled,
           RunningSettled, NEW s \in Shims, ~IsBusy(s), pc' = [pc EXCEPT ![s] = pc'[s]],
           pc'[s] \notin Busy, disturbed \subseteq disturbed',
           UNCHANGED <<todo, cur, marker, owner, whole>>,
           s \in (Trusting \ disturbed)' => s \in Trusting \/
               /\ marker = BundleOf[s]
               /\ \A o \in Shims : IsBusy(o) => BundleOf[o] = BundleOf[s]
    PROVE  (OneBundle /\ WorkStays /\ SomeoneFinishes /\ Stamping /\ MarkerSettled /\ RunningSettled)'
<1> USE ShimsCarryBundles
<1>1. \A t \in Shims : (IsBusy(t)' <=> IsBusy(t)) /\ (t # s => pc'[t] = pc[t])
  BY DEF TypeOK, IsBusy
<1>2. pc[s] \notin Busy /\ pc'[s] \notin Busy
  BY DEF IsBusy
<1>3. \A b, f : Settled(b, f)' <=> Settled(b, f)
  BY <1>1, <1>2 DEF Settled, Done, Pending, Busy, Unfinished
<1>4. \A b : AllSettled(b)' <=> AllSettled(b)
  BY <1>3 DEF AllSettled
<1>5. \A t \in Shims : IsBusy(t) => (Doomed(t)' <=> Doomed(t))
  BY <1>1, <1>2 DEF Doomed, IsBusy
<1>6. OneBundle' /\ WorkStays'
  BY <1>1, <1>3 DEF OneBundle, WorkStays
<1>7. SomeoneFinishes'
  BY <1>1, <1>4, <1>5 DEF SomeoneFinishes
<1>8. Stamping'
  BY <1>1, <1>2 DEF Stamping, Busy, Unfinished
<1>9. MarkerSettled'
  BY <1>1, <1>4 DEF MarkerSettled
<1>10. RunningSettled'
  <2> SUFFICES ASSUME NEW t \in (Trusting \ disturbed)'
               PROVE  /\ \A o \in Shims : IsBusy(o) => BundleOf[o] = BundleOf[t]
                      /\ AllSettled(BundleOf[t])
    BY <1>1, <1>4 DEF RunningSettled
  <2>1. CASE t \in Trusting
    BY <2>1 DEF RunningSettled
  <2>2. CASE t \notin Trusting
    <3>1. t = s
      BY <1>1, <2>2 DEF Trusting
    <3> QED
      BY <2>2, <3>1 DEF MarkerSettled
  <2> QED
    BY <2>1, <2>2
<1> QED
  BY <1>6, <1>7, <1>8, <1>9, <1>10

\* The parts of Sound, for a step with which a shim leaves its work.
LEMMA LeavingGoesOn ==
    ASSUME TypeOK, OneBundle, WorkStays, SomeoneFinishes, Stamping, MarkerSettled,
           RunningSettled, NEW s \in Shims, IsBusy(s), pc' = [pc EXCEPT ![s] = pc'[s]],
           pc'[s] \notin Busy, disturbed \subseteq disturbed',
           UNCHANGED <<todo, cur, owner, whole>>,
           \A f : Settled(BundleOf[s], f) => Settled(BundleOf[s], f)',
           \/ AllSettled(BundleOf[s]) /\ marker \in {BundleOf[s], NoBundle} /\ marker' \in {marker, BundleOf[s]}
           \/ Doomed(s) /\ marker' = marker /\ s \notin Trusting',
           s \in Trusting' => marker' = BundleOf[s]
    PROVE  (OneBundle /\ WorkStays /\ SomeoneFinishes /\ Stamping /\ MarkerSettled /\ RunningSettled)'
<1> USE ShimsCarryBundles, NonesAreNew
<1>1. \A t \in Shims : (IsBusy(t)' <=> IsBusy(t) /\ t # s) /\ (t # s => pc'[t] = pc[t])
  BY DEF TypeOK, IsBusy
<1>2. \A t \in Shims : IsBusy(t) => BundleOf[t] = BundleOf[s]
  BY DEF OneBundle
<1>3. AllSettled(BundleOf[s]) => AllSettled(BundleOf[s])'
  BY DEF AllSettled
<1>4. \A t \in Shims \ {s} : Doomed(t)' <=> Doomed(t)
  BY <1>1 DEF Doomed
<1>5. OneBundle'
  BY <1>1 DEF OneBundle
<1>6. WorkStays'
  BY <1>1, <1>2 DEF WorkStays
<1>7. SomeoneFinishes'
  BY <1>1, <1>2, <1>3, <1>4 DEF SomeoneFinishes
<1>8. Stamping'
  BY <1>1, <1>2 DEF Stamping, IsBusy, Busy, Unfinished
<1>9. MarkerSettled'
  <2> SUFFICES ASSUME NEW b \in Bundles, marker' = b, \A t \in Shims : IsBusy(t)' => BundleOf[t] = b
               PROVE  AllSettled(b)'
    BY DEF MarkerSettled
  <2>1. CASE b = BundleOf[s]
    BY <1>1, <1>2, <1>3, <2>1 DEF MarkerSettled
  <2>2. CASE b # BundleOf[s]
    BY <1>1, <1>2, <2>2 DEF SomeoneFinishes
  <2> QED
    BY <2>1, <2>2
<1>10. RunningSettled'
  <2> SUFFICES ASSUME NEW t \in (Trusting \ disturbed)'
               PROVE  BundleOf[t] = BundleOf[s] /\ AllSettled(BundleOf[s])
    BY <1>1, <1>2, <1>3 DEF RunningSettled, Trusting
  <2>1. CASE t = s
    BY <2>1
  <2>2. CASE t # s
    BY <1>1, <2>2 DEF RunningSettled, Trusting
  <2> QED
    BY <2>1, <2>2
<1> QED
  BY <1>5, <1>6, <1>7, <1>8, <1>9, <1>10

\* Every action keeps Sound: it begins, goes on with or leaves the work, or has
\* nothing to do with it, or the histories excuse what follows.
LEMMA ShimSoundStep ==
    ASSUME IInv, NEW s \in Shims, Step(s) \/ BreakOff(s)
    PROVE  Sound'
<1> SUFFICES ASSUME ~mixed', ~cut'
    PROVE (OneBundle /\ WorkStays /\ SomeoneFinishes /\ Stamping /\ MarkerSettled /\ RunningSettled)'
  BY DEF Sound
<1> USE ShimsCarryBundles, NonesAreNew
<1>1. ~mixed /\ ~cut
  <2>1. CASE Check(s)
    BY <2>1 DEF Check
  <2>2. CASE NextEntry(s) \/ Reopen(s) \/ Fill(s) \/ Mark(s) \/ Stamp(s) \/ Exec(s)
    BY <2>2 DEF NextEntry, Reopen, Fill, Mark, Stamp, Exec
  <2>3. CASE BreakOff(s)
    BY <2>3 DEF BreakOff
  <2> QED
    BY <2>1, <2>2, <2>3 DEF Step
<1>2. TypeOK /\ Lists /\ OneBundle /\ WorkStays /\ SomeoneFinishes /\ Stamping /\ MarkerSettled /\ RunningSettled
  BY <1>1 DEF IInv, Sound
<1>3. pc \in [Shims -> {"check", "exec"} \cup Busy \cup Ends] /\ BundleOf[s] \in Bundles
  BY <1>2 DEF TypeOK
<1>4. CASE Check(s)
  <2>1. pc[s] = "check" /\ ~IsBusy(s) /\ UNCHANGED <<cur, marker, owner, whole, cut>>
    BY <1>4 DEF Check, IsBusy, Busy, Unfinished
  <2>2. CASE IsCurrent(s) /\ Trust(s) /\ UNCHANGED <<todo, mixed>>
    <3>1. pc' = [pc EXCEPT ![s] = "exec"] /\ pc'[s] = "exec" /\ disturbed \subseteq disturbed'
      BY <1>3, <2>2 DEF Trust, Goto
    <3>2. s \in (Trusting \ disturbed)' => \A o \in Shims : IsBusy(o) => BundleOf[o] = BundleOf[s]
      BY <2>1, <2>2 DEF Trust, Others, Foreign, IsBusy
    <3>3. pc'[s] \notin Busy /\ marker = BundleOf[s]
      BY <2>2, <3>1 DEF Busy, Unfinished, IsCurrent
    <3> QED
      BY <1>2, <2>1, <2>2, <3>1, <3>2, <3>3, IdleGoesOn
  <2>3. CASE /\ pc' = [pc EXCEPT ![s] = "next"]
             /\ todo' = [todo EXCEPT ![s] = FilesOf[BundleOf[s]]]
             /\ mixed' = (mixed \/ \E o \in Others(s) : Foreign(s, o))
             /\ disturbed' = disturbed \cup {o \in Trusting : Foreign(s, o)}
    <3>1. \A o \in Shims : IsBusy(o) => BundleOf[o] = BundleOf[s]
      BY <2>1, <2>3 DEF Others, Foreign, IsBusy
    <3>2. /\ pc'[s] = "next" /\ IsBusy(s)' /\ todo'[s] = FilesOf[BundleOf[s]]
          /\ \A t \in Shims \ {s} : pc'[t] = pc[t] /\ todo'[t] = todo[t] /\ (IsBusy(t)' <=> IsBusy(t))
      BY <1>2, <1>3, <2>3 DEF IsBusy, Busy, Unfinished, TypeOK
    <3>3. \A b, f : Settled(b, f) => Settled(b, f)'
      BY <2>1, <3>2 DEF Settled, Done, Pending
    <3>4. \A b : AllSettled(b) => AllSettled(b)'
      BY <3>3 DEF AllSettled
    <3>5. OneBundle' /\ WorkStays'
      BY <1>2, <3>1, <3>2, <3>3 DEF OneBundle, WorkStays
    <3>6. SomeoneFinishes'
      BY <3>2 DEF SomeoneFinishes, Doomed
    <3>7. Stamping' /\ MarkerSettled'
      BY <1>2, <2>1, <3>2, <3>4 DEF Stamping, MarkerSettled
    <3>8. RunningSettled'
      <4> SUFFICES ASSUME NEW t \in (Trusting \ disturbed)'
                   PROVE  /\ \A o \in Shims : IsBusy(o)' => BundleOf[o] = BundleOf[t]
                          /\ AllSettled(BundleOf[t])
        BY <3>4 DEF RunningSettled
      <4>1. t \in Trusting \ disturbed /\ BundleOf[t] = BundleOf[s]
        BY <2>3, <3>2 DEF Trusting, Foreign
      <4> QED
        BY <1>2, <3>1, <3>2, <4>1 DEF RunningSettled
    <3> QED
      BY <3>5, <3>6, <3>7, <3>8
  <2> QED
    BY <1>4, <2>2, <2>3 DEF Check, Goto
<1>5. CASE NextEntry(s)
  <2>1. PICK g \in todo[s] :
          /\ todo' = [todo EXCEPT ![s] = @ \ {g}] /\ cur' = [cur EXCEPT ![s] = g]
          /\ IF Exists(g) THEN Goto(s, "reopen") /\ owner' = [owner EXCEPT ![g] = NoShim]
                          ELSE Goto(s, "fill") /\ owner' = [owner EXCEPT ![g] = s]
    BY <1>5 DEF NextEntry
  <2>2. IsBusy(s) /\ UNCHANGED <<marker, disturbed>> /\ g \in Files
    BY <1>2, <1>5 DEF NextEntry, IsBusy, Busy, Unfinished, TypeOK
  <2>3. /\ pc'[s] \in Busy /\ pc'[s] # "stamp" /\ ~Doomed(s)'
        /\ \A t \in Shims \ {s} : pc'[t] = pc[t] /\ todo'[t] = todo[t]
    BY <1>2, <2>1, <2>2 DEF TypeOK, Goto, Busy, Unfinished, Doomed
  <2>4. \A f \in todo[s] \ todo'[s] : f = g
    BY <1>2, <2>1 DEF TypeOK
  <2>5. Settled(BundleOf[s], g)'
    BY <1>2, <2>1, <2>2 DEF TypeOK, Goto, Settled, Pending
  <2>6. Step(s)
    BY <1>5 DEF Step
  <2> QED
    BY <1>2, <2>2, <2>3, <2>4, <2>5, <2>6, WorkGoesOn
<1>6. CASE Reopen(s)
  <2>1. /\ pc[s] = "reopen" /\ IsBusy(s) /\ Step(s) /\ s \notin Trusting /\ cur[s] \in Files
        /\ UNCHANGED <<todo, cur, marker, whole, disturbed>>
    BY <1>2, <1>6, ArchivesHaveEntry DEF Reopen, IsBusy, Busy, Unfinished, Step, Trusting, Lists
  <2>2. CASE owner[cur[s]] = NoShim
    <3>1. /\ pc'[s] \in Busy /\ pc'[s] # "stamp" /\ ~Doomed(s)' /\ todo[s] \ todo'[s] = {}
          /\ \A t \in Shims \ {s} : pc'[t] = pc[t] /\ todo'[t] = todo[t]
      BY <1>3, <1>6, <2>1, <2>2 DEF Reopen, Goto, Busy, Unfinished, Doomed
    <3> QED
      BY <1>2, <2>1, <3>1, WorkGoesOn
  <2>3. CASE owner[cur[s]] # NoShim
    <3>1. /\ pc' = [pc EXCEPT ![s] = "failed"] /\ pc'[s] = "failed" /\ UNCHANGED owner /\ Doomed(s)
      BY <1>3, <1>6, <2>1, <2>3 DEF Reopen, Goto, Doomed
    <3>2. \A f : Settled(BundleOf[s], f) => Settled(BundleOf[s], f)'
      BY <1>3, <2>1, <2>3, <3>1 DEF Settled, Done, Pending
    <3>3. s \notin Trusting' /\ pc'[s] \notin Busy
      BY <3>1 DEF Trusting, Busy, Unfinished
    <3> QED
      BY <1>2, <2>1, <3>1, <3>2, <3>3, LeavingGoesOn
  <2> QED
    BY <2>2, <2>3
<1>7. CASE Fill(s) \/ Mark(s)
  <2>1. /\ pc[s] \in {"fill", "mark"} /\ IsBusy(s) /\ Step(s)
        /\ UNCHANGED <<todo, disturbed>> /\ marker' \in {marker, NoBundle}
    BY <1>7 DEF Fill, Mark, IsBusy, Busy, Unfinished, Step
  <2>2. /\ pc'[s] \in Busy /\ ~Doomed(s)' /\ (pc'[s] = "stamp" => marker' = NoBundle)
        /\ \A t \in Shims \ {s} : pc'[t] = pc[t] /\ todo'[t] = todo[t]
    BY <1>3, <1>7, <2>1 DEF Fill, Mark, Goto, Busy, Unfinished, Doomed
  <2> QED
    BY <1>2, <2>1, <2>2, WorkGoesOn
<1>8. CASE Stamp(s)
  <2>1. /\ pc[s] = "stamp" /\ IsBusy(s) /\ marker' = BundleOf[s] /\ disturbed \subseteq disturbed'
        /\ UNCHANGED <<todo, cur, owner, whole>>
        /\ pc' = [pc EXCEPT ![s] = "exec"] /\ pc'[s] = "exec" /\ pc'[s] \notin Busy
    BY <1>3, <1>8 DEF Stamp, Trust, Goto, IsBusy, Busy, Unfinished
  <2>2. AllSettled(BundleOf[s]) /\ marker \in {BundleOf[s], NoBundle}
    BY <1>2, <2>1 DEF WorkStays, Lists, AllSettled, Stamping
  <2>3. \A f : Settled(BundleOf[s], f) => Settled(BundleOf[s], f)'
    BY <1>3, <2>1 DEF Settled, Done, Pending
  <2> QED
    BY <1>2, <2>1, <2>2, <2>3, LeavingGoesOn
<1>9. CASE Exec(s)
  <2>1. /\ pc[s] = "exec" /\ ~IsBusy(s) /\ s \in Trusting
        /\ UNCHANGED <<todo, cur, marker, owner, whole, disturbed>>
    BY <1>9 DEF Exec, IsBusy, Busy, Unfinished, Trusting
  <2>2. pc' = [pc EXCEPT ![s] = pc'[s]] /\ pc'[s] \notin Busy
    BY <1>3, <1>9 DEF Exec, Goto, Busy, Unfinished
  <2> QED
    BY <1>2, <2>1, <2>2, IdleGoesOn
<1>10. CASE BreakOff(s)
  <2>1. PICK end \in {"failed", "killed"} : pc' = [pc EXCEPT ![s] = end]
    BY <1>10 DEF BreakOff, Goto
  <2>2. /\ UNCHANGED <<todo, cur, marker, owner, whole>> /\ pc' = [pc EXCEPT ![s] = pc'[s]]
        /\ pc'[s] \notin Busy /\ s \notin Trusting' /\ disturbed \subseteq disturbed'
    BY <1>3, <1>10, <2>1 DEF BreakOff, Busy, Unfinished, Trusting
  <2>3. CASE pc[s] \in Unfinished
    <3>1. /\ marker' = NoBundle /\ \A o \in Shims : ~IsBusy(o)'
      BY <1>3, <1>10, <2>1, <2>2, <2>3 DEF BreakOff, Others, IsBusy
    <3>2. (Trusting \ disturbed)' = {}
      BY <1>3, <1>10, <2>1, <2>2, <2>3 DEF BreakOff, Trusting
    <3> QED
      BY <3>1, <3>2
         DEF OneBundle, WorkStays, SomeoneFinishes, Stamping, MarkerSettled, RunningSettled, IsBusy,
             Busy, Unfinished
  <2>4. CASE pc[s] = "stamp"
    <3>1. IsBusy(s) /\ AllSettled(BundleOf[s]) /\ marker \in {BundleOf[s], NoBundle}
      BY <1>2, <2>4 DEF WorkStays, Lists, AllSettled, Stamping, IsBusy, Busy, Unfinished
    <3>2. \A f : Settled(BundleOf[s], f) => Settled(BundleOf[s], f)'
      BY <1>3, <2>1, <2>2, <2>4 DEF Settled, Done, Pending
    <3> QED
      BY <1>2, <2>2, <3>1, <3>2, LeavingGoesOn
  <2>5. CASE pc[s] \in {"check", "exec"}
    <3>1. ~IsBusy(s)
      BY <2>5 DEF IsBusy, Busy, Unfinished
    <3> QED
      BY <1>2, <2>2, <3>1, IdleGoesOn
  <2> QED
    BY <1>10, <2>3, <2>4, <2>5 DEF BreakOff, Busy
<1> QED
  BY <1>4, <1>5, <1>6, <1>7, <1>8, <1>9, <1>10 DEF Step

-----------------------------------------------------------------------------
\* The invariant holds of every execution.
LEMMA ShimInvariant == Spec => []IInv
<1>1. Init => IInv
  BY ShimInit
<1>2. IInv /\ [Next]_vars => IInv'
  <2> SUFFICES ASSUME IInv, [Next]_vars PROVE IInv'
    OBVIOUS
  <2>1. CASE Next
    <3>1. PICK s \in Shims : Step(s) \/ BreakOff(s)
      BY <2>1 DEF Next
    <3>2. TypeOK /\ Lists
      BY DEF IInv
    <3> QED
      BY <3>1, <3>2, ShimTypesStep, ShimListsStep, ShimSoundStep DEF IInv
  <2>2. CASE UNCHANGED vars
    <3>1. TypeOK' /\ Lists'
      BY <2>2 DEF IInv, vars, TypeOK, Lists, IsBusy
    <3>2. Sound'
      BY <2>2 DEF IInv, vars, Sound, OneBundle, WorkStays, SomeoneFinishes, Stamping,
         MarkerSettled, RunningSettled, AllSettled, Settled, Done, Pending, Doomed, Trusting, IsBusy
    <3> QED
      BY <3>1, <3>2 DEF IInv
  <2> QED
    BY <2>1, <2>2
<1> QED
  BY <1>1, <1>2, PTL DEF Spec

\* run: a shim is always at one of its steps, over files of the archives.
THEOREM ShimTypes == Spec => []TypeOK
<1>1. IInv => TypeOK
  BY DEF IInv
<1> QED
  BY <1>1, ShimInvariant, PTL

\* run: once nobody unpacks, the marker names a bundle whose files are all
\* there, whole and its own, for any number of launches of any number of
\* versions, in any order of their steps, failures and kills included: unless
\* two versions were unpacked at a time, or an unpack broke off over files
\* that others trusted.
THEOREM ShimMarkerTrue == Spec => []MarkerTrue
<1>1. IInv => MarkerTrue
  <2> SUFFICES ASSUME IInv, \A s \in Shims : ~IsBusy(s), ~mixed, ~cut, marker # NoBundle
               PROVE  Complete(marker)
    BY DEF MarkerTrue, IsBusy
  <2>1. AllSettled(marker)
    BY DEF IInv, TypeOK, Sound, MarkerSettled
  <2>2. \A b, f : ~Pending(b, f)
    BY DEF Pending, IsBusy, Busy, Unfinished
  <2> QED
    BY <2>1, <2>2 DEF AllSettled, Settled, Done, Complete
<1> QED
  BY <1>1, ShimInvariant, PTL

\* run, exec_entry: a shim execs and runs from the whole of its own bundle,
\* though it decided by the marker earlier, with the same exceptions, and but
\* for shims that were on to exec when another version was unpacked or an
\* unpack broke off.
THEOREM ShimRunsItsVersion == Spec => []RunsItsVersion
<1>1. IInv => RunsItsVersion
  <2> SUFFICES ASSUME IInv, ~mixed, ~cut, NEW s \in Trusting \ disturbed, Others(s) = {}
               PROVE  Complete(BundleOf[s])
    BY DEF RunsItsVersion
  <2>1. AllSettled(BundleOf[s])
    BY DEF IInv, Sound, RunningSettled
  <2>2. \A t \in Shims : ~IsBusy(t)
    BY DEF Others, Trusting, IsBusy, Busy, Unfinished
  <2>3. \A b, f : ~Pending(b, f)
    BY <2>2 DEF Pending, IsBusy, Busy, Unfinished
  <2> QED
    BY <2>1, <2>3 DEF AllSettled, Settled, Done, Complete
<1> QED
  BY <1>1, ShimInvariant, PTL
=============================================================================
