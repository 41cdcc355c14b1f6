----------------------------- MODULE ShimExtract -----------------------------
(***************************************************************************)
(* The shims of sidebundle-shim/src/main.rs: single files that carry the   *)
(* archive of a bundle, unpack it into an extraction directory and exec    *)
(* the entry they find there.  All bundles of one name share a directory   *)
(* (~/.cache/sidebundle/<bundle-name>), whatever their contents, and so do *)
(* all launches of their shims: nothing locks it.  A marker file holds the *)
(* digest of the archive that was unpacked last; a shim whose digest it    *)
(* holds unpacks nothing.                                                  *)
(*                                                                         *)
(* Archive::unpack is the tar crate's: it takes the entries in order, and  *)
(* replaces a file by unlinking it and creating it anew (create_new).  A   *)
(* file that was unlinked under its writer is written to no avail.         *)
(***************************************************************************)
EXTENDS Naturals

CONSTANTS
    Shims,       \* launches of shims
    Bundles,     \* bundles of one name, each with its digest
    BundleOf,    \* BundleOf[s]: the bundle shim s carries
    Files,       \* file names in the archives
    FilesOf,     \* FilesOf[b]: those of bundle b
    EntryFile,   \* bin/<entry_name>, in every archive
    NoBundle,    \* no marker, or an empty one
    NoShim,      \* a file that does not exist
    NoFile       \* no entry is being unpacked

ASSUME ShimsCarryBundles == BundleOf \in [Shims -> Bundles]
ASSUME ArchivesHaveEntry ==
    FilesOf \in [Bundles -> SUBSET Files] /\ \A b \in Bundles : EntryFile \in FilesOf[b]
ASSUME NonesAreNew == NoBundle \notin Bundles /\ NoShim \notin Shims /\ NoFile \notin Files

VARIABLES
    pc,          \* pc[s]: the next step of s
    todo,        \* todo[s]: the archive entries s has still to unpack
    cur,         \* cur[s]: the one it is unpacking
    marker,      \* the digest in the marker file
    owner,       \* owner[f]: the shim that created the file f names now
    whole,       \* files whose owner has written all of them
    mixed,       \* history: two bundles were unpacked at the same time
    cut,         \* history: an unpack broke off over files that others trusted
    disturbed    \* history: shims that had decided to exec when another bundle was
                 \* unpacked, or an unpack broke off

vars == <<pc, todo, cur, marker, owner, whole, mixed, cut, disturbed>>

Unfinished == {"next", "reopen", "fill", "mark"}   \* the old marker still stands
Busy       == Unfinished \cup {"stamp"}
Ends       == {"running", "failed", "killed"}

TypeOK ==
    /\ pc \in [Shims -> {"check", "exec"} \cup Busy \cup Ends]
    /\ todo \in [Shims -> SUBSET Files]
    /\ cur \in [Shims -> Files \cup {NoFile}]
    /\ marker \in Bundles \cup {NoBundle}
    /\ owner \in [Files -> Shims \cup {NoShim}]
    /\ whole \subseteq Files
    /\ mixed \in BOOLEAN /\ cut \in BOOLEAN /\ disturbed \subseteq Shims

Init ==
    /\ pc = [s \in Shims |-> "check"]
    /\ todo = [s \in Shims |-> {}]
    /\ cur = [s \in Shims |-> NoFile]
    /\ marker = NoBundle
    /\ owner = [f \in Files |-> NoShim]
    /\ whole = {}
    /\ mixed = FALSE
    /\ cut = FALSE
    /\ disturbed = {}

-----------------------------------------------------------------------------
Goto(s, step) == pc' = [pc EXCEPT ![s] = step]

Others(s) == {o \in Shims \ {s} : pc[o] \in Busy}

\* Shims that exec or run what the directory has.
Trusting == {s \in Shims : pc[s] \in {"exec", "running"}}
Foreign(s, o) == BundleOf[o] # BundleOf[s]

\* s goes on to exec, while others may be unpacking.
Trust(s) ==
    /\ Goto(s, "exec")
    /\ disturbed' = disturbed \cup (IF \E o \in Others(s) : Foreign(s, o) THEN {s} ELSE {})

\* existing.trim() == digest
AnyMarker(s) == marker # NoBundle     \* mutant: that there is a marker is enough
IsCurrent(s) == marker = BundleOf[s]

\* The marker decides whether s unpacks, unless SIDEBUNDLE_FORCE_EXTRACT is 1.
Check(s) ==
    /\ pc[s] = "check"
    /\ \E forced \in BOOLEAN :
         IF ~forced /\ IsCurrent(s)
         THEN Trust(s) /\ UNCHANGED <<todo, mixed>>
         ELSE /\ Goto(s, "next")
              /\ todo' = [todo EXCEPT ![s] = FilesOf[BundleOf[s]]]
              /\ mixed' = (mixed \/ \E o \in Others(s) : Foreign(s, o))
              /\ disturbed' = disturbed \cup {o \in Trusting : Foreign(s, o)}
    /\ UNCHANGED <<cur, marker, owner, whole, cut>>

Exists(f) == owner[f] # NoShim

\* mutant: a file that is there already is kept
NextEntryKept(s) ==
    /\ pc[s] = "next"
    /\ \E f \in todo[s] :
         /\ todo' = [todo EXCEPT ![s] = @ \ {f}]
         /\ cur' = [cur EXCEPT ![s] = f]
         /\ Goto(s, "fill")
         /\ IF Exists(f) THEN UNCHANGED <<owner, whole>>
            ELSE owner' = [owner EXCEPT ![f] = s] /\ whole' = whole \ {f}
    /\ UNCHANGED <<marker, mixed, cut, disturbed>>

\* The next entry, in any order: open it with create_new, or unlink the file
\* of that name first.
NextEntry(s) ==
    /\ pc[s] = "next"
    /\ \E f \in todo[s] :
         /\ todo' = [todo EXCEPT ![s] = @ \ {f}]
         /\ cur' = [cur EXCEPT ![s] = f]
         /\ whole' = whole \ {f}
         /\ IF Exists(f)
            THEN Goto(s, "reopen") /\ owner' = [owner EXCEPT ![f] = NoShim]
            ELSE Goto(s, "fill") /\ owner' = [owner EXCEPT ![f] = s]
    /\ UNCHANGED <<marker, mixed, cut, disturbed>>

\* create_new again: it fails when another shim created the file meanwhile.
Reopen(s) ==
    /\ pc[s] = "reopen"
    /\ IF owner[cur[s]] = NoShim
       THEN Goto(s, "fill") /\ owner' = [owner EXCEPT ![cur[s]] = s]
       ELSE Goto(s, "failed") /\ UNCHANGED owner
    /\ UNCHANGED <<todo, cur, marker, whole, mixed, cut, disturbed>>

\* The last write to the file s created, if a path still leads to it.
Fill(s) ==
    /\ pc[s] = "fill"
    /\ whole' = IF owner[cur[s]] = s THEN whole \cup {cur[s]} ELSE whole
    /\ cur' = [cur EXCEPT ![s] = NoFile]
    /\ Goto(s, IF todo[s] = {} THEN "mark" ELSE "next")
    /\ UNCHANGED <<todo, marker, owner, mixed, cut, disturbed>>

\* fs::write(&marker): truncate it, then write the digest.
Mark(s) ==
    /\ pc[s] = "mark"
    /\ marker' = NoBundle
    /\ Goto(s, "stamp")
    /\ UNCHANGED <<todo, cur, owner, whole, mixed, cut, disturbed>>

StampShim(s) ==                       \* mutant: not the digest of the archive
    /\ pc[s] = "stamp"
    /\ marker' = s
    /\ Trust(s)
    /\ UNCHANGED <<todo, cur, owner, whole, mixed, cut>>
Stamp(s) ==
    /\ pc[s] = "stamp"
    /\ marker' = BundleOf[s]
    /\ Trust(s)
    /\ UNCHANGED <<todo, cur, owner, whole, mixed, cut>>

\* exec_entry: an entry that is missing or half written does not run.
Exec(s) ==
    /\ pc[s] = "exec"
    /\ Goto(s, IF EntryFile \in whole THEN "running" ELSE "failed")
    /\ UNCHANGED <<todo, cur, marker, owner, whole, mixed, cut, disturbed>>

\* An error of unpack or of a write, or a kill, wherever s is.  Breaking off
\* matters to others when the marker vouches for the files, or when another
\* shim is about to.
BreakOff(s) ==
    /\ pc[s] \in {"check", "exec"} \cup Busy
    /\ \E end \in {"failed", "killed"} : Goto(s, end)
    /\ cut' = (cut \/ (pc[s] \in Unfinished /\ (marker # NoBundle \/ Others(s) # {})))
    /\ disturbed' = IF pc[s] \in Unfinished THEN disturbed \cup Trusting ELSE disturbed
    /\ UNCHANGED <<todo, cur, marker, owner, whole, mixed>>

Step(s) ==
    Check(s) \/ NextEntry(s) \/ Reopen(s) \/ Fill(s) \/ Mark(s) \/ Stamp(s) \/ Exec(s)

Next == \E s \in Shims : Step(s) \/ BreakOff(s)

Spec == Init /\ [][Next]_vars

-----------------------------------------------------------------------------
Complete(b) ==
    \A f \in FilesOf[b] : f \in whole /\ BundleOf[owner[f]] = b

\* A marker tells the truth about the directory once nobody unpacks into it,
\* for shims that unpack one after the other, for shims of one bundle that
\* unpack at the same time, and after a first unpack that broke off.  (Two
\* bundles at once, and an unpack that breaks off over a directory that is in
\* use, can leave a marker that lies: nothing in the code prevents it.)
MarkerTrue ==
    (\A s \in Shims : pc[s] \notin Busy) /\ ~mixed /\ ~cut /\ marker # NoBundle
        => Complete(marker)

\* What a shim execs and then runs from is its own bundle, all of it, though it
\* decided by the marker before: unless another bundle was unpacked since or
\* an unpack broke off.  Shims of its own bundle that unpack disturb it only
\* while they do.
RunsItsVersion ==
    ~mixed /\ ~cut =>
        \A s \in Trusting \ disturbed : Others(s) = {} => Complete(BundleOf[s])
=============================================================================
