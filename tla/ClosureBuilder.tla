---------------------------- MODULE ClosureBuilder ----------------------------
(***************************************************************************)
(* How ClosureBuilder of sidebundle-closure/src/lib.rs finds what entries  *)
(* need in one root: it runs the dynamic linker on an ELF file, and again  *)
(* on every library that this lists; it reads the shebang of a script and, *)
(* for a shell, looks for the commands the script names, which may be      *)
(* scripts themselves; and it does the same for the ELF files of a trace.  *)
(* All of these put files into one map from sources to destinations.  What *)
(* comes out of it for an entry is a plan: its linker, and the directories *)
(* that the launcher puts into LD_LIBRARY_PATH, in the order of their      *)
(* names.                                                                  *)
(*                                                                         *)
(* A path is <<directory, name>>; programs and scripts are in Bin.  The    *)
(* destination of a file of the root is its path there.  The linker itself *)
(* is external: Listed is what `ld.so --list` prints.  Not here: the cache *)
(* of its output, which is keyed by all that a run depends on; the parsing *)
(* of ELF headers, shebangs and commands; $ORIGIN and the LD_LIBRARY_PATH  *)
(* of the user; links to the linker, and its own line in what it lists;    *)
(* the resources and the links of a trace (BundleAssembly has these).      *)
(***************************************************************************)
EXTENDS Naturals, SequencesExt

CONSTANTS
    Dirs,        \* the directories, in the order of their names
    Bin,         \* where programs and scripts are
    Defaults,    \* DEFAULT_LIBRARY_DIRS
    Libs,        \* names of libraries
    Filtered,    \* those classify_high_risk_asset names
    Programs,    \* names of programs
    Scripts,     \* names of scripts
    Shell,       \* the program called bash or sh
    Ld,          \* the path of the linker: PT_INTERP of every program
    HostLd,      \* a linker of the host
    NoPath,      \* no file
    Families     \* sets of roots and command lines to look at

LibPaths == Range(Dirs) \X Libs
ProgPaths == {Bin} \X Programs
ScriptPaths == {Bin} \X Scripts
Elves == LibPaths \cup ProgPaths

Roots ==
    [at      : [LibPaths -> LibPaths \cup {NoPath}],   \* what a path leads to
     needs   : [Elves -> SUBSET Libs],                 \* DT_NEEDED
     runpath : [Elves -> Seq(Range(Dirs))],
     static  : SUBSET ProgPaths,                       \* no PT_INTERP
     orphans : SUBSET ProgPaths,                       \* PT_INTERP leads nowhere
     garbled : SUBSET LibPaths,                        \* load_metadata fails
     broken  : SUBSET Elves,                           \* the linker fails on it
     strays  : SUBSET LibPaths,                        \* listed, but not to be canonicalized
     shebang : [ScriptPaths -> ProgPaths \cup {NoPath}],
     calls   : [ScriptPaths -> SUBSET (ProgPaths \cup ScriptPaths)],
     stub    : BOOLEAN,                                \* Ld is a gcompat stub
     hostLd  : BOOLEAN,                                \* the host has glibc
     before  : BOOLEAN,                                \* Ld sorts before HostLd
     entries : Seq(ProgPaths \cup ScriptPaths) \ {<<>>},
     traced  : Seq(Elves \cup {Ld})]                   \* let pass under some name

\* Links lead to files, and what was traced as an ELF file could be parsed and
\* is the file, not a link to it.
System ==
    {r \in Roots : /\ \A p \in LibPaths : r.at[p] # NoPath => r.at[r.at[p]] = r.at[p]
                  /\ \A t \in Range(r.traced) \cap LibPaths : r.at[t] = t /\ t \notin r.garbled}

ASSUME PathsAreKnown ==
    /\ Dirs \in Seq(Range(Dirs)) /\ IsInjective(Dirs)
    /\ {Bin, Ld[1]} \subseteq Range(Dirs) /\ Defaults \in Seq(Range(Dirs))
    /\ Ld \notin Elves \cup ScriptPaths /\ HostLd \notin Elves \cup ScriptPaths \cup {Ld}
    /\ NoPath \notin Elves \cup ScriptPaths \cup {Ld, HostLd}
    /\ IsFiniteSet(Scripts) /\ IsFiniteSet(Libs) /\ Shell \in Programs
    /\ Programs \cap Scripts = {} /\ (Programs \cup Scripts) \cap Libs = {}
    /\ {Ld[2], HostLd[2]} \cap Filtered = {}

ASSUME FamiliesAreKnown == \A family \in Families : family \subseteq System

VARIABLES
    sys,         \* the root, what is asked, what was traced
    stage,       \* entries, traced, done, failed
    todo,        \* entries, then traced ELF files, still to be dealt with
    stack,       \* the activations of build_entry_plan, the innermost first
    files,       \* the map from sources to destinations
    aliases,     \* runtime_aliases: sources and more paths for them
    scanned,     \* scanned_scripts
    plans        \* entry_plans

vars == <<sys, stage, todo, stack, files, aliases, scanned, plans>>

Sources == Elves \cup ScriptPaths \cup {Ld, HostLd}
Places  == Sources \ {HostLd}      \* the host's linker comes to another's place
Frame ==
    [subject : Elves \cup {Ld}, script : ScriptPaths \cup {NoPath}, phase : {"link", "scan"},
     queue : SUBSET (Elves \cup {Ld}), visited : SUBSET (Elves \cup {Ld}), dirs : SUBSET Range(Dirs),
     linker : {Ld, HostLd, NoPath}, cmds : SUBSET (ProgPaths \cup ScriptPaths)]
Plan ==
    [subject : ProgPaths, script : ScriptPaths \cup {NoPath}, dirs : SUBSET Range(Dirs),
     linker : {Ld, HostLd, NoPath}]

\* The state: files for known places, activations and plans as declared.
TypeOK ==
    /\ sys \in System
    /\ stage \in {"entries", "traced", "done", "failed"}
    /\ todo \in Seq(Elves \cup ScriptPaths \cup {Ld})
    /\ stack \in Seq(Frame)
    /\ DOMAIN files \subseteq Sources /\ Range(files) \subseteq Places
    /\ aliases \subseteq Sources \X Places
    /\ scanned \subseteq ScriptPaths
    /\ plans \in Seq(Plan)

Init ==
    /\ \E family \in Families : sys \in family
    /\ stage = "entries" /\ todo = sys.entries
    /\ stack = <<>> /\ plans = <<>>
    /\ files = <<>> /\ aliases = {} /\ scanned = {}

-----------------------------------------------------------------------------
(* The dynamic linker.                                                     *)

First(n, dirs) ==
    LET there == {i \in DOMAIN dirs : sys.at[<<dirs[i], n>>] # NoPath}
    IN  IF there = {} THEN NoPath ELSE <<dirs[Min(there)], n>>

\* compute_search_paths
SearchPaths(f) == sys.runpath[f] \o <<f[1]>> \o Defaults

\* The libraries of subject, by name: each is looked up once, in the search
\* path, then in the RUNPATH of a library that needs it.
Needing(subject, L, n) ==
    {p \in {subject} \cup {sys.at[q] : q \in Range(L) \ {NoPath}} : n \in sys.needs[p]}

Found(subject, path, L, n) ==
    LET own == {First(n, sys.runpath[p]) : p \in Needing(subject, L, n)} \ {NoPath}
    IN  IF First(n, path) # NoPath THEN First(n, path)
        ELSE IF own = {} THEN NoPath ELSE CHOOSE p \in own : TRUE

More(subject, path, L) ==
    [n \in DOMAIN L \cup {m \in Libs : Needing(subject, L, m) # {}} |->
        IF n \in DOMAIN L THEN L[n] ELSE Found(subject, path, L, n)]

Listed(subject, path) ==
    LET list[k \in 0..Cardinality(Libs)] ==
            IF k = 0 THEN <<>> ELSE More(subject, path, list[k - 1])
    IN  list[Cardinality(Libs)]

\* trace_with_linker, if it ends well: of a stub that cannot list, nothing.
Traced(f) ==
    IF sys.stub \/ sys.needs[f] = {} THEN <<>> ELSE Listed(f, SearchPaths(f))
Missing(list) == NoPath \in Range(list)

\* It is an error that f cannot be parsed, that the linker cannot be run on it
\* (Spawn, InvalidPath, CommandFailed), where it is run at all, or finds a
\* library missing.
Fails(f) ==
    \/ f \in sys.garbled
    \/ sys.needs[f] # {} /\ f \in sys.broken
    \/ Missing(Traced(f))

\* And it is one that a listed path is not one of the root.
Breaks(f) == Fails(f) \/ Range(Traced(f)) \cap sys.strays # {}

\* What has been dealt with of the list when that happens: the order is the
\* linker's affair.
Partial(f) ==
    IF Fails(f) THEN {<<>>}
    ELSE {Restrict(Traced(f), names) :
            names \in SUBSET {n \in DOMAIN Traced(f) : Traced(f)[n] \notin sys.strays}}

-----------------------------------------------------------------------------
(* The files.                                                              *)

\* filter_reason has nothing against it.
Clean(src) == src[2] \notin Filtered

\* Files that are in the map already stay where they are.
Ensure(fs, srcs) == [s \in DOMAIN fs \cup srcs |-> IF s \in DOMAIN fs THEN fs[s] ELSE s]

\* A library, under the path it was found at and under its name beside the
\* file that this leads to.
FoundAt(src, path) == {<<src, path>>} \ {<<src, src>>}    \* mutant: only the former
Aliases(src, path) == {<<src, path>>, <<src, <<src[1], path[2]>>>>} \ {<<src, src>>}

\* What a list puts into the bundle: files, in directories, under more paths.
Bundled(list) == {n \in DOMAIN list : Clean(sys.at[list[n]])}
FilesOf(list) == {sys.at[list[n]] : n \in Bundled(list)}
DirsOf(fs, srcs) == {fs[s][1] : s \in srcs}
AliasesOf(list) == UNION {Aliases(sys.at[list[n]], list[n]) : n \in Bundled(list)}

Gather(list) ==
    /\ files' = Ensure(files, FilesOf(list))
    /\ aliases' = aliases \cup AliasesOf(list)

-----------------------------------------------------------------------------
(* build_entry_plan, for one path at a time.                               *)

LinkerOf(subject) == IF subject \in sys.static \cup LibPaths \cup {Ld} THEN NoPath ELSE Ld
Orphan(subject) == LinkerOf(subject) = Ld /\ subject \in sys.orphans

\* Mutant: what is in the map is taken to be dealt with.
FrameKnowing(subject, script, fs) ==
    [subject |-> subject, script |-> script, phase |-> "link",
     queue |-> {subject}, visited |-> DOMAIN fs \cap (Elves \cup {Ld}), dirs |-> {fs[subject][1]},
     linker |-> LinkerOf(subject), cmds |-> {}]

NewFrame(subject, script, fs) ==
    [subject |-> subject, script |-> script, phase |-> "link",
     queue |-> {subject}, visited |-> {}, dirs |-> {fs[subject][1]},
     linker |-> LinkerOf(subject), cmds |-> {}]

\* A script without an interpreter cannot be planned.
Plannable(p) == p \in ScriptPaths => sys.shebang[p] # NoPath

\* An error ends the command whose dependencies are looked for, or the build:
\* everything below the innermost activation scans a script.  What was put
\* into the map before it stays there.
BreakMore(below) ==                     \* mutant: back to the outermost script
    IF below = <<>> THEN stage' = "failed" /\ stack' = <<>>
    ELSE stage' = stage /\ stack' = <<below[Len(below)]>>
Break(below) ==
    IF below = <<>> THEN stage' = "failed" /\ stack' = <<>>
    ELSE stage' = stage /\ stack' = below

\* The subject is put into the map before its interpreter is looked at.
Enter(p, below) ==
    LET subject == IF p \in ScriptPaths THEN sys.shebang[p] ELSE p
        script  == IF p \in ScriptPaths THEN p ELSE NoPath
        fs      == Ensure(files, {subject})
        frame   == NewFrame(subject, script, fs)
    IN  IF Orphan(subject)
        THEN files' = fs /\ Break(below)
        ELSE /\ files' = IF frame.linker = NoPath THEN fs ELSE Ensure(fs, {Ld})
             /\ stack' = <<frame>> \o below
             /\ UNCHANGED stage

\* The frame is done: the plan of an entry is kept, others are not.
Leave(frame) ==
    /\ stack' = Tail(stack)
    /\ plans' = IF Len(stack) > 1 \/ stage # "entries" THEN plans
                ELSE Append(plans, [subject |-> frame.subject, script |-> frame.script,
                                    dirs |-> frame.dirs, linker |-> frame.linker])

Begin ==
    /\ stage \in {"entries", "traced"} /\ stack = <<>> /\ todo # <<>>
    /\ todo' = Tail(todo)
    /\ IF Plannable(Head(todo)) THEN Enter(Head(todo), <<>>)
       ELSE Break(<<>>) /\ UNCHANGED files
    /\ UNCHANGED <<sys, aliases, scanned, plans>>

Top == Head(stack)
Linking == stack # <<>> /\ Top.phase = "link"

\* One round of the search: an ELF file from the queue.  Its order is that of
\* the list, which is the linker's affair.
Visit ==
    /\ Linking
    /\ \E f \in Top.queue :
         LET idle == f \in Top.visited \/ Top.linker = NoPath
             list == IF idle THEN <<>> ELSE Traced(f)
             srcs == FilesOf(list)
         IN  IF ~idle /\ Breaks(f)
             THEN /\ \E part \in Partial(f) : Gather(part)
                  /\ Break(Tail(stack))
             ELSE /\ Gather(list)
                  /\ stack' = [stack EXCEPT ![1] =
                       [Top EXCEPT !.queue = (Top.queue \ {f}) \cup srcs,
                                   !.visited = Top.visited \cup {f},
                                   !.dirs = Top.dirs \cup DirsOf(Ensure(files, srcs), srcs)]]
                  /\ UNCHANGED stage
    /\ UNCHANGED <<sys, todo, scanned, plans>>

\* The linker of the host takes the place of a stub.
Substituted == Top.linker = Ld /\ sys.stub /\ sys.hostLd
DestOfLd(fs) == IF Ld \in DOMAIN fs THEN fs[Ld] ELSE Ld

\* Mutants: the stub stays; the linker keeps its own path.
BesideStub(fs) ==
    [s \in DOMAIN fs \cup {HostLd} |-> IF s = HostLd THEN DestOfLd(fs) ELSE fs[s]]
AtItsOwnPath(fs) ==
    [s \in (DOMAIN fs \ {Ld}) \cup {HostLd} |-> IF s = HostLd THEN HostLd ELSE fs[s]]

InPlaceOfStub(fs) ==
    [s \in (DOMAIN fs \ {Ld}) \cup {HostLd} |-> IF s = HostLd THEN DestOfLd(fs) ELSE fs[s]]

\* The binary is done.  A script of a shell is scanned, but never twice.
ToScan(s) == s # NoPath /\ Top.subject = <<Bin, Shell>>     \* mutant: again and again
NewToScan(s) == s # NoPath /\ Top.subject = <<Bin, Shell>> /\ s \notin scanned

EndBinary ==
    /\ Linking /\ Top.queue = {}
    /\ LET fs   == IF Substituted THEN InPlaceOfStub(files) ELSE files
           done == [Top EXCEPT !.linker = IF Substituted THEN HostLd
                                          ELSE IF sys.stub THEN NoPath ELSE Top.linker]
       IN  /\ files' = IF Top.script = NoPath THEN fs ELSE Ensure(fs, {Top.script})
           /\ IF NewToScan(Top.script)
              THEN /\ stack' = [stack EXCEPT ![1] = [done EXCEPT !.phase = "scan",
                                                                 !.cmds = sys.calls[Top.script]]]
                   /\ scanned' = scanned \cup {Top.script}
                   /\ UNCHANGED plans
              ELSE Leave(done) /\ UNCHANGED scanned
    /\ UNCHANGED <<sys, stage, todo, aliases>>

Scanning == stack # <<>> /\ Top.phase = "scan"

\* The commands come in any order; one that has no plan is passed over.
ScanCommand ==
    /\ Scanning
    /\ \E c \in Top.cmds :
         LET rest == [stack EXCEPT ![1].cmds = @ \ {c}]
         IN  IF Plannable(c) THEN Enter(c, rest)
             ELSE Break(rest) /\ UNCHANGED files
    /\ UNCHANGED <<sys, todo, aliases, scanned, plans>>

EndScan ==
    /\ Scanning /\ Top.cmds = {}
    /\ Leave(Top)
    /\ UNCHANGED <<sys, stage, todo, files, aliases, scanned>>

\* promote_traced_elves, after the last entry.
EndEntries ==
    /\ stage = "entries" /\ stack = <<>> /\ todo = <<>>
    /\ stage' = "traced" /\ todo' = sys.traced
    /\ UNCHANGED <<sys, stack, files, aliases, scanned, plans>>

\* Of two sources for a destination the first in order is kept.
Kept(fs) ==
    LET clash == {Ld, HostLd} \subseteq DOMAIN fs /\ fs[Ld] = fs[HostLd]
        loser == IF ~clash THEN {} ELSE IF sys.before THEN {HostLd} ELSE {Ld}
    IN  [s \in {c \in DOMAIN fs : Clean(c)} \ loser |-> fs[s]]

Finish ==
    /\ stage = "traced" /\ stack = <<>> /\ todo = <<>>
    /\ stage' = "done"
    /\ files' = Kept(files)
    /\ UNCHANGED <<sys, todo, stack, aliases, scanned, plans>>

Next ==
    Begin \/ Visit \/ EndBinary \/ ScanCommand \/ EndScan \/ EndEntries \/ Finish

Spec == Init /\ [][Next]_vars

-----------------------------------------------------------------------------
(* What the bundle owes the entries.                                       *)

\* The sources that the bundle has at a path, as a file or as an alias.
PlacedAt(p) == {s \in DOMAIN files : files[s] = p \/ <<s, p>> \in aliases}

\* What the linker that a launcher starts would take for a name.
Picked(dirs, n) ==
    LET there == {i \in DOMAIN Dirs : Dirs[i] \in dirs /\ PlacedAt(<<Dirs[i], n>>) # {}}
    IN  IF there = {} THEN {} ELSE PlacedAt(<<Dirs[Min(there)], n>>)

\* Paths with this name lead to different files.
Ambiguous(n) == \E d, e \in Range(Dirs) : sys.at[<<d, n>>] # sys.at[<<e, n>>]
                    /\ NoPath \notin {sys.at[<<d, n>>], sys.at[<<e, n>>]}

\* With nothing but the directories of a plan, which it gets in the order of
\* their names, the linker finds every library of the entry, also one found
\* through symbolic links or needed by libraries only, and finds the file that
\* was found in the root unless that has several of the name (build_binary_plan,
\* library_dirs and aliases).
LibrariesFound ==
    stage = "done" =>
      \A i \in DOMAIN plans :
        LET list == Traced(plans[i].subject)
        IN  plans[i].linker # NoPath =>
              \A n \in DOMAIN list :
                Clean(sys.at[list[n]]) =>
                  /\ Picked(plans[i].dirs, n) # {}
                  /\ Ambiguous(n) \/ sys.at[list[n]] \in Picked(plans[i].dirs, n)

\* A stub that was replaced comes back: the trace has it itself, or the linker
\* fails on a program, which puts the stub into the map and breaks off.
StubBack ==
    \/ Ld \in Range(sys.traced)
    \/ \E p \in ProgPaths \ (sys.static \cup sys.orphans) : Breaks(p)

\* The linker that a plan names is in the bundle in the end, whatever later
\* entries and traces do to its destination.  It is not if a stub comes back
\* that comes before it in the order of sources (the substitution and the error
\* paths of build_binary_plan, the destinations in build).
LinkerServes ==
    stage = "done" =>
      \A i \in DOMAIN plans :
        plans[i].linker # NoPath =>
          \/ plans[i].linker \in DOMAIN files
          \/ plans[i].linker = HostLd /\ sys.before /\ StubBack

\* A program in the bundle has there all that the linker lists for it: entries,
\* interpreters, traced programs and the commands of scripts, also when others
\* of these fail, and when it fails itself by a library of its libraries.  What
\* is excepted is a program that no entry is, and that cannot be listed: its
\* PT_INTERP or a library is not there, or the linker fails on it; as a command
\* of a script it stays without its libraries (build_entry_plan, its callers).
ProgramsHaveLibraries ==
    stage = "done" =>
      \A p \in (DOMAIN files \cap ProgPaths) \ sys.static :
        \/ (Orphan(p) \/ Breaks(p)) /\ \A i \in DOMAIN plans : plans[i].subject # p
        \/ /\ ~Missing(Traced(p))
           /\ {q \in {sys.at[l] : l \in Range(Traced(p))} : Clean(q)} \subseteq DOMAIN files

\* Every command of every script scanned is in the bundle, however they call
\* each other and whatever fails, unless it is a script with an interpreter
\* that no entry uses, which may fail itself (collect_bash_dependencies).
ScannedComplete ==
    stage = "done" =>
      \A s \in scanned : \A c \in sys.calls[s] :
        \/ c \in DOMAIN files
        \/ ~Clean(c)
        \/ c \in ScriptPaths /\ \A i \in DOMAIN plans : plans[i].subject # sys.shebang[c]

\* Scripts that call each other are not followed for ever: there is one
\* activation for each script at most, and one more (scanned_scripts).
NestingBounded == Len(stack) <= Cardinality(ScriptPaths) + 1
=============================================================================
