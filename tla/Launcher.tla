------------------------------- MODULE Launcher -------------------------------
(***************************************************************************)
(* From the plans of entries to running entries: the configurations that   *)
(* write_launchers of sidebundle-packager writes, the verdict of           *)
(* BundleValidator on the bundle, and what sidebundle-launcher makes of a  *)
(* configuration and of the environment it is started with.  An entry that *)
(* runs on the host may start entries itself, of its own bundle or of      *)
(* another one: these inherit what the launcher put into its environment.  *)
(* In run mode chroot the launchers of a bundle go through PayloadData     *)
(* before they enter the payload.                                          *)
(*                                                                         *)
(* A path is a sequence of names.  An absolute one starts with "/"; the    *)
(* destinations in plans start with "payload".  The variables kept of an   *)
(* environment are JAVA_HOME (which GOROOT and PYTHONHOME resemble),       *)
(* PYTHONPATH, PATH and LD_LIBRARY_PATH; an unset one is empty.  "lib"     *)
(* beside a home or a directory of programs stands for lib and lib/server. *)
(***************************************************************************)
EXTENDS PayloadData, Sequences, SequencesExt, FiniteSetsExt

CONSTANTS
    FileNames,   \* names of files, directories and bundles
    Setups,      \* the bundles and machines to look at
    NoMeta,      \* no environment was recorded: the launcher's own is used
    NoScript,    \* an entry that is a binary
    User,        \* started by the user
    Commands     \* names of programs that entries call

ASSUME NamesInUse == {"/", "payload", "lib", "usr", "bin"} \subseteq FileNames

Path == Seq(FileNames)
Env  == [home : Path, pypath : Seq(Path), path : Seq(Path), libs : Seq(Path)]
Plan ==
    [name : STRING, program : Path, script : Path \cup {NoScript}, dynamic : BOOLEAN,
     linker : Path, dirs : Seq(Path), meta : Env \cup {NoMeta},
     interp : Path,              \* PT_INTERP of the program
     needs  : SUBSET FileNames]     \* the libraries it needs, directly or not
Bundle ==
    [plans : Seq(Plan), tree : SUBSET Path, stub : BOOLEAN,
     set : Path]                 \* --set-env JAVA_HOME
Setup ==
    [mode : {"host", "bwrap", "chroot"}, user : Env, buildHost : SUBSET Path, runHost : SUBSET Path]

ASSUME SetupsAreKnown == \A s \in Setups :
    /\ [f \in {"mode", "user", "buildHost", "runHost"} |-> s[f]] \in Setup
    /\ \A b \in DOMAIN s.bundles : b \in FileNames /\ s.bundles[b] \in Bundle
ASSUME NonesAreOthers == NoMeta \notin Env /\ NoScript \notin Path /\ User \notin Launchers

VARIABLES
    setup,       \* the bundles, the user's environment and the files of the host
    stage,       \* stage[l]: "idle", "entering", "running", "unstarted" or "refused"
    entry,       \* entry[l]: the bundle, the entry and who started it
    env,         \* env[l]: the environment that execve gives to the entry
    given,       \* history: its JAVA_HOME before any launcher changed it
    crossed      \* history: launchers whose JAVA_HOME comes from another bundle's entry

launchVars == <<setup, stage, entry, env, given, crossed>>

EmptyEnv == [home |-> <<>>, pypath |-> <<>>, path |-> <<>>, libs |-> <<>>]
Nothing == [bundle |-> "", name |-> "", from |-> User]

LaunchTypeOK ==
    /\ TypeOK
    /\ setup \in Setups
    /\ stage \in [Launchers -> {"idle", "entering", "running", "unstarted", "refused"}]
    /\ \A l \in Launchers : entry[l].from \in Launchers \cup {User}
    /\ env \in [Launchers -> Env]
    /\ given \in [Launchers -> Path] /\ crossed \subseteq Launchers

LaunchInit ==
    /\ Init
    /\ setup \in Setups
    /\ stage = [l \in Launchers |-> "idle"]
    /\ entry = [l \in Launchers |-> Nothing]
    /\ env = [l \in Launchers |-> EmptyEnv]
    /\ given = [l \in Launchers |-> <<>>] /\ crossed = {}

-----------------------------------------------------------------------------
(* write_launchers: a file per name.                                       *)

Plans(b) == setup.bundles[b].plans
Names(b) == {Plans(b)[i].name : i \in DOMAIN Plans(b)}

\* write_config overwrites what it wrote for an earlier plan of the name.
PlanOf(b, name) == Plans(b)[Max({i \in DOMAIN Plans(b) : Plans(b)[i].name = name})]

\* apply_env_overrides (--set-env JAVA_HOME=...): also for plans of the host,
\* whose entries had no environment recorded.
Overridden(b, meta) ==
    IF setup.bundles[b].set = <<>> THEN meta
    ELSE [(IF meta = NoMeta THEN EmptyEnv ELSE meta) EXCEPT !.home = setup.bundles[b].set]

\* inject_script_metadata
MetaOf(b, plan) ==
    LET meta == Overridden(b, plan.meta)
    IN  IF meta = NoMeta /\ plan.script # NoScript /\ Last(plan.program) = "node"
        THEN EmptyEnv ELSE meta

-----------------------------------------------------------------------------
(* The environment.                                                        *)

Root(b)    == <<"/", b>>
Payload(b) == <<"/", b, "payload">>
Absolute(p) == p # <<>> /\ Head(p) = "/"
OnHost == setup.mode = "host"

\* map_bundle_path
MapBundlePath(b, p) ==
    IF OnHost THEN Root(b) \o (IF Absolute(p) THEN Tail(p) ELSE p)
    ELSE IF Absolute(p) THEN p
    ELSE <<"/">> \o (IF p # <<>> /\ Head(p) = "payload" THEN Tail(p) ELSE p)

\* remap_abs_into_payload
RemapAlways(b, p) == IF Absolute(p) THEN Payload(b) \o Tail(p) ELSE p  \* mutant: again and again
Remap(b, p) ==
    IF Absolute(p) /\ ~IsPrefix(Root(b), p) THEN Payload(b) \o Tail(p) ELSE p

Map(s, Op(_)) == [i \in DOMAIN s |-> Op(s[i])]

\* The elements of s at the indices in I, in the order of s.
Pick(s, I) ==
    [k \in 1..Cardinality(I) |->
        s[CHOOSE i \in I : Cardinality({j \in I : j < i}) = k - 1]]
Absolutes(s) == Pick(s, {i \in DOMAIN s : Absolute(s[i])})

Beside(p) == Front(p) \o <<"lib">>
DefaultPath == <<<<"/", "usr", "bin">>>>

\* dedup_strings
Dedup(s) == Pick(s, {i \in DOMAIN s : \A j \in 1..(i - 1) : s[j] # s[i]})

\* The new LD_LIBRARY_PATH: mutant, with the new directories last.
LibsLast(new, old) == old \o Dedup(new)
LibsFirst(new, old) == Dedup(new) \o old

\* build_env_block: what was recorded of an image replaces what the launcher
\* was given.
BuildEnv(b, plan, own) ==
    LET base   == IF MetaOf(b, plan) = NoMeta THEN own ELSE MetaOf(b, plan)
        home   == Remap(b, base.home)
        mapped == IF OnHost THEN Map(Absolutes(base.path), LAMBDA p : MapBundlePath(b, p))
                  ELSE IF base.path = <<>> THEN DefaultPath ELSE base.path
        dirs   == Map(plan.dirs, LAMBDA p : MapBundlePath(b, p))
                  \o (IF home = <<>> THEN <<>> ELSE <<home \o <<"lib">>>>)
                  \o Map(mapped, Beside)
    IN  [home   |-> home,
         pypath |-> IF OnHost THEN Map(base.pypath, LAMBDA p : Remap(b, p)) ELSE base.pypath,
         path   |-> IF OnHost THEN mapped \o base.path ELSE mapped,
         libs   |-> IF plan.dirs = <<>> THEN base.libs ELSE LibsFirst(dirs, base.libs)]

-----------------------------------------------------------------------------
(* Files, and the dynamic linker.                                          *)

\* Where a path leads that the entry of b uses: bwrap and chroot make the
\* payload its root.
Outside(b, p) == IF OnHost \/ ~Absolute(p) THEN p ELSE Payload(b) \o Tail(p)

Tree(b) == setup.bundles[b].tree
AtBuild(b) == Tree(b) \cup setup.buildHost
AtRun == (UNION {Tree(b) : b \in DOMAIN setup.bundles}) \cup setup.runHost

\* The directories of dirs that have a library, and the one it is found in.
Having(files, dirs, n) == {i \in DOMAIN dirs : Append(dirs[i], n) \in files}
FoundIn(files, dirs, n) == dirs[Min(Having(files, dirs, n))]
DefaultLibs == <<<<"/", "usr", "lib">>>>

\* What is in the directory of a bundle is the bundle's; and plans name paths
\* of the payload.
InPayload(p) == p # <<>> /\ Head(p) = "payload"
ASSUME BundlesAreApart ==
    \A s \in Setups : \A b \in DOMAIN s.bundles :
        /\ \A p \in s.bundles[b].tree : IsPrefix(Root(b), p)
        /\ \A p \in s.buildHost \cup s.runHost \cup ToSet(DefaultLibs) : ~IsPrefix(Root(b), p)
ASSUME PlansNameThePayload ==
    \A s \in Setups : \A b \in DOMAIN s.bundles : \A plan \in ToSet(s.bundles[b].plans) :
        /\ InPayload(plan.program) /\ (plan.script # NoScript => InPayload(plan.script))
        /\ plan.dynamic => InPayload(plan.linker)
        /\ \A d \in ToSet(plan.dirs) : InPayload(d)

\* The linker that runs looks into LD_LIBRARY_PATH, then into its defaults.
Searched(b, e) == Map(e.libs \o DefaultLibs, LAMBDA p : Outside(b, p))
LoadedFrom(b, e, n) == FoundIn(AtRun, Searched(b, e), n)

\* run: on the host the launcher names the linker, else the kernel takes the
\* one the program asks for.  A program, linker, script or library that does
\* not exist ends the launch.
Starts(b, plan, e) ==
    LET At(p) == Outside(b, MapBundlePath(b, p)) IN
    /\ At(plan.program) \in AtRun
    /\ plan.script # NoScript => At(plan.script) \in AtRun
    /\ plan.dynamic =>
         /\ (IF OnHost THEN At(plan.linker) ELSE Outside(b, plan.interp)) \in AtRun
         /\ \A n \in plan.needs : Having(AtRun, Searched(b, e), n) # {}

-----------------------------------------------------------------------------
(* BundleValidator, on the machine that builds the bundle.                 *)

Listed(b, plan) == Map(plan.dirs, LAMBDA d : Root(b) \o d) \o DefaultLibs
Found(b, plan, n) == Having(AtBuild(b), Listed(b, plan), n) # {}
FoundBy(b, plan, n) == FoundIn(AtBuild(b), Listed(b, plan), n)

\* inspect_binary and inspect_script, with trace_dependencies.
Verdict(b, plan) ==
    LET Exists(p) == Root(b) \o p \in AtBuild(b) IN
    IF ~Exists(plan.program) \/ (plan.script # NoScript /\ ~Exists(plan.script)) THEN "Missing"
    ELSE IF ~plan.dynamic THEN "StaticOk"
    ELSE IF ~Exists(plan.linker) THEN "MissingLinker"
    ELSE IF setup.bundles[b].stub THEN "LinkerSkipped"
    ELSE IF \A n \in plan.needs : Found(b, plan, n) THEN "DynamicOk" ELSE "LinkerError"

IsSuccess(verdict) == verdict \in {"StaticOk", "DynamicOk", "LinkerSkipped"}

-----------------------------------------------------------------------------
\* run, up to the mode: started by the user, or by an entry on the host.
Launch(l, from, b, name) ==
    LET plan == PlanOf(b, name)
        own  == IF from = User THEN setup.user ELSE env[from]
        e    == BuildEnv(b, plan, own)
        meta == MetaOf(b, plan)
    IN
    /\ stage[l] = "idle" /\ name \in Names(b)
    /\ from # User => OnHost /\ stage[from] = "running"
    /\ entry' = [entry EXCEPT ![l] = [bundle |-> b, name |-> name, from |-> from]]
    /\ env' = [env EXCEPT ![l] = e]
    /\ given' = [given EXCEPT ![l] = IF meta # NoMeta THEN meta.home
                                     ELSE IF from = User THEN own.home ELSE given[from]]
    /\ crossed' = IF meta = NoMeta /\ from # User /\ (from \in crossed \/ entry[from].bundle # b)
                  THEN crossed \cup {l} ELSE crossed
    /\ \E next \in (IF setup.mode = "chroot" THEN {"entering"}
                    ELSE {IF Starts(b, plan, e) THEN "running" ELSE "unstarted"})
                   \cup (IF setup.mode = "bwrap" THEN {"refused"} ELSE {}) :  \* no bwrap
         stage' = [stage EXCEPT ![l] = next]
    /\ UNCHANGED <<setup, vars>>

\* exec_chroot: a step of ensure_payload_data, or execve in the payload.
Prepare(l) ==
    /\ stage[l] = "entering"
    /\ \/ Isolate(l) \/ Check(l) \/ BindMount(l) \/ LinkFile(l) \/ CopyFile(l) \/ EndCopy(l)
    /\ UNCHANGED launchVars

EnterRoot(l) ==
    LET b == entry[l].bundle IN
    /\ stage[l] = "entering"
    /\ Enter(l)
    /\ stage' = [stage EXCEPT ![l] =
                   IF Starts(b, PlanOf(b, entry[l].name), env[l]) THEN "running" ELSE "unstarted"]
    /\ UNCHANGED <<setup, entry, env, given, crossed>>

GiveUp(l) ==
    /\ stage[l] = "entering"
    /\ BreakOff(l)
    /\ stage' = [stage EXCEPT ![l] = "refused"]
    /\ UNCHANGED <<setup, entry, env, given, crossed>>

LaunchNext ==
    \E l \in Launchers :
       \/ \E from \in Launchers \cup {User}, b \in DOMAIN setup.bundles :
            \E name \in Names(b) : Launch(l, from, b, name)
       \/ Prepare(l) \/ EnterRoot(l) \/ GiveUp(l)

LaunchSpec == LaunchInit /\ [][LaunchNext]_<<vars, launchVars>>

-----------------------------------------------------------------------------
\* The libraries of a validated plan are in the bundle, and so is the linker
\* that the kernel looks for.
SelfContained(b, plan) ==
    plan.dynamic => /\ Absolute(plan.interp) /\ Payload(b) \o Tail(plan.interp) \in Tree(b)
                    /\ \A n \in plan.needs : Append(FoundBy(b, plan, n), n) \in Tree(b)

\* An entry the validator passed starts: on the machine that built the bundle
\* in run mode host, and on every machine and in every mode when the bundle is
\* self-contained; and it loads from its bundle what the validator found there, whatever
\* directories the environment brings along, from the user or from entries of
\* other bundles.  (The validator passes a linker that is a stub, and lists
\* libraries of the host; it does not see that names of entries clash, but
\* then validates both.)
ValidatedRuns ==
    \A l \in Launchers : stage[l] \in {"running", "unstarted"} =>
      LET b    == entry[l].bundle
          plan == PlanOf(b, entry[l].name)
      IN  /\ IsSuccess(Verdict(b, plan)) /\ ~(plan.dynamic /\ setup.bundles[b].stub)
          /\ SelfContained(b, plan) \/ (OnHost /\ setup.runHost = setup.buildHost)
          => /\ stage[l] = "running"
             /\ plan.dynamic => \A n \in plan.needs :
                  LET dir == FoundBy(b, plan, n)
                  IN  Append(dir, n) \in Tree(b) => LoadedFrom(b, env[l], n) = dir

\* On the host JAVA_HOME leads into the bundle and is mapped there once,
\* wherever the variable comes from and however many launchers it went
\* through, unless one of them was that of another bundle (EnvRemapper).
HomesServed ==
    \A l \in Launchers \ crossed :
      LET b == entry[l].bundle IN
      OnHost /\ stage[l] = "running" /\ Absolute(given[l]) =>
        env[l].home = IF IsPrefix(Root(b), given[l]) THEN given[l]
                      ELSE Payload(b) \o Tail(given[l])

-----------------------------------------------------------------------------
(* What a comment of the code says, and the code refutes.                  *)

\* main.rs:382: in host mode absolute paths are "to resolve to the bundled
\* payload rather than the host filesystem".  A command is found in the
\* payload if the directory it is in there is in the PATH of the entry.
PathServesPayload ==
    \A l \in Launchers :
      LET b == entry[l].bundle IN
      stage[l] = "running" /\ OnHost =>
        \A p \in {q \in ToSet(env[l].path) : Absolute(q) /\ ~IsPrefix(Root(b), q)}, n \in Commands :
          LET dir == Payload(b) \o Tail(p)
          IN  Append(dir, n) \in Tree(b) => FoundIn(AtRun, env[l].path, n) = dir
=============================================================================
