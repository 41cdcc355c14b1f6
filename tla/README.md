# Verification of sidebundle

TLA+ models of sidebundle, the TLC runs that check them on small instances, and
TLAPS proofs of what holds for every instance. `PROJECT.json` lists the runs,
the mutants that show each property can fail, the source lines each definition
stands for, the hazards of the code and the theorems.

## 1. The system

sidebundle takes executables (ELF or script), from the host or from a container
image, finds everything they need at run time, and writes a bundle that runs
elsewhere: a directory of files with launchers, or a single self-extracting
file (a shim).

| component | source | state it keeps | operations |
|---|---|---|---|
| ptrace backend | `sidebundle-closure/src/trace/linux.rs` | tracees known, per process "next syscall stop is an entry", a probe whose result is awaited, the report | `parent_trace`: wait, handle a status, resume; `resume_new_tracee` |
| fanotify and combined backends | same file | one fanotify mark on a file system, an idle counter, the report | `fanotify_parent`, `CombinedBackend::trace` (first ptrace, then fanotify) |
| trace collector and report | `sidebundle-closure/src/trace.rs` | report: files, ELF or resource | `TraceCollector::run`, `TraceReport::record_*` |
| agent trace | `trace/agent.rs`, `sidebundle-cli/src/agent.rs` | a container, its spec and its exported report | create, start, export, remove; `execute_agent_trace` |
| image root providers | `sidebundle-closure/src/image.rs` | container, mount, exported root, service child, cleanup closure | `prepare_root` (docker, podman, bollard), `ImageRoot` hand-over and `Drop` |
| closure builder | `sidebundle-closure/src/lib.rs` | files by destination, entry plans, traced files, symlinks, aliases | `build`, `build_entry_plan`, `build_binary_plan`, `promote_*` |
| linker runner, validator | `linker.rs`, `validator.rs` | a cache of linker output; a report per entry | `trace_dependencies`, `inspect_*` |
| core data model | `sidebundle-core/src/lib.rs` | `DependencyClosure` | `merge` |
| command line | `sidebundle-cli/src/main.rs` | the closure being assembled | `execute_create`, copy-dir, aliases, `sanitize_symlinks` |
| packager | `sidebundle-packager/src` | the output tree: `data/<digest>`, `payload/`, `bin/`, `launcher/`, manifest | `emit`, `write_launchers`, `write_shims` |
| launcher | `sidebundle-launcher/src/main.rs` | environment block; `payload/data`; cached `bwrap` | `run`, `ensure_payload_data`, `ensure_embedded_bwrap`, `exec_*` |
| shim | `sidebundle-shim/src/main.rs` | extraction directory and its marker | `run` |
| build scripts, vendored `userland-execve` | `build.rs`, `vendor/` | none of ours | embedding binaries; exec in user land |

How they interact. The command line asks a provider for an image root, builds a
closure in it with the closure builder, which asks the linker runner for
libraries and the collector for a trace of each entry. Closures of several
origins are merged, amended (copied directories, symlinks, aliases) and given to
the packager. The packager's output runs without any of these: the shim unpacks
it, the launcher prepares it and replaces itself by the entry. Inside one run of
the command line everything is sequential, in one thread, except for the
processes it traces and the containers it starts. What the output runs on a
user's machine is *not* sequential: any number of launchers and shims of one
bundle run side by side, and share directories.

Which behaviours are hard, and what makes each part correct:

* *ptrace backend.* The kernel orders neither the stops of different processes
  nor a child's first stop and its parent's fork event; the code keeps state per
  process that is right only when it saw every stop; SIGKILL can take a process
  between a `waitpid` and the next request. Correct: nothing is reported that no
  process touched; what is touched is reported; no tracee is left stopped; a
  command that could not run is an error; the loop ends.
* *fanotify and traces in a row.* fanotify sees every process of the machine and stops when idle;
  a failed trace leaves processes to the next. Correct: the loop does not stop before it has read
  what its command did; a report has files of its own command; the traces end.
* *image roots and agent.* Several resources acquired in turn, any step may
  fail. Correct: each is released exactly once, and not while in use.
* *closure pipeline.* Files, symlinks and aliases have destinations that clash.
  Correct: merging loses nothing but duplicates; what is published under a
  name is what the closure says; each entry finds its files.
* *launcher.* Several sources of an environment, three modes, launchers that start launchers.
  Correct: what the validator passed starts, and with the libraries the validator saw; paths are
  mapped into the bundle, once.
* *launcher cache.* Any number of processes extract one binary into one
  directory, fail, or are killed. Correct: a binary that can be found is whole.
* *payload data.* Launchers fill one directory with hard links or copies without
  a lock. Correct: the entry sees all data; the bundle's own data survives.
* *shim.* Shims share one extraction directory. Correct: the marker is true, and what a shim
  decided to run is what runs.

The properties under "hazards" in `PROJECT.json` follow this list line by line.

## 2. What is modelled

### The ptrace backend: `Tracees`, `PtraceTracer`

`Tracees` is the environment, the ptrace(2) and wait(2) interface as `linux.rs`
uses it: where each process is (`at`), its call and whether it succeeded, the
child its last fork made, and the program's own behaviour (any sequence of
calls out of `Kinds`, signals, SIGKILL). Only `ptrace_child_main` (`SetupDone`,
`SetupFails`, the first exec) is sidebundle's code. The history `touched` is what
a perfect trace would report.

`PtraceTracer` is `parent_trace`. One action per match arm:

| action | code |
|---|---|
| `Wait`, `NoChild` | `waitpid(None, __WALL)` and its ECHILD arm |
| `HandleStop`, `HandleSignal` | SIGSTOP, event stops; other signals, which are forwarded |
| `HandleEntry`, `HandleReturn`, `HandleUnreadable` | `handle_syscall` / `handle_syscall_regs`, with the flag `entering` and the pending probe |
| `HandleFork`, `ResumeNewTracee` | `PtraceEvent` with a new pid; `resume_new_tracee`, which blocks in a `waitpid` of its own and drops what it gets |
| `HandleExited`, `HandleSignaled` | `TraceeTracker::on_exit`, `is_done`, `finalize` |
| `HandleLost` | ESRCH for a process that was killed after its stop was read |

Not in the model: an `execve` in a thread (pid changes hands), EINTR, reuse of
pids, environments in which `PTRACE_O_TRACEFORK` is not honoured so that
`ptrace::attach` succeeds. `await` stands for any call in which a child waits
for its parent.

### Traces in a row: `HostTraces`

The loop of `ClosureBuilder::build` over its entries, as far as it traces: for each a backend
(`plan`), whose error is only logged. `fanotify_parent` is here in full; of the ptrace loop, what
matters across traces: the stop of a call and its handling are one step, and what `PtraceTracer` shows of one
trace (a process whose first stop was lost may go unreported, a fork event may never arrive) is a choice.
Each process has one file of its own to open, so that a report is a set of processes.

| action | code |
|---|---|
| `StartPtrace`, `TraceeOpens`, `TraceeForks`, `ReapTracee`, `PtraceFails` | `run_ptrace`, and the arms of `parent_trace`; `waitpid(None)` reaps a process of whichever trace |
| `StartFanotify` | `Fanotify::init`, `mark`, `fork`, each of which may fail; in the combined backend after ptrace, whose report is then dropped |
| `ReadEvents`, `ReadFails`, `PollChild` | one iteration of `fanotify_parent`: `read_events`, `waitpid(WNOHANG)`, the test for the end |
| `EndTrace` | the match in `build` on the result of `TraceCollector::run` |
| `FreeOpens`, `FreeForks`, `OtherOpens`, `Exits`, `Killed` | processes that nobody stops, the rest of the machine among them; events of a full queue are lost |

The sleep between iterations is not there: any number of events can come between two of them.

### The launcher's bwrap: `SharedTool`, `BwrapCache`

`SharedTool` says what the cache directory promises: a tool is published once,
whoever obtains it holds a whole one. `BwrapCache` is `ensure_embedded_bwrap`
with one action per system call: `Look` (the fast path), `Lock` (flock),
`Recheck`, `Create`/`Write`/`Chmod` of `bwrap.tmp-<pid>`, `Rename`, `Exec`.
`Fail` and `Kill` are possible before every one of them; the kernel drops the lock of a
process that ends. Two launchers may have the same pid (pid namespaces share a
home directory), hence the same temporary file. Chunks stand for the bytes of the binary.

### The data of a chroot: `PayloadData`

`isolate_mount_namespace`, `ensure_payload_data` and `mirror_data_tree`, up to
`exec_chroot`: whether payload/data is populated, the bind mount, or else a
hard link or a copy for every file. `fs::hard_link` and `fs::copy` are separate
from each other and from the check. Copying onto a hard link of the
source truncates the source: `lost`. `data/` is flat, as the packager writes it.

### From plans to running entries: `Launcher`

`Launcher` extends `PayloadData`. A launch takes the configuration that `write_launchers` of the packager wrote
under the name it was started as (`PlanOf`), the environment it is given or that was recorded (`MetaOf`), and makes the
environment of the entry of them (`BuildEnv`: `EnvRemapper`, `map_bundle_path`, `PATH`,
`LD_LIBRARY_PATH`). A linker takes a library from the first directory that has it (`FoundIn`). `Starts` says whether the kernel and the dynamic linker find what
they need; `Verdict` is that of `BundleValidator` on the machine that builds.

| action | code |
|---|---|
| `Launch` | `run` up to `exec_static`, `exec_dynamic`, `exec_bwrap`; started by the user or, on the host, by a running entry of the same or another bundle |
| `Prepare`, `EnterRoot`, `GiveUp` | `exec_chroot`: a step of `PayloadData`, the end of it, an error or a kill |

Paths are sequences of names, environments have four variables (JAVA_HOME, PYTHONPATH, PATH,
LD_LIBRARY_PATH); GOROOT and PYTHONHOME are treated like the first by the code. `find_bwrap` only
finds or does not find (`BwrapCache` is its last resort). The dynamic linker is external: the first directory that
has a library, LD_LIBRARY_PATH before the default one; no RUNPATH.

### The shim: `ShimExtract`

`run` of the shim: the marker, `Archive::unpack` entry by entry (tar unlinks a
file that exists and creates it anew), the marker's truncation and writing, and
`exec_entry`. `disturbed` remembers which shims had decided to exec when another version was
unpacked. Two versions of one bundle share the directory. Most payload entries of an archive are hard links
(packager, `shim.rs:99`), which tar makes without unlinking what is there: a second unpack over them always fails
with EEXIST. The model is wider: `NextEntry` lets any entry be replaced, and
`BreakOff` may end an unpack at any entry. What holds in all these behaviours holds in those of the code.

### The payload: `BundleAssembly`

From the inputs of `sidebundle create` to the files of the bundle. `pc` is the
stage of `execute_create` and then of `Packager::emit`; `files`, `links` and `aliases`
are the fields of `DependencyClosure` of that purpose; `held` and `link` are the
payload directory being written.

| action | code |
|---|---|
| `CollectHost` | `ClosureBuilder::build` for the host: what traced paths leave in files, links, aliases |
| `MergeImage`, `EndImages` | the same in an image, and `DependencyClosure::merge`; no image is left |
| `EnsureAssets`, `EndAssets` | `ensure_system_assets`, for one image at a time |
| `CopyFile`, `CopyLink`, `EndCopies` | `copy_dir_into_closure`, with `would_create_symlink_cycle` |
| `Sanitize` | `sanitize_symlinks`, and the refusal of a bundle without entries |
| `StageFile`, `EndFiles` | the loop of `emit` over the files, each with its aliases |
| `PlaceLink`, `EndLinks` | the loop of `emit` over the links |

Which paths are traced, and which are symbolic links, is chosen freely, as long as one root
gives each path one meaning (`Traces`). A traced link is written as the program sees it
(`run`), a copied one as the bundle has it (`pay`), and the stages before `emit` compare
them as they are written: two links of one path in two spellings do not meet
before `emit`. `traces` and `offers` are histories, for the properties only. An element of `Images` is a key of
`group_image_entries`: one image that two backends are asked for is two of them, with two roots.

Paths are flat names, so directories are not there. Also left out: entry plans and
their launchers, the environment, `resources/traced`, device nodes, I/O errors, and
absolute links in an image root that `canonicalize` does not resolve and that are
then read through the host.

### The roots of images: `ImageRoots`

From the requests of `execute_create` for the trees of images to the moment its guards are
dropped. A root is made in one of several *ways* (`DockerApi`, `DockerCli`, `PodmanMount`,
`PodmanExport`, `PodmanService`, `AgentTrace`), each a script of steps: a step acquires or
releases a container, a mount, a bind mount, a directory or a service process, and the steps
say which of these a guard of the code releases when a later step fails. `world` is what
exists on the machine, `scope` what the guards of the running way hold, `root` the `ImageRoot`
that was made, `roots` what `ImageRootGuards` keep, `sources` the roots that the
closure reads files from.

| action | code |
|---|---|
| `Begin`, `NextTool`, `NextWay` | the order of tools in `build_image_closure`, the fallbacks inside a provider |
| `Perform`, `Fail`, `FailUnprivate` | the calls of a way; a failure drops `scope`; a bind mount that was made but not made private |
| `Return`, `Use`, `UseFails`, `Refuse` | `Ok(ImageRoot)`; `build_closure_from_root`, `build_agent_image_closure`; exit codes of the agent |
| `CopyServed`, `TakeApart`, `CopyTaken` | `add_copy_dirs`: an image that has a root already, or a root of its own, taken apart by `into_parts` |
| `Emit`, `Finish` | the packager reads `sources`; the guards are dropped at the end |

Left out: a removal that fails, SIGINT, what the tools print.

### The search for dependencies: `ClosureBuilder`

`ClosureBuilder::build` for one root. The machine is recursive in two ways, and the model has both:
`Visit` takes one ELF file from the queue of `build_binary_plan` at a time, in any order, and
`stack` holds the activations of `build_entry_plan`, since scripts are planned inside scripts.

| action | code |
|---|---|
| `Begin` | the loop over the entries, then that of `promote_traced_elves`, up to the queue (`Enter`); a PT_INTERP that leads nowhere |
| `Visit` | `load_metadata`, `compute_search_paths`, `trace_with_linker`, `ensure_file` and `record_alias` for each library, and what fails of these |
| `EndBinary` | the stub of a linker is replaced; the script gets its destination; `is_bash_interpreter` and `scanned_scripts` |
| `ScanCommand`, `EndScan` | `collect_bash_dependencies`: one command after the other, in any order; an error of one is dropped with the activations above (`Break`) |
| `EndEntries`, `Finish` | from the entries to the trace; the filter and the destinations that clash |

`sys` is a root: what each path leads to, what each ELF file needs and its RUNPATH, which
programs are static, who interprets a script and what it calls, whether the linker
is a gcompat stub; and what fails: a PT_INTERP that cannot be canonicalized (`orphans`), a library that cannot be parsed
(`garbled`), a file on which the linker cannot be run or fails (`broken`: Spawn, InvalidPath, CommandFailed), a listed path that
cannot be canonicalized (`strays`), besides libraries that are missing. Nothing is undone on these paths: the program is in
the map before its PT_INTERP is looked at (`Enter`), its linker before the search, and of a list any part may
have been dealt with before the path that fails (`Partial`). For an entry or a traced file the error is that of the build; for a
command of a script it is dropped (`let _ =` in `collect_bash_dependencies`), and the program stays in the bundle without its libraries. `Listed` is external, it is what `ld.so --list` prints: in each round the libraries that those of the round
before need (`More`). Of what is listed, `FilesOf`, `DirsOf` and `AliasesOf` go into the map, the plan and the aliases; a
traced library is the file itself, since the filter looks at the traced name. The launcher's side of the contract is
`Picked`: the linker looks into `library_dirs` in their order. Left out: $ORIGIN, LD_LIBRARY_PATH
given by the user, the mapping of RUNPATH in an image root, the linker's own line in the list, the cache of `linker.rs`, and programs
whose own header cannot be parsed (they are refused before anything is in the map).

## 3. The runs

| run | instance | what it shows |
|---|---|---|
| `ptrace_family` | three processes, one call each, one SIGKILL, probes and forks | `ReportSound`, `CompleteUnlessSkewed`, `NobodyLeftBehind` |
| `ptrace_calls` | two processes, every kind of call, an unreadable path, a signal, a SIGKILL | `PhaseInStep`, `NoReportWithoutLaunch`, and, under fairness, `Termination` |
| `ptrace_lost_probe` | two processes, no SIGKILL | refutes `EveryCallReported` |
| `bwrap_cache` | three launchers, two with one pid, a binary of two chunks | `Intact`, `ExtractedOnce`, `Served`, and the refinement `Implements` |
| `host_traces` | two ptrace traces, a fanotify and a ptrace trace, a combined one on the host and in an image; two processes per command, one fault | `OwnFilesOnly`, `CommandsAreTraced`, `NothingLeft`, and, under fairness, `EndsInSilence` |
| `shim_extract` | three launches, two versions with a common entry and a file each | `MarkerTrue`, `RunsItsVersion` |
| `launcher` | three launches; a bundle in which anything can be missing, with and without libraries on the host, in two modes; two bundles whose entries start each other; a chroot with two data files | `ValidatedRuns`, `HomesServed`, `LossNeedsTwo`, `AloneIsEnough` |
| `launch_path` | a complete bundle on the machine that built it | refutes `PathServesPayload` |
| `bundle_assembly` | the host, an image and copied directories; three paths, four inputs | `PathsServed`, `FirstOfferKept`, `LoopsNeedBothForms`, `BlockedByCopiesOnly` |
| `image_roots` | two requests over two images, with and without entries, any tool, agent or not, kept or not | `SourcesStay`, `RootIsThere`, `OnlyKnownLeaks` |
| `image_parts` | one request | refutes `RootOutlivesItsParts` |
| `closure_builder` | 1600 layouts of two libraries, one of which needs the other; 4608 ways in which two scripts call programs and each other; 96 roots with a stub; 5184 roots in which a program, its library or a command of a script fails in one of the ways above | `LibrariesFound`, `LinkerServes`, `ProgramsHaveLibraries`, `ScannedComplete`, `NestingBounded` |

Bounds. Three processes give a grandchild, two siblings, and a child that is
reaped before its parent's event is read; the loop keeps no state that relates
more than a parent and a child. One call per process besides launch and exit is enough to pair a
probe with a wrong result, since every process makes three calls in turn. Three
launchers are a writer, one that waits for the lock, and one that comes late;
two chunks make a half-written file. Two files make a half-filled directory. A trace meets what one trace before
left, so two in a row are enough; a queue of two events (`QueueSize`) can be full and half read;
`IdleLoops` is 1 instead of 5, since only whether an empty read follows the child's end matters to
the properties; one fault (`MaxFaults`) fails a trace. Three launches are a launcher
that starts one that starts one, or two that fill a directory and one that comes late. The missing files
of a bundle are all subsets of its programs, its linker and its library. Three
paths make a loop of links and one path beside it, or a link over an alias over
a file; four inputs bring each of the three sources in at once, and one of them twice.
Of the contents, the host and the image share one file (an ELF file) and the image has an
empty resolv.conf, for which `emit` takes the host's; all others differ. Two
requests are one that has to serve another. Two library directories and a library
behind a link to another name make every order and every missing alias; a library
that needs another makes the second round of the search; two scripts call each other
and themselves, with one program that fails and one that does not. The
proofs of section 4 hold without any of these bounds.

`CHECK_DEADLOCK FALSE` everywhere: all these programs end. `launcher` uses the symmetry of launchers
and data files, which no property tells apart; it has no liveness property.

The assumptions inside the properties are where the code has no protection:

* `PhaseInStep` and `CompleteUnlessSkewed` exclude processes that lost a syscall
  stop in `resume_new_tracee` (`Skewed`). It can happen: see the first refuted claim.
* `NobodyLeftBehind` excludes children the loop was never told of
  (`Unannounced`): their parent was SIGKILLed, or the fork event itself was dropped.
* `Termination` excludes `CrossWait`: the loop blocks in `waitpid(child)`
  while the child, already resumed, waits for its stopped parent. This is a
  deadlock of the real program, and nothing times it out.
* `MarkerTrue` is about a quiescent directory in which no two versions were
  unpacked at once and no unpack was cut off over a directory in use.
* `RunsItsVersion` excepts shims that had decided to exec when another version was unpacked or an unpack
  broke off: nothing holds the directory for them.
* `AloneIsEnough` excludes launchers that filled at once or broke off: one that finds payload/data with
  contents goes on although another is still filling it, or left it half filled
  (`sidebundle-launcher/src/main.rs:422` takes it for populated).
* `OwnFilesOnly` excepts what failed traces left (`build` only logs their error, and
  `waitpid(None)` adopts their tracees) and tracees whose fork event was never read; `NothingLeft` the same.
* `CommandsAreTraced` excepts a queue that overflowed, which nobody notices, and, in an image, all that fanotify
  reports: it gives paths as the host sees them, `into_artifacts` takes them for paths in the image.
* `EndsInSilence` supposes that the watched file system falls silent: as long as any process of the machine
  opens files there, `idle_loops` starts over.
* `ValidatedRuns` is about the machine that built the bundle, in run mode host, or about bundles that are
  self-contained (`SelfContained`): the validator also finds libraries of the host, does not look for the
  PT_INTERP that a sandbox needs, and passes a linker that is a stub.
* `HomesServed` excepts launches whose JAVA_HOME comes from an entry of another bundle (`crossed`): a path in
  that bundle is taken for one of the host and mapped into a payload that does not have it.
* `PathsServed` excludes paths that another input names too (`Contested`) and those
  that `merge` drops (`DroppedByMerge`): an image's file that the host has already (same destination
  and digest) goes with its source, and the aliases that name that source with it, although
  `docs/special_handling.md:42` counts on them. `FirstOfferKept`
  says of contested paths that the first file wins, where no alias and no link is in play:
  those replace files, whatever the order of the inputs.
* `LoopsNeedBothForms`: a loop in the payload is possible, but only of links in both
  spellings, which no check compares.
* `OnlyKnownLeaks` excepts the agent's container when a `?` leaves before its removal, a bind mount
  that was not made private and the directory under it, what `into_parts` leaves
  behind, and what the user asked to keep.
* `LibrariesFound` excepts, of its second half, names that lead to different files in different
  directories (`Ambiguous`): `library_dirs` are sorted by name, not by search order,
  and the bundle's entry can then load another of the two than the original does. With
  a stub that cannot list, no libraries are found and nothing is claimed.
* `LinkerServes` excepts a stub that comes back (`StubBack`), in a root that sorts before the path of the
  host's linker: the trace has the stub itself, or the linker fails on a command of a script, whose plan has put the stub into the map
  and is broken off before the substitution. `build` then keeps the stub of the two.
* `ProgramsHaveLibraries` excepts programs that no entry is and that cannot be listed (`Orphan`, `Breaks`): their PT_INTERP or
  one of their libraries is not there, or the linker fails on them. Only a script's command gets into a bundle like that.
  A program is not excepted if the search fails further on, at a library of its libraries: its own list was in the map by then.
* `ScannedComplete` excepts scripts whose interpreter no entry uses.
* `BlockedByCopiesOnly` is about EEXIST in `emit`: `exists()` follows links, so that
  a dangling one is not removed before it is replaced.

Refuted claims:

* `docs/tracing.md:67` says a trace captures the files the execution touched.
  `ptrace_lost_probe`: the child's SIGSTOP arrives first and it is resumed, stops
  at the entry of a call, then the parent's event is read and
  `resume_new_tracee` takes the entry for the SIGSTOP it expects. From there on
  entries and exits are mixed up, and a successful trace misses the probe.
* the comment at `sidebundle-launcher/src/main.rs:382` says that on the host absolute paths are to resolve
  to the bundled payload, and `docs/special_handling.md:27` that bundled paths come first in PATH.
  `launch_path`: `map_bundle_path` leaves `payload/` out, so that /usr/bin becomes a
  directory `usr/bin` of the bundle that does not exist, and a command is taken from the host.
* the test `into_parts_detaches_cleanup` (`sidebundle-closure/src/image.rs:855`) says that a root
  taken apart is not cleaned up. `image_parts`: for every exported root the directory is owned by the
  cleanup closure that `into_parts` drops, so that it is deleted before its path is returned,
  and `--copy-dir` from an image without entries fails; a mounted root stays mounted.

Other places where code and text differ, or where the models show what a user may not expect, without a run of their own:

* `sidebundle-cli/src/main.rs:1014`, "Prefer files over symlinks": destinations are compared as written, and a traced link
  is written without `payload/`, so that it stays and `emit` replaces the file by it (`Sanitize`, `PlaceLink`).
* `docs/special_handling.md:23` says that the packager ignores the links of the closure; `emit` writes them.
* the combined backend needs both permissions: without that for fanotify, the report ptrace made is dropped
  (`StartFanotify`).
* a recorded environment *replaces* that of the user (`MetaOf`, `BuildEnv`), also for scripts of node
  without one, which then run without PATH, and for all entries once `--set-env` is given,
  which `docs/usage.md:104` offers as a way to add variables.
* JAVA_HOME and GOROOT are mapped below the bundle in sandboxes as well, where that path does not exist; PATH is mapped again
  and doubled by every launcher an entry goes through.
* the comment in `build_env_block` says that PATH is completed so that bwrap is found; `find_bwrap` reads the PATH of the process.
* of two entries with one name the configuration of the last one counts (`PlanOf`).

Fairness. `PtraceTracer!FairSpec` has weak fairness of the loop, of the setup in the
child, and of each process's own steps: the kernel schedules a thread that can
run. Nothing makes signals or SIGKILL happen. A traced program that never ends is not in
the model (calls are bounded), and the code promises nothing about it.
`BwrapCache!FairSpec` has weak fairness of each launcher's step; it is enough for
`Served` because `flock` is dropped by the death of its owner and because the model has
finitely many launchers. `HostTraces!FairSpec` has weak fairness of the thread that traces and of the exit of every command,
none of faults or of other processes. None assumes that a step does not fail.

## 4. What is proved

For every set of processes, paths and launchers, every bound:

| theorem | statement |
|---|---|
| `PtraceTracerProofs!TypeSafety` | `Spec => []TypeOK` |
| `PtraceTracerProofs!PhaseSafety` | `Spec => []PhaseInStep` |
| `PtraceTracerProofs!ReportSafety` | `Spec => []ReportSound` |
| `PtraceTracerProofs!LaunchSafety` | `Spec => []NoReportWithoutLaunch` |
| `PtraceTracerProofs!NobodyIsLeft` | `Spec => []NobodyLeftBehind` |
| `PtraceTracerProofs!ReportIsComplete` | `Spec => []CompleteUnlessSkewed` |
| `BwrapCacheProofs!CacheTypes` | `Spec => []TypeOK` |
| `BwrapCacheProofs!CacheIntact` | `Spec => []Intact` |
| `BwrapCacheProofs!CacheExtractedOnce` | `Spec => ExtractedOnce` |
| `BwrapCacheProofs!CacheImplements` | `Spec => Cache!Spec`, the refinement |
| `LauncherProofs!DataSurvivesOne` | `PayloadData!Spec => []LossNeedsTwo` |
| `LauncherProofs!DataServedOneByOne` | `PayloadData!Spec => []AloneIsEnough` |
| `LauncherProofs!LauncherImplements` | `LaunchSpec => Spec` of `PayloadData`: a refinement |
| `LauncherProofs!LauncherLossNeedsTwo`, `LauncherAloneIsEnough` | the two above, of `LaunchSpec` |
| `LauncherProofs!LauncherTypes` | `LaunchSpec => []LaunchTypeOK` |
| `LauncherProofs!LauncherValidatedRuns` | `LaunchSpec => []ValidatedRuns` |
| `LauncherProofs!LauncherHomesServed` | `LaunchSpec => []HomesServed` |
| `HostTracesProofs!HostTypes` | `Spec => []TypeOK` |
| `HostTracesProofs!HostOwnFiles` | `Spec => []OwnFilesOnly` |
| `HostTracesProofs!HostCommandsAreTraced` | `Spec => []CommandsAreTraced` |
| `HostTracesProofs!HostNothingLeft` | `Spec => []NothingLeft` |
| `ShimExtractProofs!ShimTypes` | `Spec => []TypeOK` |
| `ShimExtractProofs!ShimMarkerTrue` | `Spec => []MarkerTrue` |
| `ShimExtractProofs!ShimRunsItsVersion` | `Spec => []RunsItsVersion` |
| `BundleAssemblyProofs!BundleTypes` | `Spec => []TypeOK` |
| `BundleAssemblyProofs!BundleFirstOfferKept` | `Spec => []FirstOfferKept` |
| `BundleAssemblyProofs!BundlePathsServed` | `Spec => []PathsServed` |
| `BundleAssemblyProofs!BundleLoopsNeedBothForms` | `Spec => []LoopsNeedBothForms` |
| `BundleAssemblyProofs!BundleBlockedByCopiesOnly` | `Spec => []BlockedByCopiesOnly` |
| `ImageRootsProofs!ImageTypes` | `Spec => []TypeOK` |
| `ImageRootsProofs!ImageSourcesStay` | `Spec => []SourcesStay` |
| `ImageRootsProofs!ImageRootIsThere` | `Spec => []RootIsThere` |
| `ImageRootsProofs!ImageOnlyKnownLeaks` | `Spec => []OnlyKnownLeaks` |
| `ClosureBuilderProofs!ClosureTypes` | `Spec => []TypeOK` |
| `ClosureBuilderProofs!ClosureLibrariesFound` | `Spec => []LibrariesFound` |
| `ClosureBuilderProofs!ClosureLinkerServes` | `Spec => []LinkerServes` |
| `ClosureBuilderProofs!ClosureProgramsHaveLibraries` | `Spec => []ProgramsHaveLibraries` |
| `ClosureBuilderProofs!ClosureScannedComplete` | `Spec => []ScannedComplete` |
| `ClosureBuilderProofs!ClosureNestingBounded` | `Spec => []NestingBounded` |

Assumptions: those of the modules, which TLC evaluates in the runs. Most say that a name for
nothing is no thing (`RootIsProc`, `FilesExist`), or that names in a list differ, as the keys of
`group_image_entries` do (`OriginsAreDistinct`). Four say more. `BundlesAreApart` and
`PlansNameThePayload` (`Launcher`): what a bundle has is below its directory, nothing of the host is there, and
a configuration names nothing but `payload/`, which is how `write_launchers` writes it. `PathsAreKnown` and `System`
(`ClosureBuilder`): a root has finitely many scripts and libraries, `classify_high_risk_asset` does not
name the linkers, and a path that a link leads to is no link itself.

The argument for the tracer. `TypeOK` alone is not inductive: `HandleFork` reads
`forked`, which holds no process until a first fork; `ForksHaveChildren` says that a
process at its fork event, or whose event is in the loop's hands, has a child. `PhaseInStep`
needs to know that a process that does not exist yet has a fresh flag
(`ChildrenAreNew`) and that no process comes back from its end
(`EndsAreFinal`), and states more of the stop in hand (`InStep`). `ReportSound`
does *not* rest on `PhaseInStep` for skewed processes, which it covers too: it rests
on `PendingIsCurrent` and `TouchedByCall`. A pending probe that is looked at inside a
call is that call. With a mixed-up flag a probe is noted at its own exit stop, and is next
looked at an entry, where rax is -ENOSYS: it is dropped, not reported. So a mixed-up flag
loses results and never misattributes them.

The argument for Ok. A process the loop does not track has not been resumed (`TrackedRun`), and a child it does not track
has a fork event ahead of it or is `Unannounced` (`ChildrenHeardOf`). So when the last tracee it tracks has ended nobody
has a fork event to deliver, and only unannounced children are alive, stopped at birth for good (`OkIsOver`). `NotLaunched` says that
Root is alone until the command runs, and that its end has a reason that `FinalResult` or `HandleSignaled` turns into
an error. `ReportComplete` puts what a process has touched in the report or `InFlight`, which is empty
for processes that are gone. The runs are too small for a child that loses its fork event and forks
again, so that its second child replaces the first in `forked`: the proof asks for the history `untold`.

The argument for the cache. `CacheInv` says who may hold the lock, that only
the holder is past it (`LockInv`), that the temporary file of the holder is
as long as the holder has written (`TmpInv`), that no two names mean one file (`NamesInv`), and
that the destination, once there, is whole and executable (`DestInv`). That two
launchers have one pid does not matter, since only one of them is past the lock at a time.

The argument for the data. A file is lost when it is copied onto itself, through a hard link or through the
mount. `FillsAlone`: unless two launchers have filled payload/data at once, at most one is filling, it has no
mount over what it fills, and nothing stands where it has still to link or to copy. `OneByOne`: unless launchers filled at once or one broke off, the directory is empty, or complete, or
exactly one fills it and has the rest on its list, so that who finds contents finds all. `Launcher` changes the
variables of `PayloadData` only through its steps, whatever the environment, so that both invariants carry over.

The argument for the entries. `EntryInv`: an entry on its way has a configuration of a bundle and an environment that
`BuildEnv` made of it, also when a launcher started the launcher. The rest is about `BuildEnv` and the
validator. Paths that name the payload lead into the bundle in each mode; what is below the bundle's directory is the bundle's
tree. The library paths of the configuration come first in LD_LIBRARY_PATH and removing doubles keeps the first of
each, so the first hit of the linker is that of the validator; the default directory comes last for both. For `HomesServed`,
mapping twice is mapping once, unless the path is of another bundle.

The argument for the reports. `OwnFilesOnly` alone says nothing of a trace that still runs. `TracedKnown`: a process that is traced
is one the running loop counts, or the loop was never told of it, or its trace failed. So a loop that ends
with nobody left to count leaves only untold tracees to the next, one that ends otherwise has failed, and what the next loop
reports beyond its own (`ReportOwn`) is excused. It needs that untold processes are children
(`UntoldAreChildren`) and that a trace has no result before it is over (`Untraced`). For the other two, `LiveKnown` says of every
process that is alive that the loop that runs awaits it, or that it is excused; `RootReported` and `EarlyReported` put what has to
be in a report there, or in fanotify's queue, or before its process; `Counting`: empty reads are counted only when
the child is gone and nothing of it waits in the queue.

The argument for the shim. While shims of one bundle unpack, no file need be whole. `Settled` says that a file is there or that a
shim of the bundle is about to create or fill it; what a shim has passed in its list stays settled (`WorkStays`), whoever
unlinks it. Two shims can make each other's `create_new` fail: `SomeoneFinishes` says that, unless all is settled, one that is not
`Doomed` is still at work, so that the files are all there when the last one leaves. `MarkerSettled` and `RunningSettled` are `MarkerTrue`
and `RunsItsVersion` with settled for whole: when nobody unpacks, the two are the same.

The argument for the nesting. A bound on the length of the stack is not inductive; `Nested` says that all activations
but the innermost scan a script, that each scans one of its own, and that these are
all in `scanned`, which only grows. So the activations below the innermost inject into the scripts. It needs
`PathsAreKnown`: the scripts of a root are finitely many. Nothing is assumed of what `ld.so` lists.

The argument for the roots. A resource carries the request and the way it was acquired for, and a step touches resources
of its own request only. Of the way in progress `scope` holds everything but the agent's container. Ways are tried in
an order (`Tried`), so that what one left behind is not taken for that of the way that succeeds, and the
steps a way has left tell which of its temporary resources are there. What is handed over is in `roots` or a known leak.

The argument for the search. `ClosureInv` says, of each activation, that the files it has visited have their libraries in the map,
below directories of the plan and under the names they were found by (`Has`), that those not visited are queued, and that plans
inherit this when the queue is empty. Three things make it more than bookkeeping. A search may be broken off over a
library far from its subject, and a command be lost with it: a search reaches only what every set contains that has the subject and is
closed under libraries none of which `Breaks`, so no search for that subject can succeed (`Good`), and no plan has it. A program is in the
map with its list, or it is one that cannot be listed (`Lost`), or an activation has it still to visit (`ProgsOk`). The stub leaves the map when a binary ends and comes back only with the
trace or a round that breaks off (`StubOk`, `StubBack`). And a command of a script scanned is settled, or an activation has it still before it
(`ScansOk`). What `ld.so` lists is a recursive function over the rounds of its search; that a list names
only files of the root is shown for the least round that would do otherwise. That the list is complete after
as many rounds as there are libraries is not needed.

The argument for the payload. `BundleInv` says of the inputs, at every stage: the files are the first offers for their destinations,
each destination once (`FilesOk`); every resolved path of a traced root has a file (`CanonsTaken`); traced links come before copied
ones, one for a path, and the link of a path that no other input names is there (`LinksOk`), as is its alias (`AliasesOk`). Of `emit`:
a path without a link holds one of the files that were placed there (`HeldFrom`), and the last link placed at a path is the one it has
(`PlacedAt`). Two arguments are about ways through links. A way through links of one spelling that ends keeps all its links when those with cycles go, since
whatever is on it ends too (`WayHasNoCycle`), so that one clean-up is enough (`CyclesGone`). And a traced link never blocks `emit`: what it leads
to is a file, copied links at files are gone by then, so from there on only traced links follow, and
their way ends at a file that is held. That is why the clean-up has to come before `emit`, and files before links.
A way is a recursive function again, and what is shown of it is shown for the least step that would do otherwise.
That its bound, one step more than there are paths, is enough to find every end is not needed: clean-up and
payload are measured with the same one.

Only model-checked: `Termination`, `Served` and `EndsInSilence`: liveness under fairness is out
of TLAPS's reach. The three disagreements of section 3 are counterexamples of TLC.

## 5. Not modelled, and why

* the agent inside its container (`execute_agent_trace`): it runs the closure builder there; only that
  it succeeds, fails or refuses is in `ImageRoots`.
* of the command line, argument parsing and the environment of traces; of the packager, the manifest, device nodes
  and the writing of shims: sequential code that writes what it is given. Of the closure builder, the resolvers of images and the helpers for python and java.
* threads: sidebundle has none of its own. Time: no sleep or timeout is in a model; the code's only one is the
  10 ms of `fanotify_parent`.
* `build.rs`, scripts: they run at build time and keep no state of the program.
* `vendor/userland-execve`: third-party code.

## 6. Plan

1. (done) `PtraceTracer`, `BwrapCache`, `ShimExtract`, `PayloadData`.
2. (done) `BundleAssembly`.
3. (done) `ImageRoots`, `ClosureBuilder`.
4. (done) `HostTraces`: the fanotify loop and traces in a row. `Launcher`: configurations, environments, the
   validator, composed with `PayloadData`. `RunsItsVersion` of the shim, and the proofs of
   `ShimExtract` and of what Ok means in `PtraceTracer`.
5. (done) The proofs of every safety property of `HostTraces`, `Launcher`, `PayloadData`, `ImageRoots`, `ClosureBuilder`.
6. (done) The proofs of `BundleAssembly`.
7. An abstract `Lease` (acquired, handed over, released once) that `ImageRoots` implements.
8. The agent inside the container, and the choice of the command to trace.
