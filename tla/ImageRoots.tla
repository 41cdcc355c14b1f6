------------------------------ MODULE ImageRoots ------------------------------
(***************************************************************************)
(* What `sidebundle create` acquires outside of its own process while it   *)
(* makes image root file systems available: containers, mounts, exported   *)
(* directories, a podman service; and who has to give each of them back.   *)
(* The providers of sidebundle-closure/src/image.rs, AgentTraceRunner of   *)
(* sidebundle-cli/src/agent.rs, and the life of their roots in main.rs.    *)
(*                                                                         *)
(* A provider tries several ways one after the other; a way is a sequence  *)
(* of steps most of which can fail, and what it holds by then (scope) is   *)
(* released by the destructors of its local guards.  A way that succeeds   *)
(* hands what its root needs over to an ImageRoot.  The files of the       *)
(* closure are read in the roots until the packager has copied them.       *)
(*                                                                         *)
(* Not here: removals that fail (every one of them ignores its result),    *)
(* SIGINT (nothing handles it: no destructor runs), and what the steps     *)
(* compute.                                                                *)
(***************************************************************************)
EXTENDS Naturals, Sequences, SequencesExt

CONSTANTS
    Images,      \* the image references, in their order
    MaxRequests  \* bound: groups of image entries and copied directories

ASSUME ImagesAreDistinct == IsInjective(Images)
ASSUME BoundIsPositive == MaxRequests \in Nat \ {0}

VARIABLES
    stage,       \* what is done for the request
    args,        \* the command line: requests, the agent, what it shall keep
    now,         \* the request being served
    tools,       \* container tools left to try for it
    ways,        \* ways left of the first of them
    ops,         \* steps left of the first of these
    world,       \* what has been acquired and not been released
    scope,       \* what the way's guards release when it is left
    root,        \* the ImageRoot of the request
    roots,       \* the roots resolver_entries holds
    sources      \* what the files of the closure are read from

vars == <<stage, args, now, tools, ways, ops, world, scope, root, roots, sources>>
attempt == <<tools, ways, ops>>

Preferences == <<"auto", "docker", "podman">>
Request == [kind : {"entries", "copy"}, image : Range(Images), tool : Range(Preferences)]

\* Groups of entries come first, in the order of a BTreeMap.
Place(seq, x) == CHOOSE i \in DOMAIN seq : seq[i] = x
Rank(r) == Place(Preferences, r.tool) * (Len(Images) + 1) + Place(Images, r.image)
Plans ==
    {p \in UNION {[1..n -> Request] : n \in 1..MaxRequests} :
       \A i, j \in DOMAIN p : i < j /\ p[j].kind = "entries" =>
            p[i].kind = "entries" /\ Rank(p[i]) < Rank(p[j])}

AgentWays == {"docker-agent", "podman-agent"}
AllWays == AgentWays \cup
    {"docker-api", "docker-cli", "podman-mount", "podman-export", "podman-service"}

Resource ==
    [req : 1..MaxRequests, via : AllWays,
     kind : {"container", "mounted", "dir", "files", "bind", "service", "out"}]
Root == [image : Range(Images), files : Resource, owns : SUBSET Resource]
NoRoot == [image |-> "none"]

TypeOK ==
    /\ stage \in {"next", "provide", "use", "apart", "emit", "done"}
    /\ args \in [plan : Plans, agent : BOOLEAN, keep : SUBSET {"out", "dir"}]
    /\ now \in 1..(Len(args.plan) + 1)
    /\ tools \in Seq({"docker", "podman"})
    /\ ways \in Seq(AllWays)
    /\ world \subseteq Resource /\ scope \subseteq world
    /\ root \in Root \cup {NoRoot} /\ roots \in Seq(Root)
    /\ sources \subseteq Resource

Init ==
    /\ stage = "next"
    /\ args \in [plan : Plans, agent : BOOLEAN, keep : SUBSET {"out", "dir"}]
    /\ now = 1
    /\ tools = <<>> /\ ways = <<>> /\ ops = <<>>
    /\ world = {} /\ scope = {} /\ sources = {}
    /\ root = NoRoot /\ roots = <<>>

-----------------------------------------------------------------------------
(* The ways to a root, step by step.                                       *)

DockerApi     ==
    <<"runtime", "connect", "create", "inspect", "dir", "export", "unpack", "remove">>
DockerCli     == <<"create", "dir", "export", "unpack", "inspect", "remove", "bind">>
PodmanMountRemoves ==                             \* mutant: as after an export
    <<"create", "mount", "inspect", "remove", "bind">>
PodmanMount   == <<"create", "mount", "inspect", "bind">>
PodmanExport  == <<"dir", "export", "unpack", "inspect", "remove", "bind">>
PodmanService ==
    <<"service", "runtime", "connect", "create", "inspect", "dir", "export", "unpack",
      "remove", "shutdown">>
AgentTrace    ==
    <<"dirs", "create", "inspect", "spec", "start", "export", "unpack", "remove", "report">>

Script(w) ==
    CASE w = "docker-api"     -> DockerApi
      [] w = "docker-cli"     -> DockerCli
      [] w = "podman-mount"   -> PodmanMount
      [] w = "podman-export"  -> PodmanExport
      [] w = "podman-service" -> PodmanService
      [] w \in AgentWays      -> AgentTrace

Req == args.plan[now]

ByAgent == args.agent /\ Req.kind = "entries"
WaysOf(tool) ==
    CASE ByAgent /\ tool = "docker"  -> <<"docker-agent">>
      [] ByAgent /\ tool # "docker"  -> <<"podman-agent">>
      [] ~ByAgent /\ tool = "docker" -> <<"docker-api", "docker-cli">>
      [] ~ByAgent /\ tool # "docker" -> <<"podman-mount", "podman-export", "podman-service">>

\* A copied directory has no second tool.
ToolsAsGiven(r) == <<r.tool>>                     \* mutant: "auto" is no tool
ToolsOf(r) ==
    IF r.tool # "auto" THEN <<r.tool>>
    ELSE IF r.kind = "entries" THEN <<"docker", "podman">> ELSE <<"docker">>

Way == Head(ways)
Op  == Head(ops)

\* The export of podman's command line takes the container of the mount.
The(kind) ==
    [req |-> now, kind |-> kind,
     via |-> IF Way = "podman-export" /\ kind \in {"container", "mounted"}
             THEN "podman-mount" ELSE Way]

Gets ==
    CASE Op = "create"  -> {The("container")}
      [] Op = "mount"   -> {The("mounted")}
      [] Op = "dir"     -> {The("dir")}
      [] Op = "dirs"    -> {The("dir"), The("out")}
      [] Op = "unpack"  -> {The("files")}
      [] Op = "service" -> {The("service")}
      [] Op = "bind"    -> {The("bind")}
      [] OTHER          -> {}

Drops ==
    CASE Op = "remove"   -> {The("container"), The("mounted")}
      [] Op = "shutdown" -> {The("service")}
      [] OTHER           -> {}

\* What a guard releases; the agent's container has none.
GuardedButCli(S) ==                               \* mutant: nor has docker's
    {r \in S : ~(r.via \in AgentWays \cup {"docker-cli"} /\ r.kind = "container")}
Guarded(S) == {r \in S : ~(r.via \in AgentWays /\ r.kind = "container")}

\* A directory that is a mount point is emptied, but not removed.
Without(w, S) ==
    w \ {r \in S : r.kind = "dir" => [r EXCEPT !.kind = "bind"] \notin w \ S}

-----------------------------------------------------------------------------
(* What follows when a way, a tool, or all of them fail.                   *)

Quit(w) ==
    /\ stage' = "done"
    /\ world' = Without(w, UNION {q.owns : q \in Range(roots)})
    /\ roots' = <<>>
    /\ tools' = <<>> /\ ways' = <<>> /\ ops' = <<>>

TryWays(ws) == ways' = ws /\ ops' = Script(Head(ws))

NextTool(w) ==
    IF Len(tools) > 1
    THEN /\ stage' = "provide"
         /\ tools' = Tail(tools)
         /\ TryWays(WaysOf(tools[2]))
         /\ world' = w
         /\ UNCHANGED roots
    ELSE Quit(w)

NextWay(rest, w) ==
    IF rest # <<>>
    THEN /\ TryWays(rest)
         /\ world' = w
         /\ UNCHANGED <<stage, tools, roots>>
    ELSE NextTool(w)

-----------------------------------------------------------------------------
(* The requests, in order.                                                 *)

Serving(q) == {i \in DOMAIN roots : roots[i].image = q.image}

Begin ==
    /\ stage = "next" /\ now <= Len(args.plan)
    /\ Req.kind = "copy" => Serving(Req) = {}
    /\ stage' = "provide"
    /\ tools' = ToolsOf(Req)
    /\ TryWays(WaysOf(Head(ToolsOf(Req))))
    /\ UNCHANGED <<args, now, world, scope, root, roots, sources>>

\* A step of the way succeeds.
Perform ==
    /\ stage = "provide" /\ ops # <<>>
    /\ Op = "export" => The("container") \in world
    /\ ops' = Tail(ops)
    /\ world' = (world \cup Gets) \ Drops
    /\ scope' = (scope \cup Guarded(Gets)) \ Drops
    /\ UNCHANGED <<stage, args, now, tools, ways, root, roots, sources>>

\* A step fails: the way is left, and its guards release what they hold.
\* Without a runtime docker has no second way, without a container podman's
\* command line has none; it keeps a container it could not mount.
Fail ==
    /\ stage = "provide" /\ ops # <<>> /\ Op \notin {"remove", "shutdown"}
    /\ LET kept == IF Way = "podman-mount" /\ Op # "bind" THEN scope ELSE {}
           rest == IF <<Way, Op>> \in {<<"docker-api", "runtime">>, <<"podman-mount", "create">>}
                   THEN Tail(Tail(ways)) ELSE Tail(ways)
       IN  /\ NextWay(rest, Without(world, scope \ kept))
           /\ scope' = kept
    /\ UNCHANGED <<args, now, root, sources>>

\* bind_mount mounts, but cannot make the mount private, and leaves it.
FailUnprivate ==
    /\ stage = "provide" /\ ops # <<>> /\ Op = "bind"
    /\ NextWay(Tail(ways), Without(world \cup Gets, scope))
    /\ scope' = {}
    /\ UNCHANGED <<args, now, root, sources>>

\* The agent, the export or tar is run and reports a failure: unlike where
\* they cannot be run, the container is removed.
Refuse ==
    /\ stage = "provide" /\ ops # <<>>
    /\ Way \in AgentWays /\ Op \in {"start", "export", "unpack"}
    /\ NextWay(Tail(ways), Without(world \ {The("container")}, scope))
    /\ scope' = {}
    /\ UNCHANGED <<args, now, root, sources>>

\* The way has succeeded.  An ImageRoot takes over what its files need, but
\* for what the agent was told to keep; other guards release the rest.
Return ==
    /\ stage = "provide" /\ ops = <<>>
    /\ LET kept  == IF Way \in AgentWays THEN args.keep ELSE {}
           files == IF Way = "podman-mount" THEN The("mounted") ELSE The("files")
           owns  == {r \in scope : r.kind # "out" /\ (r.kind \in {"dir", "files"} => "dir" \notin kept)}
       IN  /\ root' = [image |-> Req.image, files |-> files, owns |-> owns]
           /\ world' = IF "out" \in kept THEN world ELSE world \ {The("out")}
    /\ scope' = {}
    /\ stage' = IF Req.kind = "copy" THEN "apart" ELSE "use"
    /\ UNCHANGED <<args, now, attempt, roots, sources>>

-----------------------------------------------------------------------------
(* The use of a root.                                                      *)

NextRequest ==
    /\ stage' = "next" /\ now' = now + 1
    /\ root' = NoRoot
    /\ tools' = <<>> /\ ways' = <<>> /\ ops' = <<>>

\* build_closure_from_root: its resolver keeps the root.
UseOnce ==                                        \* mutant: it does not
    /\ stage = "use"
    /\ sources' = sources \cup {root.files}
    /\ world' = Without(world, root.owns)
    /\ NextRequest
    /\ UNCHANGED <<args, scope, roots>>
Use ==
    /\ stage = "use"
    /\ sources' = sources \cup {root.files}
    /\ roots' = Append(roots, root)
    /\ NextRequest
    /\ UNCHANGED <<args, world, scope>>

\* It fails; the root is dropped, and the next tool may do better.
UseFails ==
    /\ stage = "use"
    /\ NextTool(Without(world, root.owns))
    /\ root' = NoRoot
    /\ UNCHANGED <<args, now, scope, sources>>

\* A directory of an image that has a root already: the first one.
CopyServed ==
    /\ stage = "next" /\ now <= Len(args.plan)
    /\ Req.kind = "copy" /\ Serving(Req) # {}
    /\ \/ /\ \E i \in Serving(Req) :
               /\ \A j \in Serving(Req) : i <= j
               /\ sources' = sources \cup {roots[i].files}
          /\ NextRequest
          /\ UNCHANGED <<world, roots>>
       \/ /\ Quit(world)
          /\ UNCHANGED <<now, root, sources>>
    /\ UNCHANGED <<args, scope>>

\* Of an image that has none the path is kept, and the root taken apart:
\* into_parts drops the cleanup without a call, which removes a TempDir it
\* has and nothing else; and with the path taken, no mount is found to undo.
TakeApart ==
    /\ stage = "apart" /\ root.owns # {}
    /\ world' = Without(world, {r \in root.owns : r.kind \in {"dir", "files"}})
    /\ root' = [root EXCEPT !.owns = {}]
    /\ UNCHANGED <<stage, args, now, attempt, scope, roots, sources>>

\* Copying it: is_dir holds of what is there, and of the mount point itself.
CopyTaken ==
    /\ stage = "apart" /\ root.owns = {}
    /\ \/ /\ root.files \in world
          /\ sources' = sources \cup {root.files}
          /\ NextRequest
          /\ UNCHANGED <<world, roots>>
       \/ /\ [root.files EXCEPT !.kind = "dir"] \in world
          /\ NextRequest
          /\ UNCHANGED <<world, roots, sources>>
       \/ /\ Quit(world)
          /\ UNCHANGED <<now, root, sources>>
    /\ UNCHANGED <<args, scope>>

\* The packager reads its files, or fails to; then all roots are dropped.
Emit ==
    /\ stage = "next" /\ now > Len(args.plan)
    /\ stage' = "emit"
    /\ UNCHANGED <<args, now, attempt, world, scope, root, roots, sources>>

Finish ==
    /\ stage = "emit"
    /\ Quit(world)
    /\ UNCHANGED <<args, now, scope, root, sources>>

Next ==
    \/ Begin \/ Perform \/ Fail \/ FailUnprivate \/ Refuse \/ Return
    \/ Use \/ UseFails \/ CopyServed \/ TakeApart \/ CopyTaken
    \/ Emit \/ Finish

Spec == Init /\ [][Next]_vars

-----------------------------------------------------------------------------
(* What must not be lost, and what must not be left.                       *)

\* Every file of the closure can be read until the packager is done: what it
\* is in is neither removed nor unmounted.
SourcesStay == stage # "done" => sources \subseteq world

\* A root is complete when it is handed to the closure builder.
RootIsThere == stage = "use" => root.files \in world /\ root.owns \subseteq world

Owned == scope \cup (UNION {q.owns : q \in Range(roots)}) \cup (IF root = NoRoot THEN {} ELSE root.owns)

\* The way to r came to nothing.
Abandoned(r) == ~\E s \in sources : s.req = r.req /\ s.via = r.via
Copied(r)    == args.plan[r.req].kind = "copy"

\* Whatever the command holds has an owner, which will release it, but for:
\* the agent's container while it runs or when its way broke off; mounts that
\* could not be made private, and their directories; what a root was taken
\* apart from; and what shall be kept.
OnlyKnownLeaks ==
    \A r \in world \ Owned :
        \/ r.kind = "container" /\ r.via \in AgentWays /\ Abandoned(r)
        \/ r.kind \in {"bind", "dir"} /\ [r EXCEPT !.kind = "bind"] \in world
             /\ (Abandoned(r) \/ Copied(r))
        \/ r.kind \in {"container", "mounted"} /\ Copied(r) /\ r.via = "podman-mount"
        \/ r.via \in AgentWays /\ r.kind = "out" /\ "out" \in args.keep
        \/ r.via \in AgentWays /\ r.kind \in {"dir", "files"} /\ "dir" \in args.keep

-----------------------------------------------------------------------------
(* What a test says, and the code refutes.                                 *)

\* image.rs:855, into_parts_detaches_cleanup: nothing is cleaned up when a
\* root is taken apart.
RootOutlivesItsParts == stage = "apart" => root.files \in world
=============================================================================
