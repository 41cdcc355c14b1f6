--------------------------- MODULE ImageRootsProofs ---------------------------
(***************************************************************************)
(* What a create command acquires for its images stays as long as the      *)
(* closure reads it, and does not outlast the command but for the leaks    *)
(* listed: for any requests, by any tools, whichever steps fail.           *)
(***************************************************************************)
EXTENDS ImageRoots, SequenceTheorems, TLAPS

(***************************************************************************)
(* The argument: a resource carries the request and the way it was         *)
(* acquired for, and a step of a request touches resources of that request *)
(* only.  Of the way in progress the guards hold everything but the        *)
(* agent's container; ways are tried in an order, so that what a way left  *)
(* behind is never taken for that of the way that succeeds; and the steps  *)
(* left tell which temporary resources are still there.                    *)
(***************************************************************************)
Handed == UNION {q.owns : q \in Range(roots)}
Mount(r) == [r EXCEPT !.kind = "bind"]

\* Known leaks, in a world w: those of a way that was successful, and others.
StrayFor(w, r) ==
    \/ r.kind \in {"bind", "dir"} /\ Mount(r) \in w /\ Copied(r)
    \/ r.kind \in {"container", "mounted"} /\ Copied(r) /\ r.via = "podman-mount"
    \/ r.via \in AgentWays /\ r.kind = "out" /\ "out" \in args.keep
    \/ r.via \in AgentWays /\ r.kind \in {"dir", "files"} /\ "dir" \in args.keep
Stray(w, r) ==
    \/ StrayFor(w, r)
    \/ r.kind = "container" /\ r.via \in AgentWays /\ Abandoned(r)
    \/ r.kind \in {"bind", "dir"} /\ Mount(r) \in w /\ Abandoned(r)

\* The ways that may have been tried before w.
Tried(w) ==
    CASE w = "docker-cli"     -> {"docker-api"}
      [] w = "podman-agent"   -> {"docker-agent"}
      [] w = "podman-mount"   -> {"docker-api", "docker-cli"}
      [] w = "podman-export"  -> {"docker-api", "docker-cli", "podman-mount"}
      [] w = "podman-service" -> {"docker-api", "docker-cli", "podman-mount", "podman-export"}
      [] OTHER                -> {}

WaysLeft(tool) ==
    IF ByAgent THEN {WaysOf(tool)}
    ELSE IF tool = "docker" THEN {<<"docker-api", "docker-cli">>, <<"docker-cli">>}
    ELSE {<<"podman-mount", "podman-export", "podman-service">>,
          <<"podman-export", "podman-service">>, <<"podman-service">>}

Attempting ==
    stage \in {"provide", "use", "apart"} =>
        /\ now \in DOMAIN args.plan
        /\ tools \in {<<"docker">>, <<"podman">>, <<"docker", "podman">>}
        /\ ways \in WaysLeft(Head(tools))

Suffix(s, k) == SubSeq(s, k, Len(s))
Stepping ==
    stage = "provide" => \E k \in 1..Len(Script(Way)) + 1 : ops = Suffix(Script(Way), k)

\* Who holds what at which stage.
Staged ==
    /\ stage = "use" => Req.kind = "entries"
    /\ stage = "apart" => Req.kind = "copy"
    /\ stage \notin {"use", "apart", "done"} => root = NoRoot
    /\ stage # "provide" => scope = {}
    /\ \A s \in sources : s.req < now
    /\ \A r \in world : r.req <= now /\ (stage \in {"next", "emit"} => r.req < now)

\* What the guards of the way hold, besides what the mount of podman left to
\* the export.
Scoped ==
    stage = "provide" =>
        /\ \A r \in scope : r.req = now /\
              \/ r.via = Way
              \/ /\ Way = "podman-export" /\ "remove" \in Range(ops)
                 /\ r.via = "podman-mount" /\ r.kind \in {"container", "mounted"}
        /\ Way # "podman-mount" => "unpack" \in Range(ops) \/ The("files") \in scope
        /\ Way = "podman-mount" =>
              /\ "remove" \notin Range(ops)
              /\ "mount" \in Range(ops) \/ The("mounted") \in scope
              /\ "create" \in Range(ops) => scope = {}
              /\ \A r \in scope :
                   r.kind \in {"container", "mounted"} \/ (r.kind = "bind" /\ ops = <<>>)

\* A resource of the way in progress.
Mine(r) ==
    /\ r \in scope \/ (Way \in AgentWays /\ r.kind = "container")
    /\ r.kind = "container" =>
         Way = "podman-mount" \/ (Way # "podman-export" /\ "remove" \in Range(ops))
    /\ r.kind = "mounted" => Way = "podman-mount"
    /\ r.kind = "service" => "shutdown" \in Range(ops)

Providing ==
    stage = "provide" =>
        \A r \in world : r.req = now =>
            \/ r.via = Way /\ Mine(r)
            \/ r.via \in Tried(Way) /\ (r \in scope \/ Stray(world, r))

Rooted ==
    stage \in {"use", "apart"} =>
        /\ root \in Root /\ root.files.req = now /\ root.files.via = Way
        /\ root.owns \subseteq world
        /\ stage = "use" => root.files \in world
        /\ \A r \in root.owns :
             /\ r.req = now /\ r.via = Way
             /\ \/ r.kind \in {"dir", "files", "bind"}
                \/ r.kind \in {"container", "mounted"} /\ Way = "podman-mount"
        /\ \A r \in world : r.req = now =>
             \/ r.via = Way /\ (r \in root.owns \/ StrayFor(world, r))
             \/ r.via \in Tried(Way) /\ Stray(world, r)

\* The roots that the resolvers keep are those that sources lie in.
RootsKept ==
    \A q \in Range(roots) :
        /\ q.files \in sources /\ args.plan[q.files.req].kind = "entries"
        /\ \A r \in q.owns : r.req = q.files.req /\ r.via = q.files.via

Past ==
    /\ stage # "done" => \A r \in world : r.req < now => r \in Handed \/ Stray(world, r)
    /\ stage = "done" => \A r \in world : Stray(world, r)

Inv ==
    /\ TypeOK /\ Attempting /\ Stepping /\ Staged /\ Scoped /\ Providing /\ Rooted
    /\ RootsKept /\ Past /\ SourcesStay

-----------------------------------------------------------------------------
\* What is removed, and what stays.

LEMMA WithoutFacts ==
  ASSUME NEW w, NEW S
  PROVE  /\ Without(w, S) \subseteq w
         /\ \A r \in w : r \notin S => r \in Without(w, S)
         /\ \A r \in Without(w, S) : r \in S => r.kind = "dir" /\ Mount(r) \in w /\ Mount(r) \notin S
BY DEF Without, Mount

LEMMA MountFacts ==
  \A r \in Resource : /\ Mount(r) \in Resource /\ Mount(r).kind = "bind"
                      /\ Mount(r).req = r.req /\ Mount(r).via = r.via
                      /\ Mount(Mount(r)) = Mount(r) /\ (r.kind = "bind" => Mount(r) = r)
BY DEF Resource, Mount

\* A known leak remains one when its mount, if that makes it one, and the
\* sources stay.
Bound(w, r) == r.kind \in {"bind", "dir"} /\ Mount(r) \in w /\ (Copied(r) \/ Abandoned(r))

LEMMA StrayKept ==
  ASSUME NEW w, NEW v, NEW r, Stray(w, r), Bound(w, r) => Mount(r) \in v
  PROVE  Stray(v, r)
BY DEF Stray, StrayFor, Bound

LEMMA StrayNext ==
  ASSUME NEW w, NEW v, NEW r, Stray(w, r), Bound(w, r) => Mount(r) \in v,
         args' = args, \A s \in sources' : s \in sources \/ ~(s.req = r.req /\ s.via = r.via)
  PROVE  (Stray(v, r))'
BY DEF Stray, StrayFor, Abandoned, Copied, Bound

-----------------------------------------------------------------------------
\* The steps of a way.

Steps ==
    {"runtime", "connect", "create", "mount", "inspect", "dir", "dirs", "spec", "start", "export",
     "unpack", "remove", "service", "shutdown", "report", "bind"}

LEMMA Scripts ==
  /\ Script("docker-api") = DockerApi /\ Script("docker-cli") = DockerCli
  /\ Script("podman-mount") = PodmanMount /\ Script("podman-export") = PodmanExport
  /\ Script("podman-service") = PodmanService /\ \A w \in AgentWays : Script(w) = AgentTrace
BY DEF Script, AgentWays

LEMMA ScriptsAreSeqs ==
  \A w \in AllWays : Script(w) \in Seq(Steps) /\ Len(Script(w)) \in 1..10
<1>1. /\ DockerApi \in Seq(Steps) /\ Len(DockerApi) = 8
      /\ DockerCli \in Seq(Steps) /\ Len(DockerCli) = 7
      /\ PodmanMount \in Seq(Steps) /\ Len(PodmanMount) = 4
  BY DEF DockerApi, DockerCli, PodmanMount, Steps
<1>2. /\ PodmanExport \in Seq(Steps) /\ Len(PodmanExport) = 6
      /\ PodmanService \in Seq(Steps) /\ Len(PodmanService) = 10
      /\ AgentTrace \in Seq(Steps) /\ Len(AgentTrace) = 9
  BY DEF PodmanExport, PodmanService, AgentTrace, Steps
<1> QED
  BY <1>1, <1>2, Scripts DEF AllWays

LEMMA SuffixFacts ==
  ASSUME NEW s \in Seq(Steps), NEW k \in 1..Len(s) + 1
  PROVE  /\ Suffix(s, k) \in Seq(Steps) /\ Range(Suffix(s, k)) = {s[j] : j \in k..Len(s)}
         /\ Suffix(s, k) = <<>> => k = Len(s) + 1
         /\ Suffix(s, k) # <<>> =>
              /\ k \in 1..Len(s) /\ Head(Suffix(s, k)) = s[k]
              /\ Tail(Suffix(s, k)) = Suffix(s, k + 1)
<1>1. /\ Suffix(s, k) \in Seq(Steps) /\ Len(Suffix(s, k)) = Len(s) + 1 - k
      /\ \A i \in 1..Len(s) + 1 - k : Suffix(s, k)[i] = s[i + k - 1]
  BY DEF Suffix
<1>2. Range(Suffix(s, k)) = {s[j] : j \in k..Len(s)}
  <2>1. \A i \in 1..Len(s) + 1 - k : i + k - 1 \in k..Len(s)
    OBVIOUS
  <2>2. \A j \in k..Len(s) : j - k + 1 \in 1..Len(s) + 1 - k /\ (j - k + 1) + k - 1 = j
    OBVIOUS
  <2>3. DOMAIN Suffix(s, k) = 1..Len(s) + 1 - k
    BY <1>1
  <2>4. \A i \in DOMAIN Suffix(s, k) : \E j \in k..Len(s) : Suffix(s, k)[i] = s[j]
    BY <1>1, <2>1, <2>3
  <2>5. \A j \in k..Len(s) : j - k + 1 \in DOMAIN Suffix(s, k) /\ Suffix(s, k)[j - k + 1] = s[j]
    BY <1>1, <2>2, <2>3
  <2> QED
    BY <2>4, <2>5, SMTT(30) DEF Range
<1>3. CASE k = Len(s) + 1
  <2>1. Suffix(s, k) = <<>>
    BY <1>1, <1>3, EmptySeq
  <2> QED
    BY <1>1, <1>2, <1>3, <2>1
<1>4. CASE k # Len(s) + 1
  <2>1. k \in 1..Len(s) /\ Suffix(s, k) # <<>>
    BY <1>1, <1>4
  <2>2. Head(Suffix(s, k)) = s[k] /\ Tail(Suffix(s, k)) = Suffix(s, k + 1)
    BY <2>1 DEF Suffix
  <2> QED
    BY <1>1, <1>2, <2>1, <2>2
<1> QED
  BY <1>3, <1>4

\* What is after what in the ways.
LEMMA ScriptOrder ==
  ASSUME NEW w \in AllWays, NEW s, s = Script(w), NEW k \in 1..Len(s)
  PROVE  /\ s[k] = "create" /\ w # "podman-mount" =>
              w # "podman-export" /\ \E j \in k + 1..Len(s) : s[j] = "remove"
         /\ s[k] = "service" => \E j \in k + 1..Len(s) : s[j] = "shutdown"
         /\ s[k] = "mount" => w = "podman-mount"
         /\ w = "podman-mount" =>
              /\ \A j \in k + 1..Len(s) : s[j] # "create"
              /\ \A j \in 1..Len(s) : s[j] # "remove"
              /\ s[k] \in {"create", "mount", "inspect", "bind"} /\ (s[k] = "bind" => k = Len(s))
<1>1. CASE w = "docker-api"
  <2>1. s = DockerApi
    BY <1>1, Scripts
  <2>2. Len(s) = 8 /\ s[8] = "remove" /\ (s[k] = "create" => k = 3) /\ s[k] \notin {"service", "mount"}
    BY <2>1 DEF DockerApi
  <2> QED
    BY <1>1, <2>2
<1>2. CASE w = "docker-cli"
  <2>1. s = DockerCli
    BY <1>2, Scripts
  <2>2. Len(s) = 7 /\ s[6] = "remove" /\ (s[k] = "create" => k = 1) /\ s[k] \notin {"service", "mount"}
    BY <2>1 DEF DockerCli
  <2> QED
    BY <1>2, <2>2
<1>3. CASE w = "podman-mount"
  <2>1. s = PodmanMount
    BY <1>3, Scripts
  <2>2. /\ Len(s) = 4 /\ s[k] # "service"
        /\ s[k] \in {"create", "mount", "inspect", "bind"} /\ (s[k] = "bind" => k = 4)
        /\ \A j \in 1..Len(s) : s[j] # "remove" /\ (s[j] = "create" => j = 1)
    BY <2>1 DEF PodmanMount
  <2> QED
    BY <1>3, <2>2
<1>4. CASE w = "podman-export"
  <2>1. s = PodmanExport
    BY <1>4, Scripts
  <2>2. Len(s) = 6 /\ s[k] \notin {"create", "service", "mount"}
    BY <2>1 DEF PodmanExport
  <2> QED
    BY <1>4, <2>2
<1>5. CASE w = "podman-service"
  <2>1. s = PodmanService
    BY <1>5, Scripts
  <2>2. /\ Len(s) = 10 /\ s[9] = "remove" /\ s[10] = "shutdown" /\ s[k] # "mount"
        /\ (s[k] = "create" => k = 4) /\ (s[k] = "service" => k = 1)
    BY <2>1 DEF PodmanService
  <2> QED
    BY <1>5, <2>2
<1>6. CASE w \in AgentWays
  <2>1. s = AgentTrace
    BY <1>6, Scripts
  <2>2. Len(s) = 9 /\ s[8] = "remove" /\ (s[k] = "create" => k = 2) /\ s[k] \notin {"service", "mount"}
    BY <2>1 DEF AgentTrace
  <2> QED
    BY <1>6, <2>2 DEF AgentWays
<1> QED
  BY <1>1, <1>2, <1>3, <1>4, <1>5, <1>6 DEF AllWays

LEMMA OpFacts ==
  ASSUME NEW w \in AllWays, NEW o, NEW k \in 1..Len(Script(w)) + 1, o = Suffix(Script(w), k), o # <<>>
  PROVE  /\ k + 1 \in 1..Len(Script(w)) + 1 /\ Tail(o) = Suffix(Script(w), k + 1)
         /\ Range(o) = Range(Tail(o)) \cup {Head(o)}
         /\ Head(o) = "create" /\ w # "podman-mount" => w # "podman-export" /\ "remove" \in Range(Tail(o))
         /\ Head(o) = "service" => "shutdown" \in Range(Tail(o))
         /\ Head(o) = "mount" => w = "podman-mount"
         /\ w = "podman-mount" =>
              /\ "create" \notin Range(Tail(o)) /\ "remove" \notin Range(o)
              /\ Head(o) \in {"create", "mount", "inspect", "bind"}
              /\ Head(o) = "bind" => Tail(o) = <<>>
<1> DEFINE s == Script(w)
<1> HIDE DEF s
<1>1. s \in Seq(Steps) /\ Len(s) \in 1..10
  BY ScriptsAreSeqs DEF s
<1>2. k \in 1..Len(s) /\ Head(o) = s[k] /\ Tail(o) = Suffix(s, k + 1)
      /\ Range(o) = {s[j] : j \in k..Len(s)}
  BY <1>1, SuffixFacts DEF s
<1>3. k + 1 \in 1..Len(s) + 1 /\ Range(Tail(o)) = {s[j] : j \in k + 1..Len(s)}
  <2>1. k + 1 \in 1..Len(s) + 1
    BY <1>1, <1>2
  <2>2. Range(Suffix(s, k + 1)) = {s[j] : j \in k + 1..Len(s)}
    BY <1>1, <2>1, SuffixFacts
  <2> QED
    BY <1>2, <2>1, <2>2
<1>4. k..Len(s) = (k + 1..Len(s)) \cup {k}
  BY <1>1, <1>2
<1>5. Range(o) = Range(Tail(o)) \cup {Head(o)}
  BY <1>2, <1>3, <1>4
<1>6. /\ s[k] = "create" /\ w # "podman-mount" =>
              w # "podman-export" /\ \E j \in k + 1..Len(s) : s[j] = "remove"
      /\ s[k] = "service" => \E j \in k + 1..Len(s) : s[j] = "shutdown"
      /\ s[k] = "mount" => w = "podman-mount"
      /\ w = "podman-mount" =>
              /\ \A j \in k + 1..Len(s) : s[j] # "create"
              /\ \A j \in 1..Len(s) : s[j] # "remove"
              /\ s[k] \in {"create", "mount", "inspect", "bind"} /\ (s[k] = "bind" => k = Len(s))
  BY <1>2, ScriptOrder DEF s
<1>7. k..Len(s) \subseteq 1..Len(s)
  BY <1>1
<1>8. k = Len(s) => Tail(o) = <<>>
  BY <1>1, <1>2, SubSeqEmpty DEF Suffix
<1> QED
  BY <1>1, <1>2, <1>3, <1>5, <1>6, <1>7, <1>8 DEF s

\* A way begins with its script, and ends when nothing is left of it.
LEMMA WholeScript ==
  ASSUME NEW w \in AllWays
  PROVE  /\ \E k \in 1..Len(Script(w)) + 1 : Script(w) = Suffix(Script(w), k)
         /\ w # "podman-mount" => "unpack" \in Range(Script(w))
         /\ w = "podman-mount" => "mount" \in Range(Script(w)) /\ "remove" \notin Range(Script(w))
         /\ w = "podman-export" => "remove" \in Range(Script(w))
<1>1. Script(w) \in Seq(Steps) /\ Len(Script(w)) \in 1..10
  BY ScriptsAreSeqs
<1>2. Suffix(Script(w), 1) = Script(w)
  BY <1>1 DEF Suffix
<1>3. Range(Script(w)) = {Script(w)[j] : j \in 1..Len(Script(w))}
  BY <1>1 DEF Range
<1>4. w # "podman-mount" => \E j \in 1..Len(Script(w)) : Script(w)[j] = "unpack"
  <2>1. DockerApi[7] = "unpack" /\ DockerCli[4] = "unpack" /\ PodmanExport[3] = "unpack"
    BY DEF DockerApi, DockerCli, PodmanExport
  <2>2. PodmanService[8] = "unpack" /\ AgentTrace[7] = "unpack"
    BY DEF PodmanService, AgentTrace
  <2>3. Len(DockerApi) = 8 /\ Len(DockerCli) = 7 /\ Len(PodmanExport) = 6
    BY DEF DockerApi, DockerCli, PodmanExport
  <2>4. Len(PodmanService) = 10 /\ Len(AgentTrace) = 9
    BY DEF PodmanService, AgentTrace
  <2> QED
    BY <2>1, <2>2, <2>3, <2>4, Scripts DEF AllWays
<1>5. Len(PodmanMount) = 4 /\ PodmanMount[2] = "mount" /\ \A j \in 1..4 : PodmanMount[j] # "remove"
  BY DEF PodmanMount
<1>6. Len(PodmanExport) = 6 /\ PodmanExport[5] = "remove"
  BY DEF PodmanExport
<1> QED
  BY <1>1, <1>2, <1>3, <1>4, <1>5, <1>6, Scripts

LEMMA NoneLeft == Range(<<>>) = {}
BY DEF Range

-----------------------------------------------------------------------------
\* The requests, their tools and their ways.

LEMMA PlanFacts ==
  ASSUME TypeOK
  PROVE  /\ Len(args.plan) \in 1..MaxRequests /\ MaxRequests \in Nat
         /\ DOMAIN args.plan = 1..Len(args.plan)
         /\ \A i \in DOMAIN args.plan : args.plan[i] \in Request
<1>1. args.plan \in Plans
  BY DEF TypeOK
<1>2. PICK n \in 1..MaxRequests : args.plan \in [1..n -> Request]
  BY <1>1 DEF Plans
<1>3. Len(args.plan) = n
  BY <1>2, BoundIsPositive
<1> QED
  BY <1>2, <1>3, BoundIsPositive

LEMMA RequestFacts ==
  \A q \in Request : /\ q.kind \in {"entries", "copy"} /\ q.image \in Range(Images)
                     /\ q.tool \in {"auto", "docker", "podman"}
<1>1. Range(Preferences) = {"auto", "docker", "podman"}
  BY DEF Range, Preferences
<1> QED
  BY <1>1 DEF Request

\* The sequences of ways, taken apart.
Ways(ws) ==
    \/ ws \in {<<"docker-agent">>, <<"podman-agent">>, <<"docker-cli">>, <<"podman-service">>}
         /\ Tail(ws) = <<>>
    \/ ws = <<"docker-api", "docker-cli">> /\ Tail(ws) = <<"docker-cli">>
         /\ Tail(Tail(ws)) = <<>>
    \/ ws = <<"podman-mount", "podman-export", "podman-service">>
         /\ Tail(ws) = <<"podman-export", "podman-service">> /\ Tail(Tail(ws)) = <<"podman-service">>
    \/ ws = <<"podman-export", "podman-service">> /\ Tail(ws) = <<"podman-service">>

LEMMA TailOfOne == \A w \in AllWays : Tail(<<w>>) = <<>>
<1> SUFFICES ASSUME NEW w \in AllWays PROVE Tail(<<w>>) = <<>>
  OBVIOUS
<1>1. <<w>> \in Seq({w}) /\ Len(<<w>>) = 1
  OBVIOUS
<1>2. Tail(<<w>>) \in Seq({w}) /\ Len(Tail(<<w>>)) = 0
  BY <1>1
<1> QED
  BY <1>2, EmptySeq

LEMMA WaysTakenApart ==
  ASSUME NEW tool, NEW ws \in WaysLeft(tool), tool \in {"docker", "podman"}
  PROVE  Ways(ws)
<1>1. ws \in {<<"docker-agent">>, <<"podman-agent">>, <<"docker-cli">>, <<"podman-service">>,
              <<"docker-api", "docker-cli">>, <<"podman-export", "podman-service">>,
              <<"podman-mount", "podman-export", "podman-service">>}
  BY DEF WaysLeft, WaysOf
<1>2. ASSUME NEW w \in {"docker-agent", "podman-agent", "docker-cli", "podman-service"}, ws = <<w>>
      PROVE  Ways(ws)
  BY <1>2, TailOfOne DEF Ways, AllWays, AgentWays
<1>3. CASE ws = <<"docker-api", "docker-cli">>
  <2>1. Tail(ws) = <<"docker-cli">>
    BY <1>3
  <2> QED
    BY <1>3, <2>1, TailOfOne DEF Ways, AllWays
<1>4. CASE ws = <<"podman-export", "podman-service">>
  BY <1>4 DEF Ways
<1>5. CASE ws = <<"podman-mount", "podman-export", "podman-service">>
  <2>1. Tail(ws) = <<"podman-export", "podman-service">>
    BY <1>5
  <2> QED
    BY <1>5, <2>1 DEF Ways
<1> QED
  BY <1>1, <1>2, <1>3, <1>4, <1>5

\* What may be tried after the way in progress.
GoesOn(tool, ws) ==
    /\ ws \in WaysLeft(tool) /\ Head(ws) \in AllWays
    /\ Tried(Way) \cup {Way} \subseteq Tried(Head(ws))

LEMMA ToolFacts ==
  ASSUME Attempting, stage \in {"provide", "use", "apart"}
  PROVE  /\ Head(tools) \in {"docker", "podman"}
         /\ tools # <<>> /\ tools \in Seq({"docker", "podman"})
         /\ Len(tools) > 1 => /\ Head(tools) = "docker" /\ tools[2] = "podman"
                              /\ Tail(tools) = <<"podman">> /\ Head(Tail(tools)) = "podman"
<1>1. tools \in {<<"docker">>, <<"podman">>, <<"docker", "podman">>}
  BY DEF Attempting
<1>2. CASE tools = <<"docker">>
  BY <1>2
<1>3. CASE tools = <<"podman">>
  BY <1>3
<1>4. CASE tools = <<"docker", "podman">>
  <2>1. Tail(tools) = <<"podman">>
    BY <1>4
  <2> QED
    BY <1>4, <2>1
<1> QED
  BY <1>1, <1>2, <1>3, <1>4

LEMMA WayFacts ==
  ASSUME Attempting, stage \in {"provide", "use", "apart"}
  PROVE  /\ Way \in AllWays /\ Way \notin Tried(Way)
         /\ Way = "podman-mount" => ways = <<"podman-mount", "podman-export", "podman-service">>
         /\ Tail(ways) # <<>> => GoesOn(Head(tools), Tail(ways))
         /\ Way \in {"docker-api", "podman-mount"} /\ Tail(Tail(ways)) # <<>> =>
              GoesOn(Head(tools), Tail(Tail(ways))) /\ Head(Tail(Tail(ways))) = "podman-service"
<1> DEFINE tool == Head(tools)
<1>t. tool \in {"docker", "podman"} /\ ways \in WaysLeft(tool)
  BY ToolFacts DEF Attempting
<1>1. Ways(ways)
  BY <1>t, WaysTakenApart
<1>2. ASSUME NEW w \in {"docker-agent", "podman-agent", "docker-cli", "podman-service"},
             ways = <<w>>, Tail(ways) = <<>>
      PROVE  /\ Way = w /\ w \notin Tried(w) /\ w \in AllWays
  BY <1>2 DEF Way, Tried, AllWays, AgentWays
<1>3. CASE ways = <<"docker-api", "docker-cli">> /\ Tail(ways) = <<"docker-cli">>
             /\ Tail(Tail(ways)) = <<>>
  <2>1. Way = "docker-api" /\ Head(Tail(ways)) = "docker-cli"
    BY <1>3 DEF Way
  <2>2. Tail(ways) \in WaysLeft(tool)
    BY <1>3, <1>t DEF WaysLeft, WaysOf
  <2> QED
    BY <1>3, <2>1, <2>2 DEF GoesOn, Tried, AllWays
<1>4. CASE /\ ways = <<"podman-mount", "podman-export", "podman-service">>
           /\ Tail(ways) = <<"podman-export", "podman-service">>
           /\ Tail(Tail(ways)) = <<"podman-service">>
  <2>1. Way = "podman-mount" /\ Head(Tail(ways)) = "podman-export"
        /\ Head(Tail(Tail(ways))) = "podman-service"
    BY <1>4 DEF Way
  <2>2. Tail(ways) \in WaysLeft(tool) /\ Tail(Tail(ways)) \in WaysLeft(tool)
    BY <1>4, <1>t DEF WaysLeft, WaysOf
  <2> QED
    BY <1>4, <2>1, <2>2 DEF GoesOn, Tried, AllWays
<1>5. CASE ways = <<"podman-export", "podman-service">> /\ Tail(ways) = <<"podman-service">>
  <2>1. Way = "podman-export" /\ Head(Tail(ways)) = "podman-service"
    BY <1>5 DEF Way
  <2>2. Tail(ways) \in WaysLeft(tool)
    BY <1>5, <1>t DEF WaysLeft, WaysOf
  <2> QED
    BY <1>5, <2>1, <2>2 DEF GoesOn, Tried, AllWays
<1> QED
  BY <1>1, <1>2, <1>3, <1>4, <1>5 DEF Ways

\* Podman is tried after docker.
LEMMA NextToolFacts ==
  ASSUME Attempting, stage \in {"provide", "use", "apart"}, Len(tools) > 1
  PROVE  GoesOn("podman", WaysOf("podman")) /\ Head(WaysOf("podman")) # "podman-export"
<1>1. Head(tools) = "docker" /\ ways \in WaysLeft("docker")
  BY ToolFacts DEF Attempting
<1>2. CASE ByAgent
  <2>0. /\ WaysLeft("docker") = {WaysOf("docker")} /\ WaysLeft("podman") = {WaysOf("podman")}
        /\ WaysOf("docker") = <<"docker-agent">> /\ WaysOf("podman") = <<"podman-agent">>
    BY <1>2 DEF WaysLeft, WaysOf
  <2>1. ways = <<"docker-agent">> /\ WaysOf("podman") = <<"podman-agent">>
        /\ WaysOf("podman") \in WaysLeft("podman")
    BY <1>1, <2>0
  <2>2. Way = "docker-agent" /\ Head(WaysOf("podman")) = "podman-agent"
    BY <2>1 DEF Way
  <2> QED
    BY <2>1, <2>2 DEF GoesOn, Tried, AllWays, AgentWays
<1>3. CASE ~ByAgent
  <2>1. ways \in {<<"docker-api", "docker-cli">>, <<"docker-cli">>}
        /\ WaysOf("podman") = <<"podman-mount", "podman-export", "podman-service">>
        /\ WaysOf("podman") \in WaysLeft("podman")
    BY <1>1, <1>3 DEF WaysLeft, WaysOf
  <2>2. Way \in {"docker-api", "docker-cli"} /\ Head(WaysOf("podman")) = "podman-mount"
    BY <2>1 DEF Way
  <2> QED
    BY <2>1, <2>2 DEF GoesOn, Tried, AllWays
<1> QED
  BY <1>2, <1>3

\* The first tool of a request, and its first way.
LEMMA FirstFacts ==
  ASSUME TypeOK, now \in DOMAIN args.plan
  PROVE  /\ ToolsOf(Req) \in {<<"docker">>, <<"podman">>, <<"docker", "podman">>}
         /\ WaysOf(Head(ToolsOf(Req))) \in WaysLeft(Head(ToolsOf(Req)))
         /\ Head(ToolsOf(Req)) \in {"docker", "podman"}
         /\ Head(WaysOf(Head(ToolsOf(Req)))) \in AllWays \ {"podman-export"}
<1>1. Req.tool \in {"auto", "docker", "podman"} /\ Req.kind \in {"entries", "copy"}
  BY PlanFacts, RequestFacts DEF Req
<1>2. ToolsOf(Req) \in {<<"docker">>, <<"podman">>, <<"docker", "podman">>}
  BY <1>1 DEF ToolsOf
<1>3. Head(ToolsOf(Req)) \in {"docker", "podman"}
  BY <1>2
<1>4. ASSUME NEW tool \in {"docker", "podman"}
      PROVE  WaysOf(tool) \in WaysLeft(tool) /\ Head(WaysOf(tool)) \in AllWays \ {"podman-export"}
  <2>1. CASE ByAgent
    BY <2>1 DEF WaysOf, WaysLeft, AllWays, AgentWays
  <2>2. CASE ~ByAgent
    BY <2>2 DEF WaysOf, WaysLeft, AllWays, AgentWays
  <2> QED
    BY <2>1, <2>2
<1> QED
  BY <1>2, <1>3, <1>4

-----------------------------------------------------------------------------
\* The shapes of a step: on to a way, to the end, or to the next request.

\* A way is left: what is still there is stray, but for what podman's mount
\* keeps for its export.
LeftBehind(w, left) ==
    /\ w \subseteq Resource /\ sources \subseteq w /\ left \subseteq w
    /\ \A r \in w : /\ r.req <= now
                    /\ r.req < now => r \in Handed \/ Stray(w, r)
                    /\ r.req = now => r.via \in Tried(Way) \cup {Way} /\ (r \in left \/ Stray(w, r))
    /\ \A r \in left : r.req = now /\ r.via = "podman-mount" /\ r.kind \in {"container", "mounted"}

LEMMA TypeFacts ==
  ASSUME TypeOK, stage \in {"provide", "use", "apart"}, Attempting
  PROVE  /\ now \in 1..MaxRequests /\ now \in Nat /\ now \in DOMAIN args.plan
         /\ \A kind \in {"container", "mounted", "dir", "files", "bind", "service", "out"} :
              /\ The(kind) \in Resource /\ The(kind).req = now /\ The(kind).kind = kind
              /\ The(kind).via = IF Way = "podman-export" /\ kind \in {"container", "mounted"}
                                 THEN "podman-mount" ELSE Way
         /\ \A r \in Resource : r.req \in Nat
<1>1. now \in 1..MaxRequests /\ MaxRequests \in Nat /\ now \in DOMAIN args.plan
  BY PlanFacts DEF Attempting
<1>2. Way \in AllWays /\ "podman-mount" \in AllWays
  BY WayFacts DEF AllWays
<1>3. \A kind \in {"container", "mounted", "dir", "files", "bind", "service", "out"} :
              /\ The(kind) \in Resource /\ The(kind).req = now /\ The(kind).kind = kind
              /\ The(kind).via = IF Way = "podman-export" /\ kind \in {"container", "mounted"}
                                 THEN "podman-mount" ELSE Way
  BY <1>1, <1>2 DEF The, Resource
<1>4. \A r \in Resource : r.req \in Nat
  BY <1>1 DEF Resource
<1> QED
  BY <1>1, <1>3, <1>4

LEMMA TryInv ==
  ASSUME TypeOK, RootsKept, NEW w, NEW left, LeftBehind(w, left),
         \A s \in sources : s.req < now, now \in DOMAIN args.plan,
         NEW tool \in {"docker", "podman"}, NEW ws, ws \in WaysLeft(tool), Head(ws) \in AllWays,
         \A r \in w : r.req = now => r.via \in Tried(Head(ws)),
         left # {} => Head(ws) = "podman-export",
         stage' = "provide", tools' \in {<<"docker">>, <<"podman">>, <<"docker", "podman">>},
         Head(tools') = tool, TryWays(ws), world' = w, scope' = left, root' = NoRoot,
         UNCHANGED <<args, now, roots, sources>>
  PROVE  Inv'
<1>w. Way' = Head(ws) /\ Req' = Req /\ ways' = ws /\ ops' = Script(Head(ws))
  BY DEF Way, Req, TryWays
<1>t. TypeOK'
  <2>1. tools' \in Seq({"docker", "podman"})
    <3>1. CASE tools' = <<"docker">>
      BY <3>1
    <3>2. CASE tools' = <<"podman">>
      BY <3>2
    <3>3. CASE tools' = <<"docker", "podman">>
      BY <3>3
    <3> QED
      BY <3>1, <3>2, <3>3
  <2>2. ws \in Seq(AllWays)
    <3>1. ws \in {<<"docker-agent">>, <<"podman-agent">>, <<"docker-cli">>, <<"podman-service">>}
          => ws \in Seq(AllWays)
      BY DEF AllWays, AgentWays
    <3>2. ws = <<"docker-api", "docker-cli">> => ws \in Seq(AllWays)
      BY DEF AllWays
    <3>3. ws = <<"podman-mount", "podman-export", "podman-service">> => ws \in Seq(AllWays)
      BY DEF AllWays
    <3>4. ws = <<"podman-export", "podman-service">> => ws \in Seq(AllWays)
      BY DEF AllWays
    <3> QED
      BY <3>1, <3>2, <3>3, <3>4, WaysTakenApart DEF Ways
  <2> QED
    BY <1>w, <2>1, <2>2 DEF TypeOK, LeftBehind
<1>1. Attempting'
  <2>1. WaysLeft(tool)' = WaysLeft(tool)
    BY <1>w DEF WaysLeft, WaysOf, ByAgent
  <2> QED
    BY <1>w, <2>1 DEF Attempting
<1>2. Stepping'
  BY <1>w, WholeScript DEF Stepping
<1>3. Staged' /\ Rooted'
  BY DEF Staged, Rooted, LeftBehind
<1>4. Scoped'
  <2>1. \A r \in left : /\ r.req = now /\ Head(ws) = "podman-export"
                        /\ r.via = "podman-mount" /\ r.kind \in {"container", "mounted"}
    BY DEF LeftBehind
  <2> QED
    BY <1>w, <2>1, WholeScript DEF Scoped
<1>5. Providing'
  <2> SUFFICES ASSUME NEW r \in w, r.req = now
               PROVE  r.via \in Tried(Way)' /\ (r \in left \/ (Stray(w, r))')
    BY <1>w DEF Providing
  <2>1. r.via \in Tried(Way)'
    BY <1>w DEF Tried
  <2>2. r \in left \/ Stray(w, r)
    BY DEF LeftBehind
  <2> QED
    BY <2>1, <2>2, StrayNext DEF Bound
<1>6. RootsKept'
  BY DEF RootsKept
<1>7. Past'
  <2> SUFFICES ASSUME NEW r \in w, r.req < now PROVE r \in Handed \/ (Stray(w, r))'
    BY DEF Past, Handed
  <2>1. r \in Handed \/ Stray(w, r)
    BY DEF LeftBehind
  <2> QED
    BY <2>1, StrayNext DEF Bound
<1>8. SourcesStay'
  BY DEF SourcesStay, LeftBehind
<1> QED
  BY <1>t, <1>1, <1>2, <1>3, <1>4, <1>5, <1>6, <1>7, <1>8 DEF Inv

\* What the roots own has no reason to be stray: its mount goes with it.
LEMMA OwnedMounts ==
  ASSUME TypeOK, RootsKept, NEW w, w \subseteq Resource,
         \A r \in w : r \in Handed \/ Stray(w, r),
         NEW r \in Handed, Mount(r) \in w, Mount(r) \notin Handed, r \in w
  PROVE  FALSE
<1>1. PICK q \in Range(roots) : r \in q.owns
  BY DEF Handed
<1>2. q.files \in sources /\ args.plan[q.files.req].kind = "entries"
      /\ r.req = q.files.req /\ r.via = q.files.via
  BY <1>1 DEF RootsKept
<1>3. Mount(r).req = r.req /\ Mount(r).via = r.via /\ Mount(r).kind = "bind"
  BY MountFacts
<1>4. Stray(w, Mount(r))
  OBVIOUS
<1> QED
  BY <1>2, <1>3, <1>4 DEF Stray, StrayFor, Abandoned, Copied

\* The command ends, and its roots are dropped.
LEMMA QuitInv ==
  ASSUME TypeOK, RootsKept, NEW w, w \subseteq Resource, Quit(w),
         \A r \in w : r \in Handed \/ Stray(w, r), \A r \in w : r.req <= now,
         \A s \in sources : s.req < now, scope' = {}, root' \in Root \cup {NoRoot},
         UNCHANGED <<args, now, sources>>
  PROVE  Inv'
<1>v. PICK v : v = Without(w, Handed)
  OBVIOUS
<1>1. /\ stage' = "done" /\ world' = v /\ roots' = <<>>
      /\ tools' = <<>> /\ ways' = <<>>
  BY <1>v DEF Quit, Handed
<1>2. world' \subseteq w
  BY <1>1, <1>v, WithoutFacts
<1>3. TypeOK'
  BY <1>1, <1>2 DEF TypeOK
<1>4. Attempting' /\ Stepping' /\ Staged' /\ Scoped' /\ Providing' /\ Rooted' /\ SourcesStay'
  BY <1>1, <1>2 DEF Attempting, Stepping, Staged, Scoped, Providing, Rooted, SourcesStay
<1>5. RootsKept'
  BY <1>1, NoneLeft DEF RootsKept
<1>6. Past'
  <2> SUFFICES ASSUME NEW r \in v PROVE (Stray(v, r))'
    BY <1>1 DEF Past
  <2>1. r \in w /\ (r \in Handed => Mount(r) \in w /\ Mount(r) \notin Handed)
    BY <1>v, WithoutFacts
  <2>2. r \notin Handed /\ Stray(w, r)
    BY <2>1, OwnedMounts
  <2>3. Bound(w, r) => Mount(r) \in v
    <3> SUFFICES ASSUME Bound(w, r), Mount(r) \in Handed PROVE FALSE
      BY <1>v, WithoutFacts DEF Bound
    <3>1. PICK q \in Range(roots) : Mount(r) \in q.owns
      BY DEF Handed
    <3>2. Mount(r).req = r.req /\ Mount(r).via = r.via
      BY <2>1, MountFacts
    <3> QED
      BY <3>1, <3>2 DEF RootsKept, Bound, Copied, Abandoned
  <2> QED
    BY <2>2, <2>3, StrayNext
<1> QED
  BY <1>3, <1>4, <1>5, <1>6 DEF Inv

\* No tool, or no way, is left to try.
LEMMA NextToolInv ==
  ASSUME Inv, stage \in {"provide", "use"}, NEW w, LeftBehind(w, {}), NextTool(w),
         scope' = {}, root' = NoRoot, UNCHANGED <<args, now, sources>>
  PROVE  Inv'
<1>1. \A s \in sources : s.req < now
  BY DEF Inv, Staged
<1>2. CASE Len(tools) > 1
  <2>1. GoesOn("podman", WaysOf("podman"))
    BY <1>2, NextToolFacts DEF Inv
  <2>2. tools[2] = "podman" /\ Tail(tools) = <<"podman">> /\ Head(Tail(tools)) = "podman"
    BY <1>2, ToolFacts DEF Inv
  <2>3. /\ stage' = "provide" /\ tools' = Tail(tools) /\ TryWays(WaysOf("podman"))
        /\ world' = w /\ UNCHANGED roots
    BY <1>2, <2>2 DEF NextTool
  <2>4. \A r \in w : r.req = now => r.via \in Tried(Head(WaysOf("podman")))
    BY <2>1 DEF LeftBehind, GoesOn
  <2>5. now \in DOMAIN args.plan
    BY DEF Inv, Attempting
  <2> QED
    BY <1>1, <2>1, <2>2, <2>3, <2>4, <2>5, TryInv DEF Inv, GoesOn
<1>3. CASE ~(Len(tools) > 1)
  <2>1. Quit(w)
    BY <1>3 DEF NextTool
  <2>2. \A r \in w : r.req <= now /\ (r \in Handed \/ Stray(w, r))
    <3> SUFFICES ASSUME NEW r \in w PROVE r \in Handed \/ Stray(w, r)
      BY DEF LeftBehind
    <3>1. r.req \in Nat /\ now \in Nat /\ r.req <= now
      BY TypeFacts DEF LeftBehind, Inv
    <3> QED
      BY <3>1 DEF LeftBehind
  <2> QED
    BY <1>1, <2>1, <2>2, QuitInv DEF Inv, LeftBehind
<1> QED
  BY <1>2, <1>3

LEMMA NextWayInv ==
  ASSUME Inv, stage = "provide", NEW w, NEW left, LeftBehind(w, left), NEW rest, NextWay(rest, w),
         rest # <<>> => GoesOn(Head(tools), rest),
         left # {} => rest # <<>> /\ Head(rest) = "podman-export",
         scope' = left, UNCHANGED <<args, now, root, sources>>
  PROVE  Inv'
<1>1. root' = NoRoot
  BY DEF Inv, Staged
<1>2. CASE rest # <<>>
  <2>1. GoesOn(Head(tools), rest) /\ Head(tools) \in {"docker", "podman"}
    BY <1>2, ToolFacts DEF Inv
  <2>2. /\ TryWays(rest) /\ world' = w /\ stage' = "provide" /\ UNCHANGED <<tools, roots>>
    BY <1>2 DEF NextWay
  <2>3. \A r \in w : r.req = now => r.via \in Tried(Head(rest))
    BY <2>1 DEF LeftBehind, GoesOn
  <2>4. /\ now \in DOMAIN args.plan /\ \A s \in sources : s.req < now
        /\ tools \in {<<"docker">>, <<"podman">>, <<"docker", "podman">>}
    BY DEF Inv, Attempting, Staged
  <2> QED
    BY <1>1, <2>1, <2>2, <2>3, <2>4, TryInv DEF Inv, GoesOn
<1>3. CASE rest = <<>>
  BY <1>1, <1>3, NextToolInv DEF NextWay
<1> QED
  BY <1>2, <1>3

\* What a way leaves behind when its guards release all they hold: it may
\* have got a mount that it does not hold, and may have removed its container.
LEMMA Released ==
  ASSUME Inv, stage = "provide", NEW w, w \subseteq world \cup {The("bind")},
         \A r \in world : r \in w \/ (r.req = now /\ r.via = Way /\ r.kind = "container")
  PROVE  LeftBehind(Without(w, scope), {})
<1> DEFINE v == Without(w, scope)
<1>t. /\ now \in Nat /\ \A r \in Resource : r.req \in Nat
      /\ The("bind") \in Resource /\ The("bind").req = now /\ The("bind").via = Way
      /\ The("bind").kind = "bind" /\ Way \notin Tried(Way)
  BY TypeFacts, WayFacts DEF Inv
<1>w. world \subseteq Resource /\ w \subseteq Resource
  BY <1>t DEF Inv, TypeOK
<1>s. \A s \in sources : s.req < now /\ s \in world /\ s \in Resource
  BY <1>w DEF Inv, Staged, SourcesStay
<1>h. \A r \in scope : r.req = now /\ (r.via = Way \/ r.kind \in {"container", "mounted"})
  BY DEF Inv, Scoped
<1>v. /\ v \subseteq w /\ \A r \in w : r \notin scope => r \in v
      /\ \A r \in v : r \in scope => r.kind = "dir" /\ Mount(r) \in w /\ Mount(r) \notin scope
  BY WithoutFacts
<1> HIDE DEF v
<1>1. v \subseteq Resource /\ sources \subseteq v
  BY <1>w, <1>v, <1>s, <1>h, <1>t
<1>a. \A r \in v : r.req = now => Abandoned(r)
  BY <1>s, <1>t DEF Abandoned
<1>2. ASSUME NEW r \in v PROVE r.req <= now
  BY <1>v, <1>t DEF Inv, Staged
<1>3. ASSUME NEW r \in v, r.req < now PROVE r \in Handed \/ Stray(v, r)
  <2>1. r \in world /\ r \in Resource
    BY <1>3, <1>v, <1>t, <1>w
  <2>2. r \in Handed \/ Stray(world, r)
    BY <1>3, <2>1 DEF Inv, Past
  <2>3. Mount(r) \in world => Mount(r) \in v
    BY <1>3, <2>1, <1>v, <1>t, <1>h, MountFacts
  <2> QED
    BY <2>2, <2>3, StrayKept DEF Bound
<1>4. ASSUME NEW r \in v, r.req = now PROVE r.via \in Tried(Way) \cup {Way} /\ Stray(v, r)
  <2>m. r \in Resource /\ Mount(r).req = now /\ Mount(r).via = r.via /\ Mount(r).kind = "bind"
        /\ Mount(r) \in Resource /\ (r.kind = "bind" => Mount(r) = r)
    BY <1>4, <1>v, <1>w, MountFacts
  <2>1. CASE r = The("bind")
    <3>1. r \notin scope /\ Mount(r) = r
      BY <2>1, <2>m, <1>v, <1>t
    <3> QED
      BY <2>1, <3>1, <1>a, <1>4, <1>t DEF Stray
  <2>2. CASE r \in world /\ r.via = Way
    <3>1. Mine(r)
      BY <2>2, <1>4, <1>t DEF Inv, Providing
    <3>2. CASE r \in scope
      <4>1. r.kind = "dir" /\ Mount(r) \in w /\ Mount(r) \notin scope
        BY <3>2, <1>v
      <4>2. Mount(r) \in v
        BY <4>1, <1>v
      <4> QED
        BY <2>2, <4>1, <4>2, <1>a, <1>4 DEF Stray
    <3>3. CASE r \notin scope
      BY <2>2, <3>1, <3>3, <1>a, <1>4 DEF Mine, Stray
    <3> QED
      BY <3>2, <3>3
  <2>3. CASE r \in world /\ r.via # Way
    <3>1. r \notin scope
      BY <2>3, <1>v, <1>h
    <3>2. r.via \in Tried(Way) /\ Stray(world, r)
      BY <2>3, <3>1, <1>4 DEF Inv, Providing
    <3>3. Mount(r) \in world => Mount(r) \in v
      BY <2>3, <2>m, <1>v, <1>h
    <3> QED
      BY <3>2, <3>3, StrayKept DEF Bound
  <2> QED
    BY <2>1, <2>2, <2>3, <1>v, <1>4
<1> QED
  BY <1>1, <1>2, <1>3, <1>4 DEF LeftBehind, v

LEMMA FailInv ==
  ASSUME Inv, Fail
  PROVE  Inv'
<1> DEFINE held == IF Way = "podman-mount" /\ Op # "bind" THEN scope ELSE {}
           rest == IF <<Way, Op>> \in {<<"docker-api", "runtime">>, <<"podman-mount", "create">>}
                   THEN Tail(Tail(ways)) ELSE Tail(ways)
<1>1. /\ stage = "provide" /\ ops # <<>> /\ NextWay(rest, Without(world, scope \ held))
      /\ scope' = held /\ UNCHANGED <<args, now, root, sources>>
  BY DEF Fail
<1>2. rest # <<>> => GoesOn(Head(tools), rest)
  BY <1>1, WayFacts DEF Inv
<1>3. CASE Way = "podman-mount" /\ Op # "bind"
  <2>0. scope \ held = {} /\ held = scope
    BY <1>3
  <2>1. Without(world, {}) = world
    BY DEF Without
  <2>2. \A r \in scope : r.req = now /\ r.via = "podman-mount" /\ r.kind \in {"container", "mounted"}
    BY <1>1, <1>3 DEF Inv, Scoped
  <2>3. LeftBehind(world, scope)
    <3>1. world \subseteq Resource /\ sources \subseteq world /\ scope \subseteq world
      BY <1>1 DEF Inv, TypeOK, SourcesStay
    <3>2. ASSUME NEW r \in world, r.req = now
          PROVE  r.via \in Tried(Way) \cup {Way} /\ (r \in scope \/ Stray(world, r))
      BY <1>1, <1>3, <3>2 DEF Inv, Providing, Mine, AgentWays
    <3>3. ASSUME NEW r \in world
          PROVE  r.req <= now /\ (r.req < now => r \in Handed \/ Stray(world, r))
      BY <1>1 DEF Inv, Staged, Past
    <3> QED
      BY <2>2, <3>1, <3>2, <3>3 DEF LeftBehind
  <2>4. scope # {} => rest # <<>> /\ Head(rest) = "podman-export"
    <3> SUFFICES ASSUME scope # {} PROVE rest # <<>> /\ Head(rest) = "podman-export"
      OBVIOUS
    <3>1. PICK k \in 1..Len(Script(Way)) + 1 : ops = Suffix(Script(Way), k)
      BY <1>1 DEF Inv, Stepping
    <3>2. Op \in Range(ops)
      BY <1>1, <3>1, OpFacts, WayFacts DEF Inv, Op
    <3>3. Op # "create"
      BY <1>1, <1>3, <3>2 DEF Inv, Scoped
    <3>4. rest = Tail(ways)
      BY <3>3, <1>3
    <3>5. ways = <<"podman-mount", "podman-export", "podman-service">>
      BY <1>1, <1>3, WayFacts DEF Inv
    <3>6. Tail(ways) = <<"podman-export", "podman-service">>
      BY <3>5
    <3>7. Tail(ways) # <<>> /\ Head(Tail(ways)) = "podman-export"
      <4>1. \A t : t = <<"podman-export", "podman-service">> => t # <<>> /\ Head(t) = "podman-export"
        OBVIOUS
      <4> HIDE DEF rest
      <4> QED
        BY <3>6, <4>1, Zenon
    <3> HIDE DEF rest
    <3> QED
      BY <3>4, <3>7
  <2> HIDE DEF rest, held
  <2> QED
    BY <1>1, <1>2, <2>0, <2>1, <2>3, <2>4, NextWayInv
<1>4. CASE ~(Way = "podman-mount" /\ Op # "bind")
  <2>1. held = {} /\ scope \ held = scope
    BY <1>4
  <2>2. LeftBehind(Without(world, scope), {})
    BY <1>1, Released
  <2> HIDE DEF rest, held
  <2> QED
    BY <1>1, <1>2, <2>1, <2>2, NextWayInv
<1> QED
  BY <1>3, <1>4

LEMMA FailUnprivateInv ==
  ASSUME Inv, FailUnprivate
  PROVE  Inv'
<1>1. /\ stage = "provide" /\ NextWay(Tail(ways), Without(world \cup Gets, scope))
      /\ scope' = {} /\ UNCHANGED <<args, now, root, sources>> /\ Gets = {The("bind")}
  BY DEF FailUnprivate, Gets
<1>2. LeftBehind(Without(world \cup Gets, scope), {})
  BY <1>1, Released
<1>3. Tail(ways) # <<>> => GoesOn(Head(tools), Tail(ways))
  BY <1>1, WayFacts DEF Inv
<1> QED
  BY <1>1, <1>2, <1>3, NextWayInv

LEMMA RefuseInv ==
  ASSUME Inv, Refuse
  PROVE  Inv'
<1>1. /\ stage = "provide" /\ NextWay(Tail(ways), Without(world \ {The("container")}, scope))
      /\ scope' = {} /\ UNCHANGED <<args, now, root, sources>> /\ Way \in AgentWays
  BY DEF Refuse
<1>2. The("container").req = now /\ The("container").via = Way /\ The("container").kind = "container"
  BY <1>1, TypeFacts DEF Inv, AgentWays
<1>3. LeftBehind(Without(world \ {The("container")}, scope), {})
  BY <1>1, <1>2, Released
<1>4. Tail(ways) # <<>> => GoesOn(Head(tools), Tail(ways))
  BY <1>1, WayFacts DEF Inv
<1> QED
  BY <1>1, <1>3, <1>4, NextWayInv

-----------------------------------------------------------------------------
\* The steps of a way that succeed.

LEMMA GetsFacts ==
  ASSUME Inv, stage = "provide", ops # <<>>
  PROVE  /\ Gets \subseteq Resource
         /\ \A g \in Gets :
              /\ g.req = now /\ g.via = Way
              /\ g.kind = "container" => Op = "create"
              /\ g.kind = "mounted" => Op = "mount"
              /\ g.kind = "service" => Op = "service"
              /\ g.kind = "bind" => Op = "bind"
         /\ Op = "unpack" => The("files") \in Gets
         /\ Op = "mount" => The("mounted") \in Gets
         /\ Way = "podman-mount" => \A g \in Gets : g.kind \in {"container", "mounted", "bind"}
<1>1. PICK k \in 1..Len(Script(Way)) + 1 : ops = Suffix(Script(Way), k)
  BY DEF Inv, Stepping
<1>2. /\ Op = "create" => Way # "podman-export"
      /\ Op = "mount" => Way = "podman-mount"
      /\ Way = "podman-mount" => Op \in {"create", "mount", "inspect", "bind"}
  BY <1>1, OpFacts, WayFacts DEF Inv, Op
<1>3. \A kind \in {"container", "mounted", "dir", "files", "bind", "service", "out"} :
              /\ The(kind) \in Resource /\ The(kind).req = now /\ The(kind).kind = kind
              /\ The(kind).via = IF Way = "podman-export" /\ kind \in {"container", "mounted"}
                                 THEN "podman-mount" ELSE Way
  BY TypeFacts DEF Inv
<1>4. CASE Op = "create"
  BY <1>2, <1>3, <1>4 DEF Gets
<1>5. CASE Op = "mount"
  BY <1>2, <1>3, <1>5 DEF Gets
<1>6. CASE Op \in {"dir", "dirs"}
  BY <1>2, <1>3, <1>6 DEF Gets
<1>7. CASE Op \in {"unpack", "service", "bind"}
  BY <1>2, <1>3, <1>7 DEF Gets
<1>8. CASE Op \notin {"create", "mount", "dir", "dirs", "unpack", "service", "bind"}
  BY <1>8 DEF Gets
<1> QED
  BY <1>4, <1>5, <1>6, <1>7, <1>8

LEMMA DropsFacts ==
  ASSUME Inv, stage = "provide"
  PROVE  /\ \A d \in Drops : d.req = now /\ d \in Resource
              /\ (d.kind \in {"container", "mounted"} => Op = "remove")
              /\ (d.kind = "service" => Op = "shutdown")
              /\ d.kind \in {"container", "mounted", "service"}
         /\ \A r \in Resource : r.req = now /\ r.kind \in {"container", "mounted"} /\ Op = "remove"
              /\ r.via = (IF Way = "podman-export" THEN "podman-mount" ELSE Way) => r \in Drops
         /\ \A r \in Resource : r.req = now /\ r.kind = "service" /\ r.via = Way /\ Op = "shutdown"
              => r \in Drops
<1>1. \A kind \in {"container", "mounted", "service"} :
              /\ The(kind) \in Resource /\ The(kind).req = now /\ The(kind).kind = kind
              /\ The(kind).via = IF Way = "podman-export" /\ kind \in {"container", "mounted"}
                                 THEN "podman-mount" ELSE Way
  BY TypeFacts DEF Inv
<1>2. \A d \in Drops : d.req = now /\ d \in Resource
              /\ (d.kind \in {"container", "mounted"} => Op = "remove")
              /\ (d.kind = "service" => Op = "shutdown")
              /\ d.kind \in {"container", "mounted", "service"}
  BY <1>1 DEF Drops
<1>3. ASSUME NEW r \in Resource, NEW kind \in {"container", "mounted", "service"},
             r.req = now, r.kind = kind, r.via = The(kind).via
      PROVE  r = The(kind)
  BY <1>1, <1>3 DEF Resource
<1>4. \A r \in Resource : r.req = now /\ r.kind \in {"container", "mounted"} /\ Op = "remove"
              /\ r.via = (IF Way = "podman-export" THEN "podman-mount" ELSE Way) => r \in Drops
  BY <1>1, <1>3 DEF Drops
<1>5. \A r \in Resource : r.req = now /\ r.kind = "service" /\ r.via = Way /\ Op = "shutdown"
              => r \in Drops
  BY <1>1, <1>3 DEF Drops
<1> QED
  BY <1>2, <1>4, <1>5

LEMMA PerformInv ==
  ASSUME Inv, Perform
  PROVE  Inv'
<1>1. /\ stage = "provide" /\ ops # <<>> /\ ops' = Tail(ops)
      /\ world' = (world \cup Gets) \ Drops /\ scope' = (scope \cup Guarded(Gets)) \ Drops
      /\ UNCHANGED <<stage, args, now, tools, ways, root, roots, sources>>
  BY DEF Perform
<1>w. Way' = Way /\ Req' = Req /\ Way \in AllWays /\ Way \notin Tried(Way)
  BY <1>1, WayFacts DEF Inv, Way, Req
<1>k. PICK k \in 1..Len(Script(Way)) + 1 : ops = Suffix(Script(Way), k)
  BY <1>1 DEF Inv, Stepping
<1>o. /\ k + 1 \in 1..Len(Script(Way)) + 1 /\ ops' = Suffix(Script(Way), k + 1)
      /\ Range(ops) = Range(ops') \cup {Op}
      /\ Op = "create" /\ Way # "podman-mount" => Way # "podman-export" /\ "remove" \in Range(ops')
      /\ Op = "service" => "shutdown" \in Range(ops')
      /\ Op = "mount" => Way = "podman-mount"
      /\ Way = "podman-mount" => "create" \notin Range(ops') /\ "remove" \notin Range(ops)
      /\ Way = "podman-mount" /\ Op = "bind" => ops' = <<>>
  BY <1>1, <1>w, <1>k, OpFacts DEF Op
<1>g. Guarded(Gets) \subseteq Gets /\ \A g \in Gets : g \in Guarded(Gets) \/ (g.via \in AgentWays /\ g.kind = "container")
  BY DEF Guarded
<1>c. scope \subseteq world /\ world \subseteq Resource /\ now \in Nat /\ \A r \in Resource : r.req \in Nat
  BY <1>1, TypeFacts DEF Inv, TypeOK
<1>s. \A s \in sources : s \in world /\ s.req < now
  BY <1>1 DEF Inv, SourcesStay, Staged
<1>2. TypeOK'
  BY <1>1, <1>c, <1>g, GetsFacts DEF Inv, TypeOK
<1>3. Attempting' /\ Rooted' /\ RootsKept'
  BY <1>1, <1>w DEF Inv, Attempting, Rooted, RootsKept, WaysLeft, WaysOf, ByAgent
<1>4. Stepping'
  BY <1>w, <1>o DEF Stepping
<1>5. Staged'
  BY <1>1, <1>w, <1>c, GetsFacts DEF Inv, Staged
<1>t. \A kind \in {"files", "mounted"} : (The(kind))' = The(kind) /\ The(kind).kind = kind
  BY <1>1, <1>w, TypeFacts DEF The, Inv
<1>6. Scoped'
  <2>1. ASSUME NEW r \in scope'
        PROVE  /\ r.req = now
               /\ \/ r.via = Way
                  \/ /\ Way = "podman-export" /\ "remove" \in Range(ops')
                     /\ r.via = "podman-mount" /\ r.kind \in {"container", "mounted"}
    <3>1. CASE r \in Gets
      BY <1>1, <3>1, GetsFacts
    <3>2. CASE r \in scope /\ r \notin Drops
      BY <1>1, <3>2, <1>o, <1>c, DropsFacts DEF Inv, Scoped
    <3> QED
      BY <1>1, <1>g, <2>1, <3>1, <3>2
  <2>2. Way # "podman-mount" => "unpack" \in Range(ops') \/ The("files") \in scope'
    <3>1. The("files") \notin Drops /\ The("files").kind = "files"
      BY <1>1, <1>t, DropsFacts
    <3> QED
      BY <1>1, <1>o, <1>g, <3>1, GetsFacts DEF Inv, Scoped
  <2>3. CASE Way = "podman-mount"
    <3>1. "remove" \notin Range(ops') /\ "create" \notin Range(ops') /\ Op # "remove"
      BY <1>o, <2>3
    <3>2. "mount" \in Range(ops') \/ The("mounted") \in scope'
      <4>1. The("mounted") \notin Drops /\ The("mounted").via = Way
        BY <1>1, <1>t, <2>3, <3>1, DropsFacts, TypeFacts DEF Inv
      <4> QED
        BY <1>1, <1>o, <1>g, <2>3, <4>1, GetsFacts DEF Inv, Scoped, AgentWays
    <3>3. ASSUME NEW r \in scope'
          PROVE  r.kind \in {"container", "mounted"} \/ (r.kind = "bind" /\ ops' = <<>>)
      <4>1. CASE r \in Gets
        BY <1>1, <1>o, <2>3, <4>1, GetsFacts
      <4>2. CASE r \in scope
        BY <1>1, <2>3, <4>2 DEF Inv, Scoped
      <4> QED
        BY <1>1, <1>g, <3>3, <4>1, <4>2
    <3> QED
      BY <1>w, <1>t, <2>1, <2>3, <3>1, <3>2, <3>3, <1>1 DEF Scoped
  <2>4. CASE Way # "podman-mount"
    BY <1>w, <1>t, <2>1, <2>2, <2>4, <1>1 DEF Scoped
  <2> QED
    BY <2>3, <2>4
<1>7. Providing'
  <2> SUFFICES ASSUME NEW r \in world', r.req = now
               PROVE  \/ r.via = Way /\ Mine(r)'
                      \/ r.via \in Tried(Way) /\ (r \in scope' \/ (Stray(world, r))')
    BY <1>1, <1>w DEF Providing, Tried
  <2>0. r \notin Drops
    BY <1>1
  <2>1. CASE r \in Gets
    BY <1>1, <1>w, <1>o, <1>g, <2>0, <2>1, GetsFacts DEF Mine
  <2>2. CASE r \in world /\ r.via = Way
    <3>1. Mine(r) /\ r \in Resource
      BY <1>1, <1>w, <1>c, <2>2 DEF Inv, Providing
    <3>2. r \in scope => r \in scope'
      BY <1>1, <2>0
    <3>3. r.kind = "container" =>
            Way = "podman-mount" \/ (Way # "podman-export" /\ "remove" \in Range(ops'))
      BY <1>1, <1>o, <2>0, <2>2, <3>1, DropsFacts DEF Mine
    <3>4. r.kind = "service" => "shutdown" \in Range(ops')
      BY <1>1, <1>o, <2>0, <2>2, <3>1, DropsFacts DEF Mine
    <3> QED
      BY <1>w, <2>2, <3>1, <3>2, <3>3, <3>4 DEF Mine
  <2>3. CASE r \in world /\ r.via # Way
    <3>1. r.via \in Tried(Way) /\ (r \in scope \/ Stray(world, r)) /\ r \in Resource
      BY <1>1, <1>c, <2>3 DEF Inv, Providing
    <3>2. Mount(r) \in world => Mount(r) \in world'
      BY <1>1, <3>1, MountFacts, DropsFacts
    <3> QED
      BY <1>1, <2>0, <3>1, <3>2, StrayNext DEF Bound
  <2> QED
    BY <1>1, <2>1, <2>2, <2>3
<1>8. Past'
  <2> SUFFICES ASSUME NEW r \in world', r.req < now PROVE r \in Handed \/ (Stray(world, r))'
    BY <1>1 DEF Past, Handed
  <2>1. r \in world /\ r \in Resource
    BY <1>1, <1>c, GetsFacts
  <2>2. r \in Handed \/ Stray(world, r)
    BY <1>1, <2>1 DEF Inv, Past
  <2>3. Mount(r) \in world => Mount(r) \in world'
    BY <1>1, <2>1, MountFacts, DropsFacts
  <2> QED
    BY <1>1, <2>2, <2>3, StrayNext DEF Bound
<1>9. SourcesStay'
  BY <1>1, <1>s, <1>c, DropsFacts DEF SourcesStay
<1> QED
  BY <1>2, <1>3, <1>4, <1>5, <1>6, <1>7, <1>8, <1>9 DEF Inv

\* The way has succeeded: what its root needs is there, and the rest is gone
\* or shall be kept.
LEMMA ReturnInv ==
  ASSUME Inv, Return
  PROVE  Inv'
<1> DEFINE held  == IF Way \in AgentWays THEN args.keep ELSE {}
           files == IF Way = "podman-mount" THEN The("mounted") ELSE The("files")
           owns  == {r \in scope : r.kind # "out" /\ (r.kind \in {"dir", "files"} => "dir" \notin held)}
<1>1. /\ stage = "provide" /\ ops = <<>>
      /\ root' = [image |-> Req.image, files |-> files, owns |-> owns]
      /\ world' = (IF "out" \in held THEN world ELSE world \ {The("out")})
      /\ scope' = {} /\ stage' = IF Req.kind = "copy" THEN "apart" ELSE "use"
      /\ UNCHANGED <<args, now, tools, ways, ops, roots, sources>>
  BY DEF Return, attempt
<1>w. Way' = Way /\ Req' = Req /\ Way \in AllWays /\ Way \notin Tried(Way)
  BY <1>1, WayFacts DEF Inv, Way, Req
<1>e. Range(ops) = {}
  BY <1>1, NoneLeft
<1>t. /\ now \in Nat /\ \A r \in Resource : r.req \in Nat
      /\ The("out").kind = "out" /\ The("out").req = now /\ The("out").via = Way
      /\ files \in Resource /\ files.req = now /\ files.via = Way /\ files.kind \in {"mounted", "files"}
  BY <1>1, TypeFacts DEF Inv
<1>r. Req \in Request /\ Req.image \in Range(Images) /\ Req.kind \in {"entries", "copy"}
  BY <1>1, PlanFacts, RequestFacts DEF Inv, Attempting, Req
<1>f. files \in scope
  BY <1>1, <1>e DEF Inv, Scoped
<1>c. scope \subseteq world /\ world \subseteq Resource
  BY DEF Inv, TypeOK
<1>o. owns \subseteq scope /\ \A r \in owns : r.kind # "out"
  OBVIOUS
<1>m. \A r \in world : r \in world' \/ (r = The("out") /\ "out" \notin held)
  BY <1>1
<1>n. world' \subseteq world
  BY <1>1
<1>s. \A s \in sources : s \in world /\ s.req < now
  BY <1>1 DEF Inv, SourcesStay, Staged
<1>h. \A x \in held : x \in args.keep /\ Way \in AgentWays
  OBVIOUS
<1>d. ASSUME NEW r \in scope, r \notin owns, r.kind # "out"
      PROVE  r.kind \in {"dir", "files"} /\ "dir" \in held
  BY <1>d
<1> HIDE DEF held, files, owns
<1>2. TypeOK'
  <2>1. root' \in Root
    BY <1>1, <1>r, <1>t, <1>o, <1>c DEF Root
  <2> QED
    BY <1>1, <1>n, <2>1 DEF Inv, TypeOK
<1>3. Attempting' /\ RootsKept' /\ Stepping' /\ Scoped' /\ Providing'
  BY <1>1, <1>w DEF Inv, Attempting, RootsKept, WaysLeft, WaysOf, ByAgent, Stepping, Scoped, Providing
<1>4. Staged'
  BY <1>1, <1>w, <1>n, <1>r DEF Inv, Staged
<1>5. Rooted'
  <2>1. root' \in Root /\ root'.files = files /\ root'.owns = owns
    BY <1>1, <1>r, <1>t, <1>o, <1>c DEF Root
  <2>2. owns \subseteq world' /\ files \in world'
    BY <1>o, <1>c, <1>f, <1>m, <1>t
  <2>3. ASSUME NEW r \in owns
        PROVE  /\ r.req = now /\ r.via = Way
               /\ \/ r.kind \in {"dir", "files", "bind"}
                  \/ r.kind \in {"container", "mounted"} /\ Way = "podman-mount"
    <3>1. r \in scope /\ r.req = now /\ r.via = Way
      BY <1>1, <1>o, <1>e DEF Inv, Scoped
    <3>2. Mine(r)
      BY <1>1, <1>w, <1>c, <3>1 DEF Inv, Providing
    <3>3. r.kind \in {"container", "mounted", "dir", "files", "bind", "service"}
      BY <1>o, <1>c, <3>1 DEF Resource
    <3> QED
      BY <1>e, <3>1, <3>2, <3>3 DEF Mine
  <2>4. ASSUME NEW r \in world', r.req = now
        PROVE  \/ r.via = Way /\ (r \in owns \/ (StrayFor(world, r))')
               \/ r.via \in Tried(Way) /\ (Stray(world, r))'
    <3>0. r \in world /\ r \in Resource
      BY <1>n, <1>c
    <3>1. CASE r.via = Way
      <4>1. Mine(r)
        BY <1>1, <1>w, <2>4, <3>0, <3>1 DEF Inv, Providing
      <4>2. r \in scope
        <5>1. r.kind = "container" => Way = "podman-mount"
          BY <4>1, <1>e DEF Mine
        <5> QED
          BY <4>1, <5>1 DEF Mine, AgentWays
      <4>3. CASE r.kind = "out"
        <5>1. r = The("out")
          BY <1>t, <2>4, <3>0, <3>1, <4>3 DEF Resource, The
        <5>2. "out" \in held
          BY <1>1, <5>1
        <5> QED
          BY <1>1, <1>h, <3>1, <4>3, <5>2 DEF StrayFor
      <4>4. CASE r.kind # "out" /\ r \notin owns
        <5>1. r.kind \in {"dir", "files"} /\ "dir" \in held
          BY <4>2, <4>4, <1>d
        <5> QED
          BY <1>1, <1>h, <3>1, <5>1 DEF StrayFor
      <4> QED
        BY <3>1, <4>3, <4>4
    <3>2. CASE r.via # Way
      <4>1. r.via \in Tried(Way) /\ (r \in scope \/ Stray(world, r))
        BY <1>1, <2>4, <3>0, <3>2 DEF Inv, Providing
      <4>2. r \notin scope
        BY <1>1, <1>e, <3>2 DEF Inv, Scoped
      <4>3. Mount(r) \in world => Mount(r) \in world'
        BY <1>m, <1>t, <3>0, MountFacts
      <4> QED
        BY <1>1, <4>1, <4>2, <4>3, StrayNext DEF Bound
    <3> QED
      BY <3>1, <3>2
  <2> QED
    BY <1>1, <1>w, <1>t, <2>1, <2>2, <2>3, <2>4 DEF Rooted, Tried
<1>6. Past'
  <2> SUFFICES ASSUME NEW r \in world', r.req < now PROVE r \in Handed \/ (Stray(world, r))'
    BY <1>1 DEF Past, Handed
  <2>1. r \in world /\ r \in Resource
    BY <1>n, <1>c
  <2>2. r \in Handed \/ Stray(world, r)
    BY <1>1, <2>1 DEF Inv, Past
  <2>3. Mount(r) \in world => Mount(r) \in world'
    BY <1>m, <1>t, <2>1, MountFacts
  <2> QED
    BY <1>1, <2>2, <2>3, StrayNext DEF Bound
<1>7. SourcesStay'
  BY <1>1, <1>s, <1>m, <1>t DEF SourcesStay
<1> QED
  BY <1>2, <1>3, <1>4, <1>5, <1>6, <1>7 DEF Inv

-----------------------------------------------------------------------------
\* The requests, and the use of their roots.

LEMMA BeginInv ==
  ASSUME Inv, Begin
  PROVE  Inv'
<1>1. /\ stage = "next" /\ now <= Len(args.plan) /\ stage' = "provide"
      /\ tools' = ToolsOf(Req) /\ TryWays(WaysOf(Head(ToolsOf(Req))))
      /\ UNCHANGED <<args, now, world, scope, root, roots, sources>>
  BY DEF Begin
<1>2. now \in DOMAIN args.plan /\ scope = {} /\ root = NoRoot /\ \A r \in world : r.req < now
  BY <1>1, PlanFacts DEF Inv, Staged, TypeOK
<1>3. now \in Nat /\ \A r \in world : r.req \in Nat
  BY <1>2, PlanFacts DEF Inv, TypeOK, Resource
<1>4. LeftBehind(world, {})
  BY <1>1, <1>2, <1>3 DEF Inv, TypeOK, SourcesStay, Past, LeftBehind
<1>5. \A r \in world : r.req = now => r.via \in Tried(Head(WaysOf(Head(ToolsOf(Req)))))
  BY <1>2, <1>3
<1>6. \A s \in sources : s.req < now
  BY DEF Inv, Staged
<1> QED
  BY <1>1, <1>2, <1>4, <1>5, <1>6, FirstFacts, TryInv DEF Inv

\* On to the next request, when all that the world has is accounted for.
LEMMA NextRequestInv ==
  ASSUME Inv, NextRequest, now \in DOMAIN args.plan, UNCHANGED <<args, scope, world>>,
         stage # "provide", stage # "done", RootsKept', roots' \in Seq(Root),
         sources' \subseteq world, \A s \in sources' : s.req <= now,
         \A r \in world : r \in Handed' \/ (Stray(world, r))'
  PROVE  Inv'
<1>1. /\ stage' = "next" /\ now' = now + 1 /\ root' = NoRoot
      /\ tools' = <<>> /\ ways' = <<>> /\ ops' = <<>>
  BY DEF NextRequest
<1>2. now \in Nat /\ now' \in 1..(Len(args.plan) + 1)
  BY <1>1, PlanFacts DEF Inv
<1>3. \A r \in world : r.req \in Nat /\ r.req <= now
  BY PlanFacts DEF Inv, TypeOK, Resource, Staged
<1>4. scope = {}
  BY DEF Inv, Staged
<1>5. TypeOK'
  BY <1>1, <1>2, <1>4 DEF Inv, TypeOK
<1>6. Attempting' /\ Stepping' /\ Scoped' /\ Providing' /\ Rooted' /\ Past' /\ SourcesStay'
  BY <1>1 DEF Attempting, Stepping, Scoped, Providing, Rooted, Past, SourcesStay
<1>7. Staged'
  BY <1>1, <1>2, <1>3, <1>4 DEF Inv, Staged, TypeOK, Resource
<1> QED
  BY <1>5, <1>6, <1>7 DEF Inv

LEMMA StageFacts ==
  ASSUME Inv, stage \in {"use", "apart"}
  PROVE  /\ now \in DOMAIN args.plan /\ now \in Nat /\ scope = {} /\ Way \notin Tried(Way)
         /\ root \in Root /\ root # NoRoot
         /\ \A r \in Resource : r.req \in Nat
         /\ world \subseteq Resource /\ root.owns \subseteq world
         /\ \A s \in sources : s.req < now /\ s \in world
         /\ \A r \in world : r.req <= now /\ (r.req < now => r \in Handed \/ Stray(world, r))
<1>1. now \in DOMAIN args.plan /\ now \in Nat /\ Way \notin Tried(Way)
      /\ \A r \in Resource : r.req \in Nat
  BY TypeFacts, WayFacts DEF Inv
<1>2. root \in Root /\ root.owns \subseteq world
  BY DEF Inv, Rooted
<1>3. root # NoRoot
  <2>1. root.owns # NoRoot.owns \/ DOMAIN root # DOMAIN NoRoot
    BY <1>2 DEF Root, NoRoot
  <2> QED
    BY <2>1
<1> QED
  BY <1>1, <1>2, <1>3 DEF Inv, TypeOK, Staged, SourcesStay, Past

LEMMA UseInv ==
  ASSUME Inv, Use
  PROVE  Inv'
<1>1. /\ stage = "use" /\ sources' = sources \cup {root.files} /\ roots' = Append(roots, root)
      /\ NextRequest /\ UNCHANGED <<args, world, scope>>
  BY DEF Use
<1>2. roots' \in Seq(Root) /\ Range(roots') = Range(roots) \cup {root}
  <2>1. roots \in Seq(Root) /\ root \in Root
    BY <1>1, StageFacts DEF Inv, TypeOK
  <2>2. /\ roots' \in Seq(Root) /\ DOMAIN roots' = 1..Len(roots) + 1 /\ roots'[Len(roots) + 1] = root
        /\ DOMAIN roots = 1..Len(roots) /\ \A i \in DOMAIN roots : roots'[i] = roots[i]
        /\ Len(roots) \in Nat
    BY <1>1, <2>1
  <2> QED
    BY <2>2 DEF Range
<1>3. root.files \in world /\ root.files.req = now /\ root.files.via = Way
      /\ Req.kind = "entries"
  BY <1>1 DEF Inv, Rooted, Staged
<1>4. \A r \in root.owns : r.req = now /\ r.via = Way
  BY <1>1 DEF Inv, Rooted
<1>5. RootsKept'
  <2> SUFFICES ASSUME NEW q \in Range(roots')
               PROVE  /\ q.files \in sources' /\ args.plan[q.files.req].kind = "entries"
                      /\ \A r \in q.owns : r.req = q.files.req /\ r.via = q.files.via
    BY <1>1 DEF RootsKept
  <2>1. CASE q \in Range(roots)
    BY <1>1, <2>1 DEF Inv, RootsKept
  <2>2. CASE q = root
    BY <1>1, <1>3, <1>4, <2>2 DEF Req
  <2> QED
    BY <1>2, <2>1, <2>2
<1>6. Handed' = Handed \cup root.owns
  BY <1>2 DEF Handed
<1>7. ASSUME NEW r \in world PROVE r \in Handed' \/ (Stray(world, r))'
  <2>1. CASE r.req < now
    <3>1. r \in Handed \/ Stray(world, r)
      BY <1>1, <2>1, StageFacts
    <3>2. ~(root.files.req = r.req /\ root.files.via = r.via)
      BY <1>1, <1>3, <2>1, StageFacts
    <3> QED
      BY <1>1, <1>6, <3>1, <3>2, StrayNext DEF Bound
  <2>2. CASE r.req = now /\ r.via = Way
    <3>1. r \in root.owns \/ StrayFor(world, r)
      BY <1>1, <2>2, StageFacts DEF Inv, Rooted
    <3>2. StrayFor(world, r) => (Stray(world, r))'
      BY <1>1 DEF Stray, StrayFor, Copied
    <3> QED
      BY <1>6, <3>1, <3>2
  <2>3. CASE r.req = now /\ r.via # Way
    <3>1. Stray(world, r)
      BY <1>1, <2>3 DEF Inv, Rooted
    <3>2. ~(root.files.req = r.req /\ root.files.via = r.via)
      BY <1>3, <2>3
    <3> QED
      BY <1>1, <3>1, <3>2, StrayNext DEF Bound
  <2>4. r.req \in Nat /\ r.req <= now /\ now \in Nat
    BY <1>1, StageFacts
  <2> QED
    BY <2>1, <2>2, <2>3, <2>4
<1>8. sources' \subseteq world /\ \A s \in sources' : s.req <= now
  BY <1>1, <1>3, StageFacts
<1> QED
  BY <1>1, <1>2, <1>5, <1>7, <1>8, StageFacts, NextRequestInv

LEMMA UseFailsInv ==
  ASSUME Inv, UseFails
  PROVE  Inv'
<1> DEFINE v == Without(world, root.owns)
<1>1. /\ stage = "use" /\ NextTool(v) /\ root' = NoRoot /\ UNCHANGED <<args, now, scope, sources>>
  BY DEF UseFails
<1>2. scope' = {}
  BY <1>1 DEF Inv, Staged
<1>v. /\ v \subseteq world /\ \A r \in world : r \notin root.owns => r \in v
      /\ \A r \in v : r \in root.owns => r.kind = "dir" /\ Mount(r) \in world /\ Mount(r) \notin root.owns
  BY WithoutFacts
<1>o. \A r \in root.owns : r.req = now /\ r.via = Way
  BY <1>1 DEF Inv, Rooted
<1> HIDE DEF v
<1>3. LeftBehind(v, {})
  <2>1. v \subseteq Resource /\ sources \subseteq v
    BY <1>1, <1>v, <1>o, StageFacts
  <2>2. ASSUME NEW r \in v, r.req < now PROVE r \in Handed \/ Stray(v, r)
    <3>1. r \in world /\ r \in Resource /\ (r \in Handed \/ Stray(world, r))
      BY <1>1, <1>v, <2>2, StageFacts
    <3>2. Mount(r) \in world => Mount(r) \in v
      BY <1>1, <1>v, <1>o, <2>2, <3>1, MountFacts, StageFacts
    <3> QED
      BY <3>1, <3>2, StrayKept DEF Bound
  <2>3. ASSUME NEW r \in v, r.req = now PROVE r.via \in Tried(Way) \cup {Way} /\ Stray(v, r)
    <3>m. /\ r \in world /\ r \in Resource /\ Mount(r) \in Resource /\ Mount(r).kind = "bind"
          /\ Mount(r).req = now /\ Mount(r).via = r.via
      BY <1>1, <1>v, <2>3, MountFacts, StageFacts
    <3>k. Req.kind = "entries" /\ Req = args.plan[now]
      BY <1>1 DEF Inv, Staged, Req
    <3>1. CASE r.via = Way
      <4>1. \A x \in world : x.req = now /\ x.via = Way /\ x.kind = "bind" => x \in root.owns
        BY <1>1, <3>k, StageFacts DEF Inv, Rooted, StrayFor, Copied
      <4>2. r \notin root.owns
        BY <1>v, <3>1, <3>m, <4>1
      <4>3. StrayFor(world, r)
        BY <1>1, <2>3, <3>1, <3>m, <4>2, StageFacts DEF Inv, Rooted
      <4> QED
        BY <2>3, <3>1, <3>k, <4>3 DEF Stray, StrayFor, Copied
    <3>2. CASE r.via # Way
      <4>1. r.via \in Tried(Way) /\ Stray(world, r)
        BY <1>1, <2>3, <3>2, <3>m DEF Inv, Rooted
      <4>2. Mount(r) \in world => Mount(r) \in v
        BY <1>v, <1>o, <3>2, <3>m
      <4> QED
        BY <4>1, <4>2, StrayKept DEF Bound
    <3> QED
      BY <3>1, <3>2
  <2> QED
    BY <1>1, <1>v, <2>1, <2>2, <2>3, StageFacts DEF LeftBehind
<1> QED
  BY <1>1, <1>2, <1>3, NextToolInv

LEMMA CopyServedInv ==
  ASSUME Inv, CopyServed
  PROVE  Inv'
<1>1. stage = "next" /\ now <= Len(args.plan) /\ UNCHANGED <<args, scope>>
  BY DEF CopyServed
<1>2. now \in DOMAIN args.plan /\ scope = {} /\ now \in Nat
  BY <1>1, PlanFacts DEF Inv, Staged, TypeOK
<1>3. /\ world \subseteq Resource /\ sources \subseteq world /\ roots \in Seq(Root)
      /\ \A s \in sources : s.req < now
      /\ \A r \in world : r.req < now /\ (r \in Handed \/ Stray(world, r))
  BY <1>1 DEF Inv, TypeOK, Staged, SourcesStay, Past
<1>q. \A x \in Nat : x < now => x <= now
  BY <1>2
<1>n. \A r \in Resource : r.req \in Nat
  BY PlanFacts DEF Inv, Resource
<1>4. CASE NextRequest /\ UNCHANGED <<world, roots>> /\ \E i \in Serving(Req) : sources' = sources \cup {roots[i].files}
  <2>1. sources' = sources
    BY <1>4 DEF Inv, RootsKept, Serving, Range
  <2>2. RootsKept' /\ Handed' = Handed
    BY <1>1, <1>4, <2>1 DEF Inv, RootsKept, Handed
  <2>3. \A r \in world : r \in Handed' \/ (Stray(world, r))'
    BY <1>1, <1>3, <1>4, <2>1, <2>2, StrayNext DEF Bound
  <2>4. \A s \in sources : s.req <= now
    BY <1>3, <1>q, <1>n
  <2> QED
    BY <1>1, <1>2, <1>3, <1>4, <2>1, <2>2, <2>3, <2>4, NextRequestInv
<1>5. CASE Quit(world) /\ UNCHANGED <<now, root, sources>>
  <2>1. root' \in Root \cup {NoRoot} /\ scope' = {}
    BY <1>1, <1>2, <1>5 DEF Inv, TypeOK
  <2>2. \A r \in world : r.req <= now
    BY <1>3, <1>q, <1>n
  <2> QED
    BY <1>1, <1>3, <1>5, <2>1, <2>2, QuitInv DEF Inv
<1> QED
  BY <1>4, <1>5 DEF CopyServed

LEMMA TakeApartInv ==
  ASSUME Inv, TakeApart
  PROVE  Inv'
<1>a. PICK S : S = {r \in root.owns : r.kind \in {"dir", "files"}}
  OBVIOUS
<1>b. PICK v : v = Without(world, S)
  OBVIOUS
<1>1. /\ stage = "apart" /\ world' = v /\ root' = [root EXCEPT !.owns = {}]
      /\ UNCHANGED <<stage, args, now, tools, ways, ops, scope, roots, sources>>
  BY <1>a, <1>b DEF TakeApart, attempt
<1>v. /\ v \subseteq world /\ \A r \in world : r \notin S => r \in v
      /\ \A r \in v : r \in S => r.kind = "dir" /\ Mount(r) \in world /\ Mount(r) \notin S
  BY <1>b, WithoutFacts
<1>s. \A r : r \in S <=> r \in root.owns /\ r.kind \in {"dir", "files"}
  BY <1>a
<1>w. Way' = Way /\ Req' = Req /\ Req = args.plan[now] /\ Req.kind = "copy"
  BY <1>1 DEF Inv, Way, Req, Staged
<1>r. /\ root \in Root /\ root' \in Root /\ root'.owns = {} /\ root'.files = root.files
      /\ root.files.req = now /\ root.files.via = Way
  BY <1>1, StageFacts DEF Inv, Rooted, Root
<1>o. \A r \in root.owns :
        /\ r.req = now /\ r.via = Way
        /\ r.kind \in {"dir", "files", "bind"} \/ (r.kind \in {"container", "mounted"} /\ Way = "podman-mount")
  BY <1>1 DEF Inv, Rooted
<1>2. TypeOK'
  BY <1>1, <1>v, <1>r, StageFacts DEF Inv, TypeOK
<1>3. Attempting' /\ Stepping' /\ Scoped' /\ Providing' /\ RootsKept'
  BY <1>1, <1>w DEF Inv, Attempting, RootsKept, WaysLeft, WaysOf, ByAgent, Stepping, Scoped, Providing
<1>4. Staged'
  BY <1>1, <1>w, <1>v DEF Inv, Staged
<1>k. \A r \in world : Mount(r) \in world => Mount(r) \in v
  BY <1>1, <1>v, <1>s, MountFacts, StageFacts
<1>5. Rooted'
  <2>1. ASSUME NEW r \in v, r.req = now
        PROVE  \/ r.via = Way /\ (StrayFor(v, r))'
               \/ r.via \in Tried(Way) /\ (Stray(v, r))'
    <3>m. /\ r \in world /\ r \in Resource /\ (r.kind = "bind" => Mount(r) = r)
      BY <1>1, <1>v, MountFacts, StageFacts
    <3>1. CASE r \in root.owns
      <4>1. r \in S => r.kind = "dir" /\ Mount(r) \in v
        BY <1>v, <1>k, <3>m
      <4>2. (Copied(r))'
        BY <1>1, <1>w, <2>1 DEF Copied
      <4>3. \/ r.kind \in {"bind", "dir"} /\ Mount(r) \in v
            \/ r.kind \in {"container", "mounted"} /\ Way = "podman-mount"
        BY <1>o, <1>s, <3>1, <3>m, <4>1
      <4> QED
        BY <1>o, <3>1, <4>2, <4>3 DEF StrayFor
    <3>2. CASE r \notin root.owns
      <4>1. \/ r.via = Way /\ StrayFor(world, r)
            \/ r.via \in Tried(Way) /\ Stray(world, r)
        BY <1>1, <2>1, <3>2, <3>m DEF Inv, Rooted
      <4>2. StrayFor(world, r) => (StrayFor(v, r))'
        BY <1>1, <1>k, <3>m DEF StrayFor, Copied
      <4>3. Stray(world, r) => (Stray(v, r))'
        BY <1>1, <1>k, <3>m, StrayNext DEF Bound
      <4> QED
        BY <4>1, <4>2, <4>3
    <3> QED
      BY <3>1, <3>2
  <2> QED
    BY <1>1, <1>w, <1>r, <2>1 DEF Rooted, Tried
<1>6. Past'
  <2> SUFFICES ASSUME NEW r \in v, r.req < now PROVE r \in Handed \/ (Stray(v, r))'
    BY <1>1 DEF Past, Handed
  <2>1. r \in world /\ (r \in Handed \/ Stray(world, r))
    BY <1>1, <1>v, StageFacts
  <2> QED
    BY <1>1, <1>k, <2>1, StrayNext DEF Bound
<1>7. SourcesStay'
  <2>1. \A s \in sources : s \in world /\ s.req < now /\ now \in Nat
    BY <1>1, StageFacts
  <2>2. \A s \in sources : s \notin S
    BY <1>o, <1>s, <2>1
  <2> QED
    BY <1>1, <1>v, <2>1, <2>2 DEF SourcesStay
<1> QED
  BY <1>2, <1>3, <1>4, <1>5, <1>6, <1>7 DEF Inv

LEMMA CopyTakenInv ==
  ASSUME Inv, CopyTaken
  PROVE  Inv'
<1>1. stage = "apart" /\ root.owns = {} /\ UNCHANGED <<args, scope>>
  BY DEF CopyTaken
<1>2. /\ root.files.req = now /\ root.files.via = Way /\ Req = args.plan[now] /\ Req.kind = "copy"
      /\ \A r \in world : r.req = now =>
           (r.via = Way /\ StrayFor(world, r)) \/ (r.via # Way /\ Stray(world, r))
  BY <1>1, StageFacts DEF Inv, Rooted, Staged, Req
<1>3. ASSUME UNCHANGED roots, sources' \subseteq sources \cup {root.files}, sources \subseteq sources',
             NextRequest, UNCHANGED world, root.files \in sources' => root.files \in world
      PROVE  Inv'
  <2>1. RootsKept' /\ Handed' = Handed
    BY <1>1, <1>3 DEF Inv, RootsKept, Handed
  <2>2. ASSUME NEW r \in world PROVE r \in Handed' \/ (Stray(world, r))'
    <3>1. CASE r.req = now /\ r.via = Way
      <4>1. StrayFor(world, r)
        BY <1>2, <3>1
      <4> QED
        BY <1>1, <1>3, <4>1 DEF Stray, StrayFor, Copied
    <3>2. CASE ~(r.req = now /\ r.via = Way)
      <4>1. r \in Handed \/ Stray(world, r)
        BY <1>1, <1>2, <3>2, StageFacts
      <4> QED
        BY <1>1, <1>2, <1>3, <2>1, <3>2, <4>1, StrayNext DEF Bound
    <3> QED
      BY <3>1, <3>2
  <2>3. sources' \subseteq world /\ \A s \in sources' : s.req <= now
    <3>1. \A s \in sources : s.req \in Nat /\ s.req <= now /\ s \in world
      BY <1>1, StageFacts
    <3> QED
      BY <1>1, <1>2, <1>3, <3>1, StageFacts
  <2>4. roots' \in Seq(Root)
    BY <1>3 DEF Inv, TypeOK
  <2> QED
    BY <1>1, <1>3, <2>1, <2>2, <2>3, <2>4, StageFacts, NextRequestInv
<1>4. ASSUME Quit(world), UNCHANGED <<now, root, sources>>
      PROVE  Inv'
  <2>1. \A r \in world : r \in Handed \/ Stray(world, r)
    <3> SUFFICES ASSUME NEW r \in world, r.req = now PROVE Stray(world, r)
      BY <1>1, StageFacts
    <3> QED
      BY <1>2 DEF Stray
  <2>2. root' \in Root \cup {NoRoot} /\ scope' = {} /\ world \subseteq Resource
        /\ \A r \in world : r.req <= now
    BY <1>1, <1>4, StageFacts
  <2>3. \A s \in sources : s.req < now
    BY <1>1, StageFacts
  <2> QED
    BY <1>1, <1>4, <2>1, <2>2, <2>3, QuitInv DEF Inv
<1>5. CASE /\ root.files \in world /\ sources' = sources \cup {root.files}
           /\ NextRequest /\ UNCHANGED <<world, roots>>
  BY <1>3, <1>5
<1>6. CASE NextRequest /\ UNCHANGED <<world, roots, sources>>
  <2>1. root.files \notin sources
    BY <1>1, <1>2, StageFacts
  <2> QED
    BY <1>3, <1>6, <2>1
<1> QED
  BY <1>4, <1>5, <1>6 DEF CopyTaken

LEMMA EmitInv ==
  ASSUME Inv, Emit
  PROVE  Inv'
<1>1. /\ stage = "next" /\ stage' = "emit"
      /\ UNCHANGED <<args, now, tools, ways, ops, world, scope, root, roots, sources>>
  BY DEF Emit, attempt
<1>2. Attempting' /\ Stepping' /\ Scoped' /\ Providing' /\ Rooted'
  BY <1>1 DEF Attempting, Stepping, Scoped, Providing, Rooted
<1>3. TypeOK' /\ Staged' /\ RootsKept' /\ SourcesStay'
  BY <1>1 DEF Inv, TypeOK, Staged, RootsKept, SourcesStay
<1>4. Past'
  BY <1>1 DEF Inv, Past, Handed, Stray, StrayFor, Abandoned, Copied
<1> QED
  BY <1>2, <1>3, <1>4 DEF Inv

LEMMA FinishInv ==
  ASSUME Inv, Finish
  PROVE  Inv'
<1>1. stage = "emit" /\ Quit(world) /\ UNCHANGED <<args, now, scope, root, sources>>
  BY DEF Finish
<1>n. now \in Nat /\ \A r \in Resource : r.req \in Nat
  BY PlanFacts DEF Inv, TypeOK, Resource
<1>2. /\ \A r \in world : r.req <= now /\ (r \in Handed \/ Stray(world, r))
      /\ scope' = {} /\ root' \in Root \cup {NoRoot} /\ world \subseteq Resource
      /\ \A s \in sources : s.req < now
  BY <1>1, <1>n DEF Inv, TypeOK, Staged, Past
<1> QED
  BY <1>1, <1>2, QuitInv DEF Inv

LEMMA InitInv == Init => Inv
<1> SUFFICES ASSUME Init PROVE Inv
  OBVIOUS
<1> USE DEF Init
<1>1. now \in 1..(Len(args.plan) + 1)
  <2>1. PICK n \in 1..MaxRequests : args.plan \in [1..n -> Request]
    BY DEF Plans
  <2> QED
    BY <2>1, BoundIsPositive
<1>2. TypeOK
  BY <1>1 DEF TypeOK
<1>3. Attempting /\ Stepping /\ Scoped /\ Providing /\ Rooted
  BY DEF Attempting, Stepping, Scoped, Providing, Rooted
<1>4. Staged /\ RootsKept /\ Past /\ SourcesStay
  BY NoneLeft DEF Staged, RootsKept, Past, SourcesStay
<1> QED
  BY <1>2, <1>3, <1>4 DEF Inv

LEMMA StepInv == Inv /\ [Next]_vars => Inv'
<1> SUFFICES ASSUME Inv, [Next]_vars PROVE Inv'
  OBVIOUS
<1>1. CASE UNCHANGED vars
  <2>1. UNCHANGED <<stage, args, now, tools, ways, ops, world, scope, root, roots, sources>>
    BY <1>1 DEF vars
  <2>2. TypeOK' /\ Attempting' /\ Stepping' /\ Staged'
    BY <2>1 DEF Inv, TypeOK, Attempting, Stepping, Staged, WaysLeft, WaysOf, ByAgent, Req, Way
  <2>3. Scoped' /\ Providing'
    BY <2>1 DEF Inv, Scoped, Providing, Mine, Way, The, Tried, Stray, StrayFor, Abandoned, Copied
  <2>4. Rooted' /\ RootsKept'
    BY <2>1 DEF Inv, Rooted, RootsKept, Way, Tried, Stray, StrayFor, Abandoned, Copied
  <2>5. Past' /\ SourcesStay'
    BY <2>1 DEF Inv, Past, SourcesStay, Handed, Stray, StrayFor, Abandoned, Copied
  <2> QED
    BY <2>2, <2>3, <2>4, <2>5 DEF Inv
<1> QED
  BY <1>1, BeginInv, PerformInv, FailInv, FailUnprivateInv, RefuseInv, ReturnInv, UseInv,
     UseFailsInv, CopyServedInv, TakeApartInv, CopyTakenInv, EmitInv, FinishInv DEF Next

LEMMA InvSpec == Spec => []Inv
BY InitInv, StepInv, PTL DEF Spec

-----------------------------------------------------------------------------
\* The types: every request has a tool that a provider exists for, what is
\* acquired is of the request and the way it is acquired for, and the guards
\* hold nothing that has been removed.
THEOREM ImageTypes == Spec => []TypeOK
<1>1. Inv => TypeOK
  BY DEF Inv
<1> QED
  BY <1>1, InvSpec, PTL

\* What the files of the closure are read from is neither removed nor
\* unmounted before the packager is done, whatever is tried, fails or is
\* taken apart for later requests: ImageRootInner's Drop runs when the
\* resolvers are dropped, and every other removal is of the request at hand.
THEOREM ImageSourcesStay == Spec => []SourcesStay
<1>1. Inv => SourcesStay
  BY DEF Inv
<1> QED
  BY <1>1, InvSpec, PTL

\* A root handed to the closure builder is complete: every way that returns
\* has got the files, mounted or unpacked, and its guards gave up what the
\* root took over.
THEOREM ImageRootIsThere == Spec => []RootIsThere
<1>1. Inv => RootIsThere
  BY DEF Inv, Rooted, RootIsThere
<1> QED
  BY <1>1, InvSpec, PTL

LEMMA LeaksKnown == Inv => OnlyKnownLeaks
<1>s. ASSUME \A r \in world \ Owned : Stray(world, r)
      PROVE  OnlyKnownLeaks
  <2> SUFFICES ASSUME NEW r \in world \ Owned
               PROVE  \/ r.kind = "container" /\ r.via \in AgentWays /\ Abandoned(r)
                      \/ r.kind \in {"bind", "dir"} /\ [r EXCEPT !.kind = "bind"] \in world
                           /\ (Abandoned(r) \/ Copied(r))
                      \/ r.kind \in {"container", "mounted"} /\ Copied(r) /\ r.via = "podman-mount"
                      \/ r.via \in AgentWays /\ r.kind = "out" /\ "out" \in args.keep
                      \/ r.via \in AgentWays /\ r.kind \in {"dir", "files"} /\ "dir" \in args.keep
    BY Zenon DEF OnlyKnownLeaks
  <2>1. Stray(world, r)
    BY <1>s
  <2> QED
    BY <2>1, Zenon DEF Stray, StrayFor, Mount
<1> SUFFICES ASSUME Inv, NEW r \in world \ Owned PROVE Stray(world, r)
  BY <1>s, Zenon
<1>1. r \in world /\ r \notin scope /\ r \notin Handed /\ (root # NoRoot => r \notin root.owns)
  BY DEF Owned, Handed
<1>2. r.req \in Nat /\ now \in Nat
  BY PlanFacts DEF Inv, TypeOK, Resource
<1>3. r.req <= now
  BY <1>1 DEF Inv, Staged
<1>4. CASE stage = "done"
  BY <1>1, <1>4 DEF Inv, Past
<1>5. CASE stage # "done" /\ r.req < now
  BY <1>1, <1>5 DEF Inv, Past
<1>6. CASE stage # "done" /\ r.req = now
  <2>1. stage \in {"provide", "use", "apart"}
    BY <1>1, <1>2, <1>6 DEF Inv, TypeOK, Staged
  <2>2. CASE stage = "provide"
    <3>1. Abandoned(r)
      <4>1. \A s \in sources : s.req < now
        BY DEF Inv, Staged
      <4> QED
        BY <1>2, <1>6, <4>1 DEF Abandoned
    <3> QED
      BY <1>1, <1>6, <2>2, <3>1 DEF Inv, Providing, Mine, Stray
  <2>3. CASE stage \in {"use", "apart"}
    BY <1>1, <1>6, <2>3, StageFacts DEF Inv, Rooted, Stray
  <2> QED
    BY <2>1, <2>2, <2>3
<1> QED
  BY <1>2, <1>3, <1>4, <1>5, <1>6

\* Containers, mounts, directories and services have an owner whose
\* destructor gives them back, or are one of the leaks that the code is known
\* for: at every step of every way, with every failure, for any number of
\* requests.
THEOREM ImageOnlyKnownLeaks == Spec => []OnlyKnownLeaks
BY LeaksKnown, InvSpec, PTL
=============================================================================
