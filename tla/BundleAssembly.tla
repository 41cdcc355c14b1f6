---------------------------- MODULE BundleAssembly ----------------------------
(***************************************************************************)
(* How `sidebundle create` assembles a bundle's payload from several       *)
(* inputs: the closure of the host's entries, the closures of images       *)
(* merged into it, system assets, directories copied as they are; then the *)
(* clean-up of symbolic links and Packager::emit, which puts files,        *)
(* aliases and links in place one after the other.  All of them name paths *)
(* of one payload, and each stage has a rule of its own for a path that is *)
(* taken.                                                                  *)
(*                                                                         *)
(* A link is written in one of two spellings: a traced one as the program  *)
(* sees it ("run": /x -> /y), a copied one as the bundle has it ("pay":    *)
(* payload/x -> payload/y).  Only emit brings both to one form.            *)
(*                                                                         *)
(* The payload is flat here: a name stands for the path of a file, and     *)
(* directories, which emit never replaces by a link, are left out.  So is  *)
(* what does not put files there: entry plans and their launchers, the     *)
(* environment, the copies of traced files below resources/.               *)
(***************************************************************************)
EXTENDS Naturals, FiniteSets, SequencesExt

CONSTANTS
    Host,        \* Origin::Host
    Images,      \* the groups of --from-image: an image, as one backend has it
    Copied,      \* where --copy-dir takes its files from
    PathOrder,   \* all paths below payload/, in the order of their names
    DigestOf,    \* DigestOf[o][x]: the contents of path x of origin o
    Elves,       \* the paths of ELF files
    Assets,      \* SYSTEM_ASSET_PATHS, in their order
    ResolvConf,  \* payload/etc/resolv.conf
    Empty,       \* the digest of an empty file
    Nothing,     \* no file
    NoName,      \* no path
    MaxInputs    \* bound: traced paths and copied directory entries together

Names   == Range(PathOrder)
Origins == {Host, Copied} \cup Range(Images)
Digests == UNION {Range(DigestOf[o]) : o \in Origins}

ASSUME OriginsAreDistinct ==
    IsInjective(Images) /\ Host # Copied /\ {Host, Copied} \cap Range(Images) = {}
ASSUME PathsAreOrdered ==
    PathOrder \in Seq(Names) /\ IsInjective(PathOrder) /\ NoName \notin Names
ASSUME AssetsArePaths == Assets \in Seq(Names) /\ IsInjective(Assets) /\ ResolvConf \in Names
ASSUME ContentsKnown == DigestOf \in [Origins -> [Names -> Digests]] /\ Nothing \notin Digests
ASSUME ImagesAreListed == Images \in Seq(Range(Images))

VARIABLES
    pc,          \* the stage
    images,      \* images still to merge
    files,       \* closure.files: sources and destinations
    links,       \* closure.symlinks
    aliases,     \* runtime_aliases and traced_files: sources and paths for them
    next,        \* the position of emit in files, then in links
    held,        \* held[x]: what the file payload/x holds
    link,        \* link[x]: where the symbolic link payload/x leads
    traces,      \* history: traces[o], the paths traced in o
    offers       \* history: every file an input offered, in order

vars == <<pc, images, files, links, aliases, next, held, link, traces, offers>>
closure == <<files, links, aliases>>
payload == <<held, link>>

\* A traced path and the file it was resolved to; link: it is a symbolic link
\* itself, and not just below one.
Resolution == {r \in [orig : Names, canon : Names, link : BOOLEAN] :
                 r.orig = r.canon => ~r.link}
File == [src : Origins \X Names, dest : Names]
Link == [form : {"run", "pay"}, dest : Names, target : Names]

TypeOK ==
    /\ pc \in {"host", "images", "assets", "copy", "sanitize", "files", "links",
               "done", "refused", "failed"}
    /\ images \in Seq(Range(Images))
    /\ files \in Seq(File) /\ offers \in Seq(File)
    /\ links \in Seq(Link)
    /\ aliases \subseteq (Origins \X Names) \X Names
    /\ next \in 1..(Len(files) + Len(links) + 1)
    /\ held \in [Names -> Digests \cup {Nothing}]
    /\ link \in [Names -> Names \cup {NoName}]
    /\ traces \in [Origins -> SUBSET Resolution]

Init ==
    /\ pc = "host"
    /\ images = Images
    /\ files = <<>> /\ links = <<>> /\ aliases = {}
    /\ next = 1
    /\ held = [x \in Names |-> Nothing]
    /\ link = [x \in Names |-> NoName]
    /\ traces = [o \in Origins |-> {}]
    /\ offers = <<>>

-----------------------------------------------------------------------------
(* The closure of one origin: ClosureBuilder::build, as far as the payload *)
(* is concerned.                                                           *)

Used == SumFunction([o \in Origins |-> Cardinality(traces[o])])

\* One root: each path has one resolution, and what a path is resolved to is
\* no link.
Traces ==
    {T \in UNION {kSubset(k, Resolution) : k \in 0..(MaxInputs - Used)} :
       \A r, q \in T : /\ r.orig = q.orig => r = q
                       /\ r.canon = q.orig => q.orig = q.canon}

\* The elements of s at the indices in I, in the order of s.
Pick(s, I) ==
    [k \in 1..Cardinality(I) |->
        s[CHOOSE i \in I : Cardinality({j \in I : j < i}) = k - 1]]
Those(s, S) == Pick(s, {i \in DOMAIN s : s[i] \in S})
InOrder(S) == Those(PathOrder, S)

FilesAtPosition(o, names) ==                      \* mutant: a number for a path
    [i \in DOMAIN names |-> [src |-> <<o, names[i]>>, dest |-> i]]
FilesAt(o, names) == [i \in DOMAIN names |-> [src |-> <<o, names[i]>>, dest |-> names[i]]]
BuiltFiles(o, T)  == FilesAt(o, InOrder({r.canon : r \in T}))

\* record_traced_symlinks
BuiltLinks(T) ==
    LET names == InOrder({r.orig : r \in {q \in T : q.link}})
    IN  [i \in DOMAIN names |->
            [form |-> "run", dest |-> names[i],
             target |-> (CHOOSE r \in T : r.orig = names[i]).canon]]

AliasesOf(o, T) == {<<<<o, r.canon>>, r.orig>> : r \in {q \in T : q.orig # q.canon}}

\* promote_traced_resources records the path it traced, promote_traced_elves
\* does not.
BuiltAliases(o, T) == AliasesOf(o, {r \in T : r.canon \notin Elves})

CollectHost ==
    /\ pc = "host"
    /\ \E T \in Traces :
         /\ files' = BuiltFiles(Host, T)
         /\ links' = BuiltLinks(T)
         /\ aliases' = BuiltAliases(Host, T) \cup AliasesOf(Host, T)
         /\ traces' = [traces EXCEPT ![Host] = T]
    /\ offers' = files'
    /\ pc' = "images"
    /\ UNCHANGED <<images, next, payload>>

-----------------------------------------------------------------------------
(* DependencyClosure::merge.                                               *)

Taken(fs, x) == \E i \in DOMAIN fs : fs[i].dest = x

\* A destination belongs to the file that is there first; those of one closure
\* are different.
LastCome(fs, new) ==                              \* mutant: to the last one
    Pick(fs, {i \in DOMAIN fs : ~Taken(new, fs[i].dest)}) \o new
FirstCome(fs, new) == fs \o Pick(new, {i \in DOMAIN new : ~Taken(fs, new[i].dest)})

Linked(ls, l) == \E i \in DOMAIN ls : ls[i].form = l.form /\ ls[i].dest = l.dest
AddLinks(ls, new) == ls \o Pick(new, {i \in DOMAIN new : ~Linked(ls, new[i])})

\* Of the traced files of an image merge keeps one path per file, the first.
Path(x) == CHOOSE i \in DOMAIN PathOrder : PathOrder[i] = x
FirstPaths(T) ==
    {r \in T : \A q \in T : q.canon = r.canon => Path(r.orig) <= Path(q.orig)}

MergeImage ==
    /\ pc = "images" /\ images # <<>>
    /\ LET o == Head(images) IN
       \E T \in Traces :
         /\ files' = FirstCome(files, BuiltFiles(o, T))
         /\ links' = AddLinks(links, BuiltLinks(T))
         /\ aliases' = aliases \cup BuiltAliases(o, T) \cup AliasesOf(o, FirstPaths(T))
         /\ traces' = [traces EXCEPT ![o] = T]
         /\ offers' = offers \o BuiltFiles(o, T)
    /\ images' = Tail(images)
    /\ UNCHANGED <<pc, next, payload>>

EndImages ==
    /\ pc = "images" /\ images = <<>>
    /\ pc' = "assets" /\ images' = Images
    /\ UNCHANGED <<closure, next, payload, traces, offers>>

-----------------------------------------------------------------------------
(* The other inputs.                                                       *)

\* ensure_system_assets, for images that have entries: all that exist there
\* and have no file yet.
EnsureAssets ==
    /\ pc = "assets" /\ images # <<>>
    /\ LET o == Head(images) IN
       \E present \in SUBSET Range(Assets) :
         /\ traces[o] = {} => present = {}
         /\ \A r \in traces[o] : {r.orig, r.canon} \cap Range(Assets) \subseteq present
         /\ files' = FirstCome(files, FilesAt(o, Those(Assets, present)))
         /\ offers' = offers \o FilesAt(o, Those(Assets, present))
    /\ images' = Tail(images)
    /\ UNCHANGED <<pc, links, aliases, next, payload, traces>>

EndAssets ==
    /\ pc = "assets" /\ images = <<>>
    /\ pc' = "copy"
    /\ UNCHANGED <<images, closure, next, payload, traces, offers>>

\* copy_dir_into_closure, entry by entry of every directory.  What is left of
\* the bound is kept in traces[Copied], as if the entry had been traced.
Copying(r) ==
    /\ pc = "copy" /\ Used < MaxInputs
    /\ traces' = [traces EXCEPT ![Copied] = @ \cup {r}]
    /\ traces' # traces
    /\ UNCHANGED <<images, aliases, next, payload>>

CopiedFile(x) == [src |-> <<Copied, x>>, dest |-> x]
AddCopy(x) ==
    /\ files' = FirstCome(files, <<CopiedFile(x)>>)
    /\ offers' = Append(offers, CopiedFile(x))
    /\ UNCHANGED links

CopyFile ==
    \E x \in Names :
        /\ Copying([orig |-> x, canon |-> x, link |-> FALSE])
        /\ AddCopy(x)
        /\ UNCHANGED pc

\* Where a path leads by the links of one form.  find takes the first link of a
\* path, the map of sanitize_symlinks the last.
LinksOf(ls, form, x) == {i \in DOMAIN ls : ls[i].form = form /\ ls[i].dest = x}
FirstTarget(ls, form) ==
    [x \in Names |-> LET of == LinksOf(ls, form, x) IN IF of = {} THEN NoName ELSE ls[Min(of)].target]
LastTarget(ls, form) ==
    [x \in Names |-> LET of == LinksOf(ls, form, x) IN IF of = {} THEN NoName ELSE ls[Max(of)].target]

\* The paths on the way from x, then NoName, unless the way has a cycle.
Way(to, x) ==
    LET way[n \in 0..(Cardinality(Names) + 1)] ==
            IF n = 0 THEN x ELSE IF way[n - 1] = NoName THEN NoName ELSE to[way[n - 1]]
    IN  way
Cyclic(to, x) == NoName \notin Range(Way(to, x))

\* would_create_symlink_cycle: a cycle through x, or one beyond it.
ClosesCycle(x, target) ==
    LET to == FirstTarget(links, "pay")
    IN  x \in Range(Way(to, target)) \/ Cyclic(to, target)

\* A symbolic link, followed on the host by hand: target is where its target
\* would be in the payload.  It is copied as a file when it would close a
\* cycle, which fails for a link that leads nowhere.
CopyLink ==
    \E x, target \in Names :
        /\ Copying([orig |-> x, canon |-> target, link |-> x # target])
        /\ \/ /\ Taken(files, x)
              /\ UNCHANGED <<pc, files, links, offers>>
           \/ /\ ~Taken(files, x) /\ ClosesCycle(x, target)
              /\ \/ AddCopy(x) /\ UNCHANGED pc
                 \/ pc' = "refused" /\ UNCHANGED <<files, links, offers>>
           \/ /\ ~Taken(files, x) /\ ~ClosesCycle(x, target)
              /\ LET l == [form |-> "pay", dest |-> x, target |-> target]
                 IN  links' = IF l \in Range(links) THEN links ELSE Append(links, l)
              /\ UNCHANGED <<pc, files, offers>>

EndCopies ==
    /\ pc = "copy"
    /\ pc' = "sanitize"
    /\ UNCHANGED <<images, closure, next, payload, traces, offers>>

\* sanitize_symlinks, and the check that there are entries to package.
HasEntries == \E o \in Origins \ {Copied} : traces[o] # {}
InCycle(ls, l) == Cyclic(LastTarget(ls, l.form), l.dest)
Free == Pick(links, {i \in DOMAIN links : ~(links[i].form = "pay" /\ Taken(files, links[i].dest))})
SanitizeFilesOnly ==                              \* mutant: cycles are kept
    /\ pc = "sanitize"
    /\ links' = Free
    /\ pc' = IF HasEntries THEN "files" ELSE "refused"
    /\ UNCHANGED <<images, files, aliases, next, payload, traces, offers>>
Sanitize ==
    /\ pc = "sanitize"
    /\ links' = Pick(Free, {i \in DOMAIN Free : ~InCycle(Free, Free[i])})
    /\ pc' = IF HasEntries THEN "files" ELSE "refused"
    /\ UNCHANGED <<images, files, aliases, next, payload, traces, offers>>

-----------------------------------------------------------------------------
(* Packager::emit.                                                         *)

\* What a source holds: a path of an image may be a link.
Contents(src) ==
    LET via == {r \in traces[src[1]] : r.orig = src[2] /\ src[1] # Copied}
    IN  DigestOf[src[1]][IF via = {} THEN src[2] ELSE (CHOOSE r \in via : TRUE).canon]

\* An empty resolv.conf gives way to the host's.
Staged(f) ==
    IF f.dest = ResolvConf /\ Contents(f.src) = Empty
    THEN DigestOf[Host][ResolvConf] ELSE Contents(f.src)

\* Paths of a file beside its destination, unless a traced link has them.
OnlyResources(f) ==                               \* mutant: no path of an ELF file
    {a[2] : a \in {b \in aliases : b[1] = f.src /\ f.dest \notin Elves}} \ {f.dest}
AliasPaths(f) ==
    {a[2] : a \in {b \in aliases : b[1] = f.src}}
        \ ({f.dest} \cup {l.dest : l \in {k \in Range(links) : k.form = "run"}})

\* A file and its aliases replace what they find.
StageFile ==
    /\ pc = "files" /\ next <= Len(files)
    /\ LET f == files[next]
           placed == {f.dest} \cup AliasPaths(f)
       IN  held' = [x \in Names |-> IF x \in placed THEN Staged(f) ELSE held[x]]
    /\ next' = next + 1
    /\ UNCHANGED <<pc, images, closure, link, traces, offers>>

EndFiles ==
    /\ pc = "files" /\ next > Len(files)
    /\ pc' = "links" /\ next' = 1
    /\ UNCHANGED <<images, closure, payload, traces, offers>>

\* What opening payload/x finds at the end of its links.
Loops(x) == Cyclic(link, x)
End(x) == CHOOSE y \in Range(Way(link, x)) \ {NoName} : link[y] = NoName
Found(x) == IF Loops(x) THEN Nothing ELSE held[End(x)]

\* exists() follows links: what leads nowhere is not removed, and in the way.
StandingLinkInTheWay(x) == link[x] # NoName       \* mutant: any link is
InTheWay(x) == link[x] # NoName /\ Found(x) = Nothing

PlaceLink ==
    /\ pc = "links" /\ next <= Len(links)
    /\ LET l == links[next] IN
       IF l.dest = l.target
       THEN next' = next + 1 /\ UNCHANGED <<pc, payload>>
       ELSE IF InTheWay(l.dest)
       THEN pc' = "failed" /\ UNCHANGED <<next, payload>>
       ELSE /\ held' = [held EXCEPT ![l.dest] = Nothing]
            /\ link' = [link EXCEPT ![l.dest] = l.target]
            /\ next' = next + 1
            /\ UNCHANGED pc
    /\ UNCHANGED <<images, closure, traces, offers>>

EndLinks ==
    /\ pc = "links" /\ next > Len(links)
    /\ pc' = "done"
    /\ UNCHANGED <<images, closure, next, payload, traces, offers>>

Next ==
    \/ CollectHost \/ MergeImage \/ EndImages \/ EnsureAssets \/ EndAssets
    \/ CopyFile \/ CopyLink \/ EndCopies \/ Sanitize
    \/ StageFile \/ EndFiles \/ PlaceLink \/ EndLinks

Spec == Init /\ [][Next]_vars

-----------------------------------------------------------------------------
(* What the payload promises.                                              *)

\* Another input than o has something at x.
Contested(o, x) ==
    \/ \E p \in Origins \ {o} : \E r \in traces[p] : r.orig = x \/ (p # Copied /\ r.canon = x)
    \/ \E i \in DOMAIN offers : offers[i].dest = x /\ offers[i].src[1] # o

\* The paths of ELF files that merge drops: an image's, after the first.
DroppedByMerge(o, r) ==
    o # Host /\ r.canon \in Elves /\ ~r.link /\ r.orig # r.canon /\ r \notin FirstPaths(traces[o])

Served(o, r) == DigestOf[o][r.canon] # Empty => Found(r.orig) = DigestOf[o][r.canon]

\* Every path that was traced leads to the file it led to in its own root,
\* if no other input has something to say of either, and merge kept it.
PathsServed ==
    pc = "done" =>
        \A o \in Origins \ {Copied} : \A r \in traces[o] :
            Contested(o, r.orig) \/ Contested(o, r.canon) \/ DroppedByMerge(o, r) \/ Served(o, r)

\* Of files that different inputs offer for one path the payload has the
\* first, if none of them has an alias or a link there.
FirstOfferKept ==
    pc = "done" =>
        \A i \in DOMAIN offers :
            LET x == offers[i].dest IN
            \/ \E j \in 1..(i - 1) : offers[j].dest = x
            \/ \E o \in Origins : \E r \in traces[o] : r.orig = x /\ r.canon # x
            \/ Found(x) = Staged(offers[i])

\* Links of one spelling never form a loop in the payload.
LoopsNeedBothForms ==
    pc = "done" /\ (\A k, l \in Range(links) : k.form = l.form) => \A x \in Names : ~Loops(x)

\* emit finds its way blocked only by a link that two copied directories have
\* with different targets.
BlockedByCopiesOnly ==
    pc = "failed" =>
        \E k, l \in Range(links) :
            k.form = "pay" /\ l.form = "pay" /\ k.dest = l.dest /\ k.target # l.target
=============================================================================
