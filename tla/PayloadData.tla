----------------------------- MODULE PayloadData -----------------------------
(***************************************************************************)
(* ensure_payload_data and mirror_data_tree of the launcher                *)
(* (sidebundle-launcher/src/main.rs), in run mode chroot: the files of the *)
(* bundle's data/ have to be reachable as payload/data/ inside the new     *)
(* root.  A launcher goes into a mount namespace of its own when it can,   *)
(* leaves payload/data alone when it has contents, else mounts data/ on it *)
(* when it may, else fills it with hard links or copies.  Launchers of one *)
(* bundle share both directories and no lock.                              *)
(*                                                                         *)
(* data/ is flat: the packager stores a file as data/<digest>.             *)
(***************************************************************************)
EXTENDS Naturals

CONSTANTS
    Launchers,   \* launches of a bundle in run mode chroot
    Files,       \* the names in data/
    NoFile       \* no file is being copied

ASSUME FilesExist == Files # {} /\ NoFile \notin Files

VARIABLES
    pc,          \* pc[l]: the next step of l
    isolated,    \* launchers in a private mount namespace
    mounted,     \* launchers whose namespace has data/ mounted on payload/data
    made,        \* payload/data exists
    mirror,      \* mirror[f]: payload/data/f, below the mount if there is one
    lost,        \* files of data/ whose contents are gone
    todo,        \* todo[l]: what l has still to mirror
    cur,         \* cur[l]: the file l is copying, or was when it broke off
    together,    \* history: two launchers were filling payload/data at once
    broken       \* history: a launcher broke off with payload/data half filled

vars == <<pc, isolated, mounted, made, mirror, lost, todo, cur, together, broken>>

Filling == {"mount", "mirror", "copy"}
Ends    == {"running", "failed", "killed"}

TypeOK ==
    /\ pc \in [Launchers -> {"isolate", "check", "enter"} \cup Filling \cup Ends]
    /\ isolated \subseteq Launchers /\ mounted \subseteq Launchers
    /\ made \in BOOLEAN
    /\ mirror \in [Files -> {"absent", "link", "partial", "copy"}]
    /\ lost \subseteq Files
    /\ todo \in [Launchers -> SUBSET Files]
    /\ cur \in [Launchers -> Files \cup {NoFile}]
    /\ together \in BOOLEAN /\ broken \in BOOLEAN

Init ==
    /\ pc = [l \in Launchers |-> "isolate"]
    /\ isolated = {} /\ mounted = {}
    /\ made = FALSE
    /\ mirror = [f \in Files |-> "absent"]
    /\ lost = {}
    /\ todo = [l \in Launchers |-> {}]
    /\ cur = [l \in Launchers |-> NoFile]
    /\ together = FALSE
    /\ broken = FALSE

-----------------------------------------------------------------------------
Goto(l, step) == pc' = [pc EXCEPT ![l] = step]

\* isolate_mount_namespace: it fails without privileges, and in a root that
\* is no mount point.  That only warrants a warning.
Isolate(l) ==
    /\ pc[l] = "isolate"
    /\ isolated' \in {isolated, isolated \cup {l}}
    /\ Goto(l, "check")
    /\ UNCHANGED <<mounted, made, mirror, lost, todo, cur, together, broken>>

\* payload/data has an entry, as l sees it.
PopulatedOnceMade(l) == made          \* mutant: its existence is enough
PopulatedNever(l) == FALSE            \* mutant: fill it every time
Populated(l) == l \in mounted \/ \E f \in Files : mirror[f] # "absent"

Check(l) ==
    /\ pc[l] = "check"
    /\ IF Populated(l)
       THEN Goto(l, "enter") /\ UNCHANGED <<made, together>>
       ELSE /\ Goto(l, "mount") /\ made' = TRUE
            /\ together' = (together \/ \E k \in Launchers : pc[k] \in Filling)
    /\ UNCHANGED <<isolated, mounted, mirror, lost, todo, cur, broken>>

\* mutant: the listing of data/ has an entry that is no file
BindMountOdd(l) ==
    /\ pc[l] = "mount"
    /\ \/ /\ mounted' = mounted \cup (IF l \in isolated THEN {l} ELSE Launchers \ isolated)
          /\ Goto(l, "enter")
          /\ UNCHANGED todo
       \/ /\ todo' = [todo EXCEPT ![l] = Files \cup {NoFile}]
          /\ Goto(l, "mirror")
          /\ UNCHANGED mounted
    /\ UNCHANGED <<isolated, made, mirror, lost, cur, together, broken>>

\* mount(MS_BIND): seen in the namespace of l, which is that of all others
\* that have none of their own, unless it is isolated; or not permitted.
BindMount(l) ==
    /\ pc[l] = "mount"
    /\ \/ /\ mounted' = mounted \cup (IF l \in isolated THEN {l} ELSE Launchers \ isolated)
          /\ Goto(l, "enter")
          /\ UNCHANGED todo
       \/ /\ todo' = [todo EXCEPT ![l] = Files]
          /\ Goto(l, "mirror")
          /\ UNCHANGED mounted
    /\ UNCHANGED <<isolated, made, mirror, lost, cur, together, broken>>

Advance(l) == Goto(l, IF todo'[l] = {} THEN "enter" ELSE "mirror")

\* fs::hard_link succeeds: there is no such file, and both are on one file
\* system.  Across the mount it never does.
LinkFile(l) ==
    /\ pc[l] = "mirror"
    /\ \E f \in todo[l] :
         /\ mirror[f] = "absent" /\ l \notin mounted
         /\ mirror' = [mirror EXCEPT ![f] = "link"]
         /\ todo' = [todo EXCEPT ![l] = @ \ {f}]
    /\ Advance(l)
    /\ UNCHANGED <<isolated, mounted, made, lost, cur, together, broken>>

\* fs::hard_link fails, for whatever reason, and fs::copy opens the two
\* files, truncating the second.  When both names mean one file there is
\* nothing left to copy.
CopyFile(l) ==
    /\ pc[l] = "mirror"
    /\ \E f \in todo[l] :
         /\ todo' = [todo EXCEPT ![l] = @ \ {f}]
         /\ IF l \in mounted \/ mirror[f] = "link"
            THEN /\ lost' = lost \cup {f}
                 /\ Advance(l)
                 /\ UNCHANGED <<mirror, cur>>
            ELSE /\ mirror' = [mirror EXCEPT ![f] = "partial"]
                 /\ cur' = [cur EXCEPT ![l] = f]
                 /\ Goto(l, "copy")
                 /\ UNCHANGED lost
    /\ UNCHANGED <<isolated, mounted, made, together, broken>>

\* The copy ends.  If another launcher opened the same file for its copy,
\* the file may be whole or may not.
EndCopy(l) ==
    LET f == cur[l]
        shared == \E k \in Launchers \ {l} : cur[k] = f
    IN
    /\ pc[l] = "copy"
    /\ \E result \in (IF f \in lost THEN {} ELSE {"copy"})
                     \cup (IF f \in lost \/ shared THEN {"partial"} ELSE {}) :
         mirror' = [mirror EXCEPT ![f] = result]
    /\ cur' = [cur EXCEPT ![l] = NoFile]
    /\ Goto(l, IF todo[l] = {} THEN "enter" ELSE "mirror")
    /\ UNCHANGED <<isolated, mounted, made, lost, todo, together, broken>>

\* chroot, chdir and execve.
Enter(l) ==
    /\ pc[l] = "enter"
    /\ Goto(l, "running")
    /\ UNCHANGED <<isolated, mounted, made, mirror, lost, todo, cur, together, broken>>

\* An error (a full disk, no permission to chroot) or a kill.
BreakOff(l) ==
    /\ pc[l] \notin Ends
    /\ \E end \in {"failed", "killed"} : Goto(l, end)
    /\ broken' = (broken \/ pc[l] = "copy" \/ (pc[l] = "mirror" /\ todo[l] # Files))
    /\ UNCHANGED <<isolated, mounted, made, mirror, lost, todo, cur, together>>

Step(l) ==
    \/ Isolate(l) \/ Check(l) \/ BindMount(l) \/ LinkFile(l) \/ CopyFile(l) \/ EndCopy(l)
    \/ Enter(l)

Next == \E l \in Launchers : Step(l) \/ BreakOff(l)

Spec == Init /\ [][Next]_vars

-----------------------------------------------------------------------------
\* The entry that l runs finds in /data/f what the packager stored.
Sees(l, f) ==
    IF l \in mounted \/ mirror[f] = "link" THEN f \notin lost ELSE mirror[f] = "copy"

\* The bundle's own data is destroyed only by launchers that fill
\* payload/data at the same time: a hard link found in place of a missing
\* file makes the copy truncate what it copies from.
LossNeedsTwo == lost # {} => together

\* Once nobody is filling payload/data, every entry that runs has its data,
\* provided that launchers filled it one at a time and none broke off half
\* way: whether each of them could mount, link or only copy.
AloneIsEnough ==
    ~together /\ ~broken /\ (\A l \in Launchers : pc[l] \notin Filling)
        => \A l \in Launchers, f \in Files : pc[l] = "running" => Sees(l, f)
=============================================================================
