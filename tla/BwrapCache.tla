----------------------------- MODULE BwrapCache -----------------------------
(***************************************************************************)
(* ensure_embedded_bwrap of the launcher (sidebundle-launcher/src/main.rs).*)
(* Launchers that start at the same time share a cache directory in the    *)
(* user's home.  Each looks for <cache>/<digest>/bwrap, takes the lock on  *)
(* .extract.lock when it is not there, looks again, writes the embedded    *)
(* bytes to .bwrap.tmp.<pid>.<digest>, makes that file executable and      *)
(* renames it.  A launcher can be killed, or fail, at any of these steps.  *)
(*                                                                         *)
(* Files are inodes: a path can come to name another file, and a writer    *)
(* keeps the file it opened.  The file that launcher l creates is inode l. *)
(* Two launchers can have the same pid: one after the other, or at the     *)
(* same time in containers that share the home directory.                  *)
(***************************************************************************)
EXTENDS Naturals

CONSTANTS
    Launchers,   \* launches of a bundle in run mode bwrap
    Pids,        \* process ids
    PidOf,       \* PidOf[l]: std::process::id() of l
    Size,        \* the writes that fs::write needs for the embedded bytes
    NoFile,      \* a path that names no file, a descriptor that is not open
    NoOne        \* the lock is free

ASSUME PidsKnown == PidOf \in [Launchers -> Pids]
ASSUME SizeIsPositive == Size \in Nat \ {0}
ASSUME NoneIsLauncher == NoFile \notin Launchers /\ NoOne \notin Launchers

VARIABLES
    pc,          \* pc[l]: the next step of l
    lock,        \* who holds the flock on .extract.lock
    dest,        \* the inode bwrap names
    tmp,         \* tmp[i]: the inode .bwrap.tmp.<i>.<digest> names
    fd,          \* fd[l]: the inode l has open for writing
    offset,      \* offset[l]: the writes l has made to it
    content,     \* content[f]: the pieces of the embedded bytes in inode f
    executable   \* inodes with mode 0755

vars == <<pc, lock, dest, tmp, fd, offset, content, executable>>

Inside  == {"recheck", "create", "write", "chmod", "rename"}   \* under the lock
Steps   == {"look", "lock", "found"} \cup Inside
Ends    == {"running", "failed", "killed"}
Bytes   == 1..Size
Files   == Launchers \cup {NoFile}

TypeOK ==
    /\ pc \in [Launchers -> Steps \cup Ends]
    /\ lock \in Launchers \cup {NoOne}
    /\ dest \in Files
    /\ tmp \in [Pids -> Files]
    /\ fd \in [Launchers -> Files]
    /\ offset \in [Launchers -> 0..Size]
    /\ content \in [Launchers -> SUBSET Bytes]
    /\ executable \subseteq Launchers

Init ==
    /\ pc = [l \in Launchers |-> "look"]
    /\ lock = NoOne
    /\ dest = NoFile
    /\ tmp = [i \in Pids |-> NoFile]
    /\ fd = [l \in Launchers |-> NoFile]
    /\ offset = [l \in Launchers |-> 0]
    /\ content = [f \in Launchers |-> {}]
    /\ executable = {}

-----------------------------------------------------------------------------
Goto(l, step) == pc' = [pc EXCEPT ![l] = step]

\* Leaving ensure_embedded_bwrap, or dying, closes lock_file and fd.
LeaveLocked(l, step) ==                  \* mutant: the lock outlives its holder
    /\ Goto(l, step)
    /\ fd' = [fd EXCEPT ![l] = NoFile]
    /\ UNCHANGED lock
Leave(l, step) ==
    /\ Goto(l, step)
    /\ lock' = IF lock = l THEN NoOne ELSE lock
    /\ fd' = [fd EXCEPT ![l] = NoFile]

\* dest.is_file(), before the lock.  Creating the directory and the lock
\* file is left out: both succeed when they exist already.
Look(l) ==
    /\ pc[l] = "look"
    /\ Goto(l, IF dest # NoFile THEN "found" ELSE "lock")
    /\ UNCHANGED <<lock, dest, tmp, fd, offset, content, executable>>

\* flock(LOCK_EX)
LockShared(l) ==                         \* mutant: LOCK_SH
    /\ pc[l] = "lock"
    /\ lock' = l
    /\ Goto(l, "recheck")
    /\ UNCHANGED <<dest, tmp, fd, offset, content, executable>>
Lock(l) ==
    /\ pc[l] = "lock" /\ lock = NoOne
    /\ lock' = l
    /\ Goto(l, "recheck")
    /\ UNCHANGED <<dest, tmp, fd, offset, content, executable>>

\* dest.is_file() again, under the lock.
RecheckSkipped(l) ==                     \* mutant: no second look
    /\ pc[l] = "recheck"
    /\ Goto(l, "create")
    /\ UNCHANGED <<lock, dest, tmp, fd, offset, content, executable>>
Recheck(l) ==
    /\ pc[l] = "recheck"
    /\ IF dest # NoFile THEN Leave(l, "found")
                        ELSE Goto(l, "create") /\ UNCHANGED <<lock, fd>>
    /\ UNCHANGED <<dest, tmp, offset, content, executable>>

\* fs::write opens tmp: O_CREAT and O_TRUNC.  A file left by an earlier
\* launcher of the same pid is emptied and keeps its mode.
Create(l) ==
    LET file == IF tmp[PidOf[l]] = NoFile THEN l ELSE tmp[PidOf[l]] IN
    /\ pc[l] = "create"
    /\ tmp' = [tmp EXCEPT ![PidOf[l]] = file]
    /\ fd' = [fd EXCEPT ![l] = file]
    /\ offset' = [offset EXCEPT ![l] = 0]
    /\ content' = [content EXCEPT ![file] = {}]
    /\ Goto(l, "write")
    /\ UNCHANGED <<lock, dest, executable>>

\* One write of fs::write; the last one closes the file.
WriteOver(l) ==                          \* mutant: one write too many
    /\ pc[l] = "write"
    /\ offset' = [offset EXCEPT ![l] = @ + 1]
    /\ content' = [content EXCEPT ![fd[l]] = @ \cup {offset[l] + 1}]
    /\ IF offset[l] = Size
       THEN Goto(l, "chmod") /\ fd' = [fd EXCEPT ![l] = NoFile]
       ELSE UNCHANGED <<pc, fd>>
    /\ UNCHANGED <<lock, dest, tmp, executable>>
Write(l) ==
    /\ pc[l] = "write"
    /\ offset' = [offset EXCEPT ![l] = @ + 1]
    /\ content' = [content EXCEPT ![fd[l]] = @ \cup {offset[l] + 1}]
    /\ IF offset[l] + 1 = Size
       THEN Goto(l, "chmod") /\ fd' = [fd EXCEPT ![l] = NoFile]
       ELSE UNCHANGED <<pc, fd>>
    /\ UNCHANGED <<lock, dest, tmp, executable>>

\* fs::set_permissions(&tmp, 0o755)
Chmod(l) ==
    /\ pc[l] = "chmod" /\ tmp[PidOf[l]] # NoFile
    /\ executable' = executable \cup {tmp[PidOf[l]]}
    /\ Goto(l, "rename")
    /\ UNCHANGED <<lock, dest, tmp, fd, offset, content>>

\* fs::rename(&tmp, &dest), and the return from the function.
RenameEarly(l) ==                        \* mutant: before the chmod
    /\ pc[l] = "chmod" /\ tmp[PidOf[l]] # NoFile
    /\ dest' = tmp[PidOf[l]]
    /\ tmp' = [tmp EXCEPT ![PidOf[l]] = NoFile]
    /\ Leave(l, "found")
    /\ UNCHANGED <<offset, content, executable>>
Rename(l) ==
    /\ pc[l] = "rename" /\ tmp[PidOf[l]] # NoFile
    /\ dest' = tmp[PidOf[l]]
    /\ tmp' = [tmp EXCEPT ![PidOf[l]] = NoFile]
    /\ Leave(l, "found")
    /\ UNCHANGED <<offset, content, executable>>

\* execve of the path found.  It fails when the file is not executable, not
\* whole, or still open for writing (ETXTBSY).
Usable == dest # NoFile /\ dest \in executable /\ content[dest] = Bytes
                        /\ \A l \in Launchers : fd[l] # dest
Exec(l) ==
    /\ pc[l] = "found"
    /\ Goto(l, IF Usable THEN "running" ELSE "failed")
    /\ UNCHANGED <<lock, dest, tmp, fd, offset, content, executable>>

\* Any `?` of the function: a full disk, no permission, no home directory.
Fail(l) ==
    /\ pc[l] \in Steps \ {"recheck", "found"}
    /\ Leave(l, "failed")
    /\ UNCHANGED <<dest, tmp, offset, content, executable>>

Kill(l) ==
    /\ pc[l] \in Steps
    /\ Leave(l, "killed")
    /\ UNCHANGED <<dest, tmp, offset, content, executable>>

Step(l) ==
    \/ Look(l) \/ Lock(l) \/ Recheck(l) \/ Create(l) \/ Write(l) \/ Chmod(l) \/ Rename(l)
    \/ Exec(l)

Next == \E l \in Launchers : Step(l) \/ Fail(l) \/ Kill(l)

Spec == Init /\ [][Next]_vars

\* The scheduler runs every launcher; flock wakes its waiters when it is
\* released, and each launcher takes it at most once.
FairSpec == Spec /\ \A l \in Launchers : WF_vars(Step(l))

-----------------------------------------------------------------------------
(* What launchers rely on.                                                 *)

\* Whatever bwrap names can be executed, at every moment, whoever was killed
\* or failed half way: whole, with its mode, and with no writer left, not
\* even one that shares the pid in the file's former name.
Intact == dest # NoFile => Usable

\* The embedded bwrap is extracted once: launchers that waited for the lock
\* while another extracted it use that file and do not replace it.
ExtractedOnce == [][dest # NoFile => dest' = dest]_vars

\* Every launcher gets through, or fails: one that is killed inside does not
\* leave the others waiting for its lock.
Served == \A l \in Launchers : <>(pc[l] \in Ends)

\* To its users the directory is a SharedTool.
Cache == INSTANCE SharedTool WITH
            usable  <- Usable,
            holders <- {l \in Launchers : pc[l] \in {"found", "running"}}
Implements == Cache!Spec
=============================================================================
