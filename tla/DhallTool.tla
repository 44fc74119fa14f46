----------------------------- MODULE DhallTool -----------------------------
(***************************************************************************)
(* Provisioning and running dhall-to-json (dhall_tool.py).  Every command  *)
(* that reads hostbootstrap.dhall goes through to_json: find the           *)
(* executable on PATH or in the cache, else download the pinned release,   *)
(* verify it, write it to `dhall-to-json.partial` and rename it over the   *)
(* cache entry, then run it.                                               *)
(*                                                                         *)
(* Processes share the cache directory and the one .partial name.  A       *)
(* directory entry names an inode; what is in the file, and its mode,      *)
(* belong to the inode, so a process that has it open keeps writing to it  *)
(* after the entry was renamed.  Bytes reach the disk when the kernel      *)
(* writes them back: nothing here waits for it.                            *)
(***************************************************************************)
EXTENDS Naturals

CONSTANTS
    Process,     \* CLI processes that may be alive at once
    Inode,       \* files of the cache directory
    None,        \* no entry, no open file
    MaxFaults    \* bound: failed writes, killed processes, power failures

ASSUME NoneAssumption == None \notin Inode
ASSUME BoundsAssumption == MaxFaults \in Nat

VARIABLES
    released,   \* the platform has a pinned release (_ASSETS)
    target,     \* inode of the cache entry dhall-to-json, or None
    partial,    \* inode of dhall-to-json.partial, or None
    data,       \* what each inode holds
    exec,       \* mode 0755
    pc,         \* next step of each process
    payload,    \* what it downloaded
    fd,         \* the inode it has open for writing, or None
    result,     \* how to_json ended
    faults,     \* failed writes, kills and power failures so far
    dirty,      \* inodes whose bytes are not on the disk yet
    overlapped, \* history: two processes were at work at once
    spoiled     \* history: a failure left a short file where it will be served

entries == <<target, partial>>
files == <<data, exec>>
history == <<overlapped, spoiled>>
vars == <<released, target, partial, data, exec, pc, payload, fd, result, faults,
          dirty, overlapped, spoiled>>

Entry == Inode \cup {None}

TypeOK ==
    /\ released \in BOOLEAN
    /\ target \in Entry /\ partial \in Entry
    /\ data \in [Inode -> {"short", "pinned", "other"}]
    /\ exec \in [Inode -> BOOLEAN]
    /\ pc \in [Process -> {"idle", "check", "download", "verify", "open", "write",
                           "chmod", "replace", "exec"}]
    /\ payload \in [Process -> {"pinned", "other"}]
    /\ fd \in [Process -> Entry]
    /\ result \in [Process -> {"none", "ok", "DhallToolError", "OSError"}]
    /\ faults \in Nat
    /\ dirty \subseteq Inode /\ overlapped \in BOOLEAN /\ spoiled \in BOOLEAN
    /\ target # None => target # partial
    /\ \A p \in Process : (fd[p] # None) <=> (pc[p] = "write")

Init ==
    /\ released \in BOOLEAN
    /\ target = None /\ partial = None
    /\ data = [i \in Inode |-> "short"]
    /\ exec = [i \in Inode |-> FALSE]
    /\ pc = [p \in Process |-> "idle"]
    /\ payload = [p \in Process |-> "other"]
    /\ fd = [p \in Process |-> None]
    /\ result = [p \in Process |-> "none"]
    /\ faults = 0
    /\ dirty = {} /\ overlapped = FALSE /\ spoiled = FALSE

Fault == faults < MaxFaults /\ faults' = faults + 1

Goto(p, step) == pc' = [pc EXCEPT ![p] = step] /\ UNCHANGED result

Finish(p, how) ==
    /\ pc' = [pc EXCEPT ![p] = "idle"]
    /\ result' = [result EXCEPT ![p] = how]

-----------------------------------------------------------------------------
(* ensure: PATH, then the cache, then a download.                          *)

\* shutil.which finds a dhall-to-json on PATH: it is run, the cache unused.
RunFromPath(p) ==
    /\ pc[p] = "idle"
    /\ \E how \in {"ok", "DhallToolError"} : Finish(p, how)
    /\ UNCHANGED <<released, entries, files, payload, fd, faults, dirty, history>>

Begin(p) ==
    /\ pc[p] = "idle"
    /\ pc' = [pc EXCEPT ![p] = "check"]
    /\ result' = [result EXCEPT ![p] = "none"]
    /\ overlapped' = (overlapped \/ \E q \in Process \ {p} : pc[q] # "idle")
    /\ UNCHANGED <<released, entries, files, payload, fd, faults, dirty, spoiled>>

Cached == target # None /\ exec[target]

CheckCache(p) ==
    /\ pc[p] = "check"
    /\ CASE Cached -> Goto(p, "exec")
         [] ~Cached /\ released -> Goto(p, "download")
         [] OTHER -> Finish(p, "DhallToolError")
    /\ UNCHANGED <<released, entries, files, payload, fd, faults, dirty, history>>

\* httpx.get: the pinned release or something else.
Download(p) ==
    /\ pc[p] = "download"
    /\ payload' \in {[payload EXCEPT ![p] = c] : c \in {"pinned", "other"}}
    /\ Goto(p, "verify")
    /\ UNCHANGED <<released, entries, files, fd, faults, dirty, history>>

DownloadFails(p) ==
    /\ pc[p] = "download"
    /\ Finish(p, "DhallToolError")
    /\ UNCHANGED <<released, entries, files, payload, fd, faults, dirty, history>>

\* Mutant: the digest is not compared.
Unpack(p) ==
    /\ pc[p] = "verify"
    /\ Goto(p, "open")
    /\ UNCHANGED <<released, entries, files, payload, fd, faults, dirty, history>>

\* The digest, and then the archive's bin/dhall-to-json.
Verify(p) ==
    /\ pc[p] = "verify"
    /\ IF payload[p] = "pinned" THEN Goto(p, "open") ELSE Finish(p, "DhallToolError")
    /\ UNCHANGED <<released, entries, files, payload, fd, faults, dirty, history>>

-----------------------------------------------------------------------------
(* write_bytes, chmod and replace, all by name.                            *)

Free(i) == i \notin {target, partial} /\ \A q \in Process : fd[q] # i

\* open(.partial, "wb"): a new file, or the one there is, emptied, mode kept.
Open(p) ==
    /\ pc[p] = "open"
    /\ \E i \in Inode :
          /\ IF partial = None THEN Free(i) ELSE i = partial
          /\ partial' = i
          /\ data' = [data EXCEPT ![i] = "short"]
          /\ exec' = IF partial = None THEN [exec EXCEPT ![i] = FALSE] ELSE exec
          /\ fd' = [fd EXCEPT ![p] = i]
    /\ Goto(p, "write")
    /\ UNCHANGED <<released, target, payload, faults, dirty, history>>

\* Mutant: a write that comes up short goes unnoticed.
WriteUnchecked(p) ==
    /\ pc[p] = "write"
    /\ \/ data' = [data EXCEPT ![fd[p]] = payload[p]] /\ UNCHANGED faults
       \/ Fault /\ UNCHANGED data
    /\ fd' = [fd EXCEPT ![p] = None]
    /\ Goto(p, "chmod")
    /\ dirty' = dirty \cup {fd[p]}
    /\ UNCHANGED <<released, entries, exec, payload, history>>

\* Mutant: the file is opened for appending.
WriteAppending(p) ==
    /\ pc[p] = "write"
    /\ data' = [data EXCEPT ![fd[p]] = IF @ = "short" THEN payload[p] ELSE "other"]
    /\ fd' = [fd EXCEPT ![p] = None]
    /\ Goto(p, "chmod")
    /\ dirty' = dirty \cup {fd[p]}
    /\ UNCHANGED <<released, entries, exec, payload, faults, history>>

Write(p) ==
    /\ pc[p] = "write"
    /\ data' = [data EXCEPT ![fd[p]] = payload[p]]
    /\ fd' = [fd EXCEPT ![p] = None]
    /\ Goto(p, "chmod")
    /\ dirty' = dirty \cup {fd[p]}
    /\ UNCHANGED <<released, entries, exec, payload, faults, history>>

\* p lets go of a file it did not complete: one that has the cache entry's
\* name, or will have it when a process that is past its own open renames it.
Abandon(p) ==
    /\ fd' = [fd EXCEPT ![p] = None]
    /\ spoiled' = (\/ spoiled
                   \/ /\ fd[p] # None
                      /\ \/ fd[p] = target
                         \/ \E q \in Process \ {p} : pc[q] \in {"write", "chmod", "replace"})

\* The disk is full: OSError, the file stays short.
WriteFails(p) ==
    /\ pc[p] = "write"
    /\ Fault
    /\ Abandon(p)
    /\ Finish(p, "OSError")
    /\ UNCHANGED <<released, entries, files, payload, dirty, overlapped>>

\* Mutant: the cache entry's mode is set, before there is one.
ChmodTarget(p) ==
    /\ pc[p] = "chmod"
    /\ IF target = None
       THEN Finish(p, "OSError") /\ UNCHANGED exec
       ELSE exec' = [exec EXCEPT ![target] = TRUE] /\ Goto(p, "replace")
    /\ UNCHANGED <<released, entries, data, payload, fd, faults, dirty, history>>

Chmod(p) ==
    /\ pc[p] = "chmod"
    /\ IF partial = None
       THEN Finish(p, "OSError") /\ UNCHANGED exec
       ELSE exec' = [exec EXCEPT ![partial] = TRUE] /\ Goto(p, "replace")
    /\ UNCHANGED <<released, entries, data, payload, fd, faults, dirty, history>>

\* Mutant: a hard link, not a rename.
ReplaceLinking(p) ==
    /\ pc[p] = "replace" /\ partial # None
    /\ target' = partial
    /\ Goto(p, "exec")
    /\ UNCHANGED <<released, partial, files, payload, fd, faults, dirty, history>>

Replace(p) ==
    /\ pc[p] = "replace"
    /\ IF partial = None
       THEN Finish(p, "OSError") /\ UNCHANGED entries
       ELSE target' = partial /\ partial' = None /\ Goto(p, "exec")
    /\ UNCHANGED <<released, files, payload, fd, faults, dirty, history>>

-----------------------------------------------------------------------------
(* to_json: subprocess.run([target, "--file", path]).                      *)

Runnable == Cached /\ data[target] = "pinned" /\ \A q \in Process : fd[q] # target

\* The text renders, or it does not type-check.
Exec(p) ==
    /\ pc[p] = "exec" /\ Runnable
    /\ \E how \in {"ok", "DhallToolError"} : Finish(p, how)
    /\ UNCHANGED <<released, entries, files, payload, fd, faults, dirty, history>>

\* The kernel refuses a short, busy or non-executable file; a short one it
\* does start dies of it.  Either way DhallToolError.
ExecFails(p) ==
    /\ pc[p] = "exec" /\ ~Runnable
    /\ Finish(p, "DhallToolError")
    /\ UNCHANGED <<released, entries, files, payload, fd, faults, dirty, history>>

Kill(p) ==
    /\ pc[p] # "idle"
    /\ Fault
    /\ pc' = [pc EXCEPT ![p] = "idle"]
    /\ Abandon(p)
    /\ result' = [result EXCEPT ![p] = "none"]
    /\ UNCHANGED <<released, entries, files, payload, dirty, overlapped>>

-----------------------------------------------------------------------------
(* The kernel and the host.                                                *)

WriteBack(i) ==
    /\ i \in dirty
    /\ dirty' = dirty \ {i}
    /\ UNCHANGED <<released, entries, files, pc, payload, fd, result, faults, history>>

\* The names and modes survive, the bytes that were not written back do not.
\* (A rename that is lost too leaves what a kill before it leaves.)
PowerFailure ==
    /\ Fault
    /\ data' = [i \in Inode |-> IF i \in dirty THEN "short" ELSE data[i]]
    /\ dirty' = {}
    /\ pc' = [p \in Process |-> "idle"]
    /\ fd' = [p \in Process |-> None]
    /\ result' = [p \in Process |-> IF pc[p] = "idle" THEN result[p] ELSE "none"]
    /\ spoiled' = (spoiled \/ (target # None /\ data'[target] # "pinned"))
    /\ UNCHANGED <<released, entries, exec, payload, overlapped>>

-----------------------------------------------------------------------------
Step(p) ==
    \/ RunFromPath(p) \/ Begin(p) \/ CheckCache(p)
    \/ Download(p) \/ DownloadFails(p) \/ Verify(p)
    \/ Open(p) \/ Write(p) \/ WriteFails(p) \/ Chmod(p) \/ Replace(p)
    \/ Exec(p) \/ ExecFails(p) \/ Kill(p)

Next ==
    \/ \E p \in Process : Step(p)
    \/ (\E i \in Inode : WriteBack(i)) \/ PowerFailure

Spec == Init /\ [][Next]_vars

-----------------------------------------------------------------------------
(* Properties.                                                             *)

\* Whatever processes race, fail or die, and whenever the power goes: the
\* cache entry never holds bytes that were not checked against the pinned
\* digest, not even for a moment.
CacheVerified == target # None => data[target] # "other"

\* For any number of processes: an entry that is not whole has a writer that
\* is about to complete it, so no schedule leaves the cache broken for good.
\* Only a writer that fails after its file took the entry's name (or while
\* another process is about to give it that name) and a power failure before
\* the write-back (lines 125-127, no fsync) can.
BrokenHasWriter ==
    (~spoiled /\ target # None /\ data[target] # "pinned")
    => \E p \in Process : fd[p] = target

\* Processes that do not overlap, killed or out of disk at any step: the
\* entry that ensure would return is whole and executable (partial file, then
\* rename).
CacheSound ==
    (~overlapped /\ ~spoiled /\ target # None) => exec[target] /\ data[target] = "pinned"

\* to_json fails with an OSError, that no caller expects, only if the disk
\* does or if another process renamed .partial away between this one's steps.
TripsOnlyWhenRaced ==
    (~overlapped /\ faults = 0) => \A p \in Process : result[p] # "OSError"

\* dhall_tool.py, docstring of ensure: "Return a path to a runnable
\* dhall-to-json".
EnsureReturnsRunnable == \A p \in Process : pc[p] = "exec" => Runnable
=============================================================================
