------------------------------- MODULE Units -------------------------------
(***************************************************************************)
(* The service unit of a host daemon (units.py): `cluster up` ensures it,  *)
(* `cluster down` and `cluster delete` remove it.                          *)
(*                                                                         *)
(* units.ensure and units.remove are sequences of sudo commands with an    *)
(* await between them, run by CLI processes that nothing excludes from one *)
(* another.  What those commands do is the service manager's: systemd and  *)
(* launchd are modelled from how units.py calls them.                      *)
(*                                                                         *)
(* A definition is what a unit file says: the daemon's command line and    *)
(* its working directory.                                                  *)
(***************************************************************************)
EXTENDS Naturals

CONSTANTS
    Invocation,  \* CLI processes that may be alive at once
    Definition,  \* unit definitions
    None,        \* no file, nothing loaded, no daemon
    MaxFaults,   \* bound: sudo commands that fail for a reason of their own
    MaxCrashes   \* bound: killed invocations and reboots

ASSUME NoneAssumption == None \notin Definition
ASSUME BoundsAssumption == MaxFaults \in Nat /\ MaxCrashes \in Nat

VARIABLES
    system,   \* platform.system()
    file,     \* the unit file's definition, or None
    enabled,  \* systemd only: started at boot
    loaded,   \* the definition the service manager goes by, or None
    active,   \* the manager is to keep the daemon up
    live,     \* the definition the running daemon was started from, or None
    pc,       \* next step of each invocation
    op,       \* what it does: ensure or remove
    want,     \* the definition it is to ensure
    result,   \* how it ended
    faults,   \* commands failed so far
    crashes,  \* invocations killed and reboots so far
    lone,     \* history: no other invocation was there since it began
    overlap   \* history: two invocations were there at once

manager == <<enabled, loaded, active, live>>
host == <<system, file, manager>>
bounds == <<faults, crashes>>
history == <<lone, overlap>>
vars == <<system, file, enabled, loaded, active, live,
          pc, op, want, result, faults, crashes, lone, overlap>>

Step == {"idle", "install", "clean", "reload", "enable", "bootout", "bootstrap",
         "disable", "delete", "forget"}

Maybe == Definition \cup {None}

\* ensure's steps are those of its system, and remove's too.
StepOfSystem(p) ==
    /\ pc[p] \in {"reload", "enable", "forget"} => system = "Linux"
    /\ pc[p] \in {"bootout", "bootstrap"} => system = "Darwin"

TypeOK ==
    /\ system \in {"Linux", "Darwin"}
    /\ file \in Maybe /\ loaded \in Maybe /\ live \in Maybe
    /\ enabled \in {"enabled", "disabled"} /\ active \in {"active", "inactive"}
    /\ pc \in [Invocation -> Step]
    /\ op \in [Invocation -> {"ensure", "remove"}]
    /\ want \in [Invocation -> Definition]
    /\ result \in [Invocation -> {"none", "ok", "error"}]
    /\ faults \in Nat /\ crashes \in Nat
    /\ lone \in [Invocation -> BOOLEAN] /\ overlap \in BOOLEAN
    /\ live # None => active = "active"
    /\ system = "Darwin" => (loaded # None <=> active = "active")
    /\ \A p \in Invocation : StepOfSystem(p)

Init ==
    /\ system \in {"Linux", "Darwin"}
    /\ file = None /\ loaded = None /\ live = None
    /\ enabled = "disabled" /\ active = "inactive"
    /\ pc = [p \in Invocation |-> "idle"]
    /\ op = [p \in Invocation |-> "remove"]
    /\ want \in [Invocation -> Definition]
    /\ result = [p \in Invocation |-> "none"]
    /\ faults = 0 /\ crashes = 0
    /\ lone = [p \in Invocation |-> TRUE] /\ overlap = FALSE

-----------------------------------------------------------------------------
(* Control of an invocation.                                               *)

Goto(p, step) ==
    /\ pc' = [pc EXCEPT ![p] = step]
    /\ UNCHANGED <<op, want, result, history>>

Finish(p, how) ==
    /\ pc' = [pc EXCEPT ![p] = "idle"]
    /\ result' = [result EXCEPT ![p] = how]
    /\ UNCHANGED <<op, want, history>>

Alone(p) == \A q \in Invocation \ {p} : pc[q] = "idle"

Begin(p, o, d, step) ==
    /\ pc[p] = "idle"
    /\ pc' = [pc EXCEPT ![p] = step]
    /\ op' = [op EXCEPT ![p] = o]
    /\ want' = [want EXCEPT ![p] = d]
    /\ result' = [result EXCEPT ![p] = "none"]
    /\ lone' = [q \in Invocation |-> q = p /\ Alone(p)]
    /\ overlap' = (overlap \/ ~Alone(p))
    /\ UNCHANGED <<host, bounds>>

Fault == faults < MaxFaults /\ faults' = faults + 1 /\ UNCHANGED crashes
Crash == crashes < MaxCrashes /\ crashes' = crashes + 1 /\ UNCHANGED faults

\* process.run_checked: a command that fails ends the invocation.
Abort(p) ==
    /\ pc[p] \in {"install", "clean", "reload", "enable", "bootstrap"}
    /\ Fault
    /\ Finish(p, "error")
    /\ UNCHANGED host

-----------------------------------------------------------------------------
(* units.ensure.                                                           *)

BeginEnsure(p) == \E d \in Definition : Begin(p, "ensure", d, "install")

Install(p) ==
    /\ pc[p] = "install"
    /\ file' = want[p]
    /\ Goto(p, "clean")
    /\ UNCHANGED <<system, manager, bounds>>

\* Mutant: the manager is not told of the new file.
CleanOnly(p) ==
    /\ pc[p] = "clean"
    /\ Goto(p, IF system = "Linux" THEN "enable" ELSE "bootstrap")
    /\ UNCHANGED <<host, bounds>>

\* `rm -f` of the temporary file the unit was written to.
Clean(p) ==
    /\ pc[p] = "clean"
    /\ Goto(p, IF system = "Linux" THEN "reload" ELSE "bootout")
    /\ UNCHANGED <<host, bounds>>

\* systemctl daemon-reload: every unit file is read again.
Reload(p) ==
    /\ pc[p] = "reload"
    /\ loaded' = file
    /\ Goto(p, "enable")
    /\ UNCHANGED <<system, file, enabled, active, live, bounds>>

\* Mutant: `systemctl start`, without enable.
StartOnly(p) ==
    /\ pc[p] = "enable" /\ file # None
    /\ loaded' = file
    /\ active' = "active"
    /\ live' = IF live = None THEN file ELSE live
    /\ Finish(p, "ok")
    /\ UNCHANGED <<system, file, enabled, bounds>>

\* Mutant: a running daemon keeps what it runs, a new one takes what was asked.
EnableWanted(p) ==
    /\ pc[p] = "enable" /\ file # None
    /\ enabled' = "enabled"
    /\ loaded' = file
    /\ active' = "active"
    /\ live' = IF live = None THEN want[p] ELSE live
    /\ Finish(p, "ok")
    /\ UNCHANGED <<system, file, bounds>>

\* systemctl enable --now: links the unit (which makes systemd reload) and
\* starts it, which does nothing to a daemon that is running.
EnableNow(p) ==
    /\ pc[p] = "enable" /\ file # None
    /\ enabled' = "enabled"
    /\ loaded' = file
    /\ active' = "active"
    /\ live' = IF live = None THEN file ELSE live
    /\ Finish(p, "ok")
    /\ UNCHANGED <<system, file, bounds>>

\* The file is gone, or the start fails when the unit is already linked.
EnableFails(p) ==
    /\ pc[p] = "enable"
    /\ \/ file = None /\ UNCHANGED <<manager, bounds>>
       \/ file # None /\ Fault /\ enabled' = "enabled" /\ loaded' = file
          /\ UNCHANGED <<active, live>>
    /\ Finish(p, "error")
    /\ UNCHANGED <<system, file>>

Stopped == loaded' = None /\ active' = "inactive" /\ live' = None /\ UNCHANGED enabled

\* launchctl bootout system PLIST: needs the file, to know what to unload.
\* It is issued with process.run, so its failure is ignored.
Bootout ==
    /\ \/ file # None /\ loaded # None /\ Stopped /\ UNCHANGED bounds
       \/ (file = None \/ loaded = None) /\ UNCHANGED <<manager, bounds>>
       \/ Fault /\ UNCHANGED manager
    /\ UNCHANGED <<system, file>>

BootoutOld(p) == pc[p] = "bootout" /\ Bootout /\ Goto(p, "bootstrap")

\* Mutant: a service that is loaded already counts as bootstrapped.
BootstrapTolerant(p) ==
    /\ pc[p] = "bootstrap" /\ file # None
    /\ IF loaded = None
       THEN loaded' = file /\ active' = "active" /\ live' = file
       ELSE UNCHANGED <<loaded, active, live>>
    /\ Finish(p, "ok")
    /\ UNCHANGED <<system, file, enabled, bounds>>

\* launchctl bootstrap system PLIST: loads it, and RunAtLoad starts it.
Bootstrap(p) ==
    /\ pc[p] = "bootstrap" /\ file # None /\ loaded = None
    /\ loaded' = file
    /\ active' = "active"
    /\ live' = file
    /\ Finish(p, "ok")
    /\ UNCHANGED <<system, file, enabled, bounds>>

\* The file is gone, or the service is loaded already.
BootstrapFails(p) ==
    /\ pc[p] = "bootstrap" /\ (file = None \/ loaded # None)
    /\ Finish(p, "error")
    /\ UNCHANGED <<host, bounds>>

-----------------------------------------------------------------------------
(* units.remove: no command of it is checked.                              *)

\* Mutant: the unit file goes first.
BeginRemoveDeleting(p) == Begin(p, "remove", want[p], "delete")

BeginRemove(p) == Begin(p, "remove", want[p], "disable")

\* Mutant: `disable --now --no-block`, which does not wait for the daemon to end.
DisableNoBlock(p) ==
    /\ pc[p] = "disable" /\ system = "Linux"
    /\ enabled' = "disabled" /\ loaded' = file /\ active' = "inactive"
    /\ Goto(p, "delete")
    /\ UNCHANGED <<system, file, live, bounds>>

\* systemctl disable --now: unlinks the unit and stops the daemon.  Without
\* a unit file newer versions refuse and older ones stop the daemon.
Disable(p) ==
    /\ pc[p] = "disable" /\ system = "Linux"
    /\ \/ /\ enabled' = "disabled" /\ loaded' = file /\ active' = "inactive" /\ live' = None
          /\ UNCHANGED bounds
       \/ file = None /\ UNCHANGED <<manager, bounds>>
       \/ Fault /\ enabled' \in {enabled, "disabled"} /\ UNCHANGED <<loaded, active, live>>
    /\ Goto(p, "delete")
    /\ UNCHANGED <<system, file>>

BootoutRemoved(p) ==
    pc[p] = "disable" /\ system = "Darwin" /\ Bootout /\ Goto(p, "delete")

Delete(p) ==
    /\ pc[p] = "delete"
    /\ \/ file' = None /\ UNCHANGED bounds
       \/ Fault /\ UNCHANGED file
    /\ IF system = "Linux" THEN Goto(p, "forget") ELSE Finish(p, "ok")
    /\ UNCHANGED <<system, manager>>

Forget(p) ==
    /\ pc[p] = "forget"
    /\ \/ loaded' = file /\ UNCHANGED bounds
       \/ Fault /\ UNCHANGED loaded
    /\ Finish(p, "ok")
    /\ UNCHANGED <<system, file, enabled, active, live>>

-----------------------------------------------------------------------------
(* The daemon, the service manager and the host.                           *)

DaemonExit ==
    /\ live # None
    /\ live' = None
    /\ UNCHANGED <<system, file, enabled, loaded, active, pc, op, want, result, bounds, history>>

\* Restart=always, KeepAlive: by the definition that is loaded.
ManagerRestart ==
    /\ active = "active" /\ live = None /\ loaded # None
    /\ live' = loaded
    /\ UNCHANGED <<system, file, enabled, loaded, active, pc, op, want, result, bounds, history>>

Kill(p) ==
    /\ pc[p] # "idle"
    /\ Crash
    /\ Finish(p, "error")
    /\ UNCHANGED host

StartsAtBoot == file # None /\ (system = "Linux" => enabled = "enabled")

HostReboots ==
    /\ loaded' = file
    /\ active' = IF StartsAtBoot THEN "active" ELSE "inactive"
    /\ live' = IF StartsAtBoot THEN file ELSE None
    /\ pc' = [p \in Invocation |-> "idle"]
    /\ result' = [p \in Invocation |-> IF pc[p] = "idle" THEN result[p] ELSE "error"]
    /\ UNCHANGED <<system, file, enabled, op, want, history>>

Reboot == Crash /\ HostReboots

-----------------------------------------------------------------------------
Proceed(p) ==
    \/ Abort(p) \/ Install(p) \/ Clean(p)
    \/ Reload(p) \/ EnableNow(p) \/ EnableFails(p)
    \/ BootoutOld(p) \/ Bootstrap(p) \/ BootstrapFails(p)
    \/ Disable(p) \/ BootoutRemoved(p) \/ Delete(p) \/ Forget(p)

Next ==
    \/ \E p \in Invocation : BeginEnsure(p) \/ BeginRemove(p) \/ Proceed(p) \/ Kill(p)
    \/ DaemonExit \/ ManagerRestart \/ Reboot

Spec == Init /\ [][Next]_vars

FairSpec == Spec /\ WF_vars(ManagerRestart)

-----------------------------------------------------------------------------
(* Properties.                                                             *)

Done(p, o) == pc[p] = "idle" /\ op[p] = o /\ result[p] = "ok"

\* For any number of invocations, none of which is cut short: when the unit
\* file and the definition the manager goes by differ, an invocation is on
\* its way to make them agree: to reload, to load, or to delete the file.
\* (daemon-reload, lines 97 and 117; bootout before bootstrap, lines 103-105.)
\* On launchd an overlap can leave one difference that nobody mends: a `down`
\* whose bootout found nothing deletes the file that an `up` has bootstrapped
\* in between, and what is loaded is left without a file.
StaleDefinitionHasReloader ==
    (faults = 0 /\ crashes = 0 /\ loaded # file)
    => IF system = "Linux"
       THEN \E p \in Invocation : pc[p] \in {"clean", "reload", "forget"}
       ELSE \/ \E p \in Invocation : pc[p] \in {"clean", "bootout"}
            \/ loaded = None /\ \E p \in Invocation : pc[p] \in {"bootstrap", "delete"}
            \/ file = None /\ overlap

\* Whatever overlapping, failing and killed invocations did before: an
\* `ensure` that nothing overlaps returns only if the daemon is declared as
\* asked and will be started from that declaration after its own exit and
\* after a reboot, and that stays so until the next invocation.
EnsureOkIsDurable ==
    \A p \in Invocation : Done(p, "ensure") /\ lone[p] =>
        /\ file = want[p] /\ loaded = want[p] /\ active = "active"
        /\ system = "Linux" => enabled = "enabled"
        /\ system = "Darwin" => live \in {None, want[p]}

\* Unless two invocations overlapped or a command failed, and wherever they
\* are killed or rebooted: as long as the manager would run a daemon its unit
\* file is there, and with it the means of stopping it, for disable and
\* bootout both need the file.  An `up` that overlaps a `down` does break it:
\* its enable may come between the down's disable and its rm (line 116).
NoOrphan == ~overlap /\ faults = 0 /\ active = "active" => file # None

\* After a successful ensure that nothing overlapped, and until the next
\* command, the daemon is up again and again, across its own exits and reboots.
DaemonComesBack ==
    \A p \in Invocation :
        LET Ensured == Done(p, "ensure") /\ lone[p]
        IN  [](Ensured => <>(live # None \/ ~Ensured))

\* The abstract specification: what is declared is what the manager goes by.
Deployed == INSTANCE Deployment WITH
    Version <- Definition, declared <- loaded, live <- live
ImplementsDeployment == Deployed!Spec

\* units.py, docstring of ensure: "Idempotently create and start the system
\* unit": after it the daemon that runs is the one the unit describes.
EnsuredIsRunning ==
    \A p \in Invocation : Done(p, "ensure") => live \in {None, want[p]}
=============================================================================
