------------------------------- MODULE Cluster -------------------------------
(***************************************************************************)
(* The hostbootstrap CLI on one host: `build`, `cluster up`, `cluster      *)
(* down`, `cluster delete` and `run` (cli.py), dispatched on the execution *)
(* model that hostbootstrap.dhall declares for the host's substrate.       *)
(*                                                                         *)
(* The Container model is ContainerService, the unit of the HostDaemon     *)
(* model is Units; the build of the host binary and the HostBinary model's *)
(* handoff are here.  A command reads the specification once, when it      *)
(* starts; the specification, the source and .build/ may change between    *)
(* two commands.  `cluster delete` is `cluster down`, also for HostBinary, *)
(* whose handoff.delete is a command of the project like handoff.down.     *)
(***************************************************************************)
EXTENDS Naturals

CONSTANTS
    Invocation,   \* CLI processes that may be alive at once
    Definition,   \* unit definitions a daemon's spec may give
    None,         \* nothing there
    HasArtifact,  \* the host models declare a container counterpart too
    MaxEdits,     \* bound: edits of the source
    MaxRespecs,   \* bound: changes of the declared model or of the substrate
    MaxFaults,    \* bound: commands that fail for a reason of their own
    MaxCrashes    \* bound: killed invocations and reboots

Commands == {"build", "up", "run", "down"}

\* Container with service = True, with service = False, HostBinary, HostDaemon.
Model == {"service", "container", "host-binary", "host-daemon"}

ASSUME ArtifactAssumption == HasArtifact \in BOOLEAN
ASSUME RespecsAssumption == MaxRespecs \in Nat

VARIABLES
    spec,      \* the model declared for the detected substrate
    respecs,   \* how often it changed
    binary,    \* version of .build/<project>, or None
    native,    \* version that brought up the handed-off cluster, or None
    daemon,    \* version of .build/<project> that the running daemon executes, or None
    stage,     \* where each invocation is
    cmd,       \* its subcommand
    model,     \* the model it was dispatched on
    built,     \* the source version its cabal build took
    outcome,   \* how it ended
    before,    \* history: what it found when it was dispatched, while it builds
    alone,     \* history: no other command was there since it started
    \* ContainerService
    source, image, container, cpc, cop, cctx, cresult, clone, kept,
    \* Units
    system, file, enabled, loaded, active, live, upc, uop, want, uresult, ulone, overlap,
    faults, crashes

C == INSTANCE ContainerService WITH
         pc <- cpc, op <- cop, ctx <- cctx, result <- cresult, lone <- clone
U == INSTANCE Units WITH pc <- upc, op <- uop, result <- uresult, lone <- ulone

ASSUME NoneAssumption ==
    None \notin Nat \cup C!Image \cup C!Container \cup Definition

declared == <<spec, respecs>>
programs == <<binary, native, daemon>>
cli == <<stage, cmd, model, built, outcome, before, alone>>
containers == <<source, image, container, cpc, cop, cctx, cresult, clone, kept>>
units == <<system, file, enabled, loaded, active, live, upc, uop, want, uresult,
           ulone, overlap>>
bounds == <<faults, crashes>>
vars == <<declared, programs, cli, containers, units, bounds>>

\* What commands deploy, whether or not it is up at the moment.
Deployed == <<IF container = None THEN None ELSE container.src, native, file, active>>

\* What the host has to run, and what a command found when it was dispatched.
Runnable == {None, binary, daemon}
Found == [deployed |-> Deployed, runnable |-> Runnable]

TypeOK ==
    /\ spec \in Model /\ respecs \in Nat
    /\ binary \in Nat \cup {None} /\ native \in Nat \cup {None}
    /\ daemon \in Nat \cup {None} /\ (daemon # None => live # None)
    /\ stage \in [Invocation -> {"idle", "container", "compile", "artifact", "built",
                                 "handoff", "unit", "exec"}]
    /\ cmd \in [Invocation -> Commands]
    /\ model \in [Invocation -> Model]
    /\ built \in [Invocation -> Nat]
    /\ outcome \in [Invocation -> {"none", "ok", "error"}]
    /\ alone \in [Invocation -> BOOLEAN]
    /\ \A p \in Invocation :
          /\ cpc[p] # "idle" => stage[p] \in {"container", "artifact"}
          /\ upc[p] # "idle" => stage[p] = "unit"
          /\ stage[p] = "unit" => model[p] = "host-daemon"
          /\ stage[p] = "handoff" => model[p] = "host-binary" /\ cmd[p] # "run"

Init ==
    /\ C!Init /\ U!Init
    /\ spec \in Model /\ respecs = 0
    /\ binary = None /\ native = None /\ daemon = None
    /\ stage = [p \in Invocation |-> "idle"]
    /\ cmd = [p \in Invocation |-> "build"]
    /\ model = [p \in Invocation |-> spec]
    /\ built = [p \in Invocation |-> 0]
    /\ outcome = [p \in Invocation |-> "none"]
    /\ before = [p \in Invocation |-> None]
    /\ alone = [p \in Invocation |-> TRUE]

-----------------------------------------------------------------------------
(* Dispatch: cli._build, _run, _cluster_up, _cluster_down, _cluster_delete. *)

Start(p, c, s) ==
    /\ stage[p] = "idle"
    /\ stage' = [stage EXCEPT ![p] = s]
    /\ cmd' = [cmd EXCEPT ![p] = c]
    /\ model' = [model EXCEPT ![p] = spec]
    /\ built' = [built EXCEPT ![p] = source]
    /\ outcome' = [outcome EXCEPT ![p] = "none"]
    /\ before' = [before EXCEPT ![p] = IF c = "down" THEN None ELSE Found]
    /\ alone' = [q \in Invocation |-> q = p /\ \A r \in Invocation \ {p} : stage[r] = "idle"]
    /\ UNCHANGED <<declared, programs>>

Goto(p, s) ==
    /\ stage' = [stage EXCEPT ![p] = s]
    /\ before' = [before EXCEPT ![p] = IF s = "artifact" THEN @ ELSE None]
    /\ UNCHANGED <<declared, cmd, model, built, outcome, alone>>

Finish(p, how) ==
    /\ stage' = [stage EXCEPT ![p] = "idle"]
    /\ outcome' = [outcome EXCEPT ![p] = how]
    /\ before' = [before EXCEPT ![p] = None]
    /\ UNCHANGED <<declared, cmd, model, built, alone>>

StartContainer(p, c) ==
    /\ spec \in {"service", "container"}
    /\ Start(p, c, "container")
    /\ IF c = "down"
       THEN C!BeginStop(p)
       ELSE C!BeginBuild(p, IF c = "up" /\ spec = "container" THEN "build" ELSE c)
    /\ UNCHANGED <<units, crashes>>

ContainerEnds(p) ==
    /\ stage[p] = "container" /\ cpc[p] = "idle"
    /\ Finish(p, cresult[p])
    /\ UNCHANGED <<programs, containers, units, bounds>>

StartNative(p, c) ==
    /\ spec \in {"host-binary", "host-daemon"} /\ c # "down"
    /\ Start(p, c, "compile")
    /\ UNCHANGED <<containers, units, bounds>>

StartHandoffDown(p) ==
    /\ spec = "host-binary"
    /\ Start(p, "down", "handoff")
    /\ UNCHANGED <<containers, units, bounds>>

StartRemove(p) ==
    /\ spec = "host-daemon"
    /\ Start(p, "down", "unit")
    /\ U!BeginRemove(p)
    /\ UNCHANGED containers

-----------------------------------------------------------------------------
(* host_binary.build, host_daemon.build.                                   *)

\* Mutant: the handed-off cluster takes the new binary before all is built.
CompileHandingOff(p) ==
    /\ stage[p] = "compile"
    /\ binary' = built[p]
    /\ native' = IF cmd[p] = "up" /\ model[p] = "host-binary" THEN built[p] ELSE native
    /\ Goto(p, IF HasArtifact THEN "artifact" ELSE "built")
    /\ IF HasArtifact THEN C!BeginBuild(p, "build") ELSE UNCHANGED <<containers, faults>>
    /\ UNCHANGED <<daemon, units, crashes>>

Compile(p) ==
    /\ stage[p] = "compile"
    /\ binary' = built[p]
    /\ Goto(p, IF HasArtifact THEN "artifact" ELSE "built")
    /\ IF HasArtifact THEN C!BeginBuild(p, "build") ELSE UNCHANGED <<containers, faults>>
    /\ UNCHANGED <<native, daemon, units, crashes>>

CompileFails(p) ==
    /\ stage[p] = "compile"
    /\ Finish(p, "error")
    /\ UNCHANGED <<programs, containers, units, bounds>>

\* Mutant: a counterpart that does not build is passed over.
ArtifactEndsAnyway(p) ==
    /\ stage[p] = "artifact" /\ cpc[p] = "idle"
    /\ Goto(p, "built")
    /\ UNCHANGED <<programs, containers, units, bounds>>

ArtifactEnds(p) ==
    /\ stage[p] = "artifact" /\ cpc[p] = "idle"
    /\ IF cresult[p] = "ok" THEN Goto(p, "built") ELSE Finish(p, "error")
    /\ UNCHANGED <<programs, containers, units, bounds>>

\* Mutant: `run` hands the cluster off too.
BuildEndsHandingOff(p) ==
    /\ stage[p] = "built"
    /\ CASE cmd[p] = "build" -> Finish(p, "ok")
         [] model[p] = "host-binary" -> Goto(p, "handoff")
         [] cmd[p] = "run" -> Goto(p, "exec")
         [] OTHER -> Goto(p, "unit")
    /\ IF cmd[p] = "up" /\ model[p] = "host-daemon"
       THEN U!BeginEnsure(p)
       ELSE UNCHANGED <<units, bounds>>
    /\ UNCHANGED <<programs, containers>>

BuildEnds(p) ==
    /\ stage[p] = "built"
    /\ CASE cmd[p] = "build" -> Finish(p, "ok")
         [] cmd[p] = "run" -> Goto(p, "exec")
         [] cmd[p] = "up" /\ model[p] = "host-binary" -> Goto(p, "handoff")
         [] OTHER -> Goto(p, "unit")
    /\ IF cmd[p] = "up" /\ model[p] = "host-daemon"
       THEN U!BeginEnsure(p)
       ELSE UNCHANGED <<units, bounds>>
    /\ UNCHANGED <<programs, containers>>

-----------------------------------------------------------------------------
(* The end of a host model's command.                                      *)

\* The project's own command: handoff.up.
HandOffUp(p) ==
    /\ stage[p] = "handoff" /\ cmd[p] = "up" /\ binary # None
    /\ \/ native' = binary /\ Finish(p, "ok")
       \/ native' \in {native, binary} /\ Finish(p, "error")
    /\ UNCHANGED <<binary, daemon, containers, units, bounds>>

\* Mutant: without the binary there is nothing to tear down.
HandOffDownLenient(p) ==
    /\ stage[p] = "handoff" /\ cmd[p] = "down"
    /\ \/ binary # None /\ native' = None /\ Finish(p, "ok")
       \/ binary = None /\ native' = native /\ Finish(p, "ok")
       \/ native' \in {native, None} /\ Finish(p, "error")
    /\ UNCHANGED <<binary, daemon, containers, units, bounds>>

\* handoff.down, or delete: with whatever binary .build/ holds.
HandOffDown(p) ==
    /\ stage[p] = "handoff" /\ cmd[p] = "down" /\ binary # None
    /\ \/ native' = None /\ Finish(p, "ok")
       \/ native' \in {native, None} /\ Finish(p, "error")
    /\ UNCHANGED <<binary, daemon, containers, units, bounds>>

\* .build/<project> is not there: FileNotFoundError.
HandOffMissing(p) ==
    /\ stage[p] = "handoff" /\ binary = None
    /\ Finish(p, "error")
    /\ UNCHANGED <<programs, containers, units, bounds>>

Exec(p) ==
    /\ stage[p] = "exec"
    /\ \E how \in {"ok", "error"} : Finish(p, how)
    /\ UNCHANGED <<programs, containers, units, bounds>>

UnitEnds(p) ==
    /\ stage[p] = "unit" /\ upc[p] = "idle"
    /\ Finish(p, uresult[p])
    /\ UNCHANGED <<programs, containers, units, bounds>>

-----------------------------------------------------------------------------
(* The steps of the components, and what happens around the commands.      *)

ContainerStep(p) ==
    /\ C!Step(p)
    /\ UNCHANGED <<declared, programs, cli, units, crashes>>

\* A daemon executes the program it found in .build/ when it was started.
DaemonExecutes ==
    daemon' = IF live' = None THEN None
              ELSE IF live = None THEN binary ELSE daemon

UnitStep(p) ==
    /\ U!Proceed(p)
    /\ DaemonExecutes
    /\ UNCHANGED <<declared, binary, native, cli, containers>>

Kill(p) ==
    /\ stage[p] # "idle"
    /\ crashes < MaxCrashes /\ crashes' = crashes + 1
    /\ Finish(p, "error")
    /\ cpc' = [cpc EXCEPT ![p] = "idle"]
    /\ upc' = [upc EXCEPT ![p] = "idle"]
    /\ cresult' = [cresult EXCEPT ![p] = IF cpc[p] = "idle" THEN @ ELSE "error"]
    /\ uresult' = [uresult EXCEPT ![p] = IF upc[p] = "idle" THEN @ ELSE "error"]
    /\ UNCHANGED <<programs, source, image, container, cop, cctx, clone, kept,
                   system, file, enabled, loaded, active, live, uop, want, ulone, overlap,
                   faults>>

\* What the handed-off cluster does on a reboot is the project's affair.
Reboot ==
    /\ crashes < MaxCrashes /\ crashes' = crashes + 1
    /\ C!HostReboots /\ U!HostReboots
    /\ stage' = [p \in Invocation |-> "idle"]
    /\ outcome' = [p \in Invocation |-> IF stage[p] = "idle" THEN outcome[p] ELSE "error"]
    /\ before' = [p \in Invocation |-> None]
    /\ daemon' = IF live' = None THEN None ELSE binary
    /\ UNCHANGED <<declared, binary, native, cmd, model, built, alone, faults>>

\* The docker daemon and the service manager keep up what they were given.
ServiceRestarts ==
    /\ C!DockerRestart
    /\ UNCHANGED <<declared, programs, cli, units, crashes>>

\* The manager also tries again when it found no program.
DaemonRestarts ==
    /\ \/ U!ManagerRestart /\ DaemonExecutes
       \/ /\ live # None /\ daemon = None /\ binary # None
          /\ daemon' = binary
          /\ UNCHANGED <<units, bounds>>
    /\ UNCHANGED <<declared, binary, native, cli, containers>>

Exits ==
    /\ \/ C!ServiceExit /\ UNCHANGED <<daemon, units, crashes>>
       \/ U!DaemonExit /\ DaemonExecutes /\ UNCHANGED containers
    /\ UNCHANGED <<declared, binary, native, cli>>

Edit ==
    /\ C!Edit
    /\ UNCHANGED <<declared, programs, cli, units, crashes>>

\* hostbootstrap.dhall declares another model, or another substrate is detected.
Respec ==
    /\ respecs < MaxRespecs
    /\ respecs' = respecs + 1
    /\ spec' \in Model \ {spec}
    /\ UNCHANGED <<programs, cli, containers, units, bounds>>

\* .build/ is not under version control: a fresh clone, a clean.
Clean ==
    /\ binary # None
    /\ binary' = None
    /\ UNCHANGED <<declared, native, daemon, cli, containers, units, bounds>>

-----------------------------------------------------------------------------
Begin(p) ==
    \/ \E c \in Commands : StartContainer(p, c) \/ StartNative(p, c)
    \/ StartHandoffDown(p) \/ StartRemove(p)

Proceed(p) ==
    \/ ContainerStep(p) \/ ContainerEnds(p)
    \/ Compile(p) \/ CompileFails(p) \/ ArtifactEnds(p) \/ BuildEnds(p)
    \/ HandOffUp(p) \/ HandOffDown(p) \/ HandOffMissing(p) \/ Exec(p)
    \/ UnitStep(p) \/ UnitEnds(p)

Next ==
    \/ \E p \in Invocation : Begin(p) \/ Proceed(p) \/ Kill(p)
    \/ Edit \/ Respec \/ Clean
    \/ Reboot \/ Exits \/ ServiceRestarts \/ DaemonRestarts

Spec == Init /\ [][Next]_vars

\* Both supervisors honour the restart policy they were given.
FairSpec == Spec /\ WF_vars(ServiceRestarts) /\ WF_vars(DaemonRestarts)

-----------------------------------------------------------------------------
(* Properties, of commands that no other command overlapped.               *)

Done(p, c) == stage[p] = "idle" /\ cmd[p] = c /\ outcome[p] = "ok"

\* As long as the specification stays what it is, no command is refused and
\* no two overlapped on the unit, a `cluster down` that nothing overlapped and
\* that reports success leaves nothing running, until the next command:
\* whichever the model, and whatever commands overlapped, failed to build or
\* were killed before it.
DownUndoesUp ==
    faults = 0 /\ respecs = 0 /\ ~overlap =>
        \A p \in Invocation : Done(p, "down") /\ alone[p] =>
            container = None /\ native = None /\ file = None /\ live = None

\* A `cluster up` that nothing overlapped and that reports success deployed
\* what its model calls for, of the source that was there when it was
\* dispatched, in whatever state the commands before it left the host.  The
\* counterpart image of a host model is built after the binary: it is of that
\* source or, if the source was edited since, of a later one.  What the daemon
\* takes from .build/ when it is next started is the new binary; launchd has
\* started it anew, but a daemon that systemd keeps running still executes
\* what it found before.
UpDeploys ==
    \A p \in Invocation : Done(p, "up") /\ alone[p] =>
        CASE model[p] = "service" -> container # None /\ container.src = built[p]
          [] model[p] = "container" -> image # None /\ image.src = built[p]
          [] OTHER ->
               /\ HasArtifact => image # None /\ image.src \in built[p]..source
               /\ binary \in {None, built[p]}
               /\ model[p] = "host-binary" => native = built[p]
               /\ model[p] = "host-daemon" =>
                     /\ file # None /\ active = "active"
                     /\ system = "Darwin" => daemon \in {None, built[p]}

BuildFails(p) ==
    /\ C!BuildFails(p) \/ CompileFails(p) \/ (ArtifactEnds(p) /\ cresult[p] = "error")
    /\ UNCHANGED bounds

DeploysNothing(p) ==
    /\ Deployed' = before[p].deployed
    /\ \/ Runnable' \subseteq before[p].runnable
       \/ stage[p] = "artifact" /\ Runnable' \subseteq before[p].runnable \cup {built[p]}

\* A command whose build fails, and that nothing overlapped, deploys nothing:
\* container, handed-off cluster and unit are what it found.  What can run is
\* what could, but for a host binary whose counterpart failed to build: it is
\* in .build/ already, and a daemon that is started from then on executes it.
BuildFailureDeploysNothing ==
    [][\A p \in Invocation : BuildFails(p) /\ alone[p] => DeploysNothing(p)]_vars

\* After a successful `cluster up`, and until the next command of that model,
\* the service, or the daemon, is up again and again: across its own exits,
\* reboots, and commands of other models.  The daemon needs its program for
\* it, which may be cleaned away.
ServiceComesBack == C!ServiceComesBack
DaemonComesBack ==
    \A p \in Invocation :
        LET Ensured == U!Done(p, "ensure") /\ ulone[p]
        IN  [](Ensured => <>(daemon # None \/ binary = None \/ ~Ensured))

\* README.md: "A system unit is created if and only if a substrate uses the
\* HostDaemon model."
UnitIffDaemon ==
    \A p \in Invocation : Done(p, "up") => (file # None <=> model[p] = "host-daemon")
=============================================================================
