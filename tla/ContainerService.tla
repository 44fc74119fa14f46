-------------------------- MODULE ContainerService --------------------------
(***************************************************************************)
(* The container model of hostbootstrap: `build`, `cluster up`, `run` and  *)
(* `cluster down` of a project whose substrate uses the Container model    *)
(* (models/container.py, dispatched by cli.py).                            *)
(*                                                                         *)
(* Every invocation of the CLI is an OS process of its own; nothing        *)
(* excludes two of them.  An invocation reads the project's source when    *)
(* `docker build` takes its context, tags the image at the end of the      *)
(* build, and for `cluster up` removes the old container and runs a new    *)
(* one: three docker commands with an await between them.                  *)
(*                                                                         *)
(* `cluster up` of a model with service = False only builds: it is the     *)
(* `build` command here.  `cluster delete` is `cluster down`.              *)
(***************************************************************************)
EXTENDS Naturals

CONSTANTS
    Invocation,  \* CLI processes that may be alive at once
    Commands,    \* the subcommands issued, a subset of Command
    None,        \* no image, no container
    MaxEdits,    \* bound: edits of the project's source
    MaxFaults    \* bound: failed docker commands, kills and reboots

Command == {"build", "up", "run", "down"}

ASSUME CommandsAssumption == Commands \subseteq Command
ASSUME BoundsAssumption == MaxEdits \in Nat /\ MaxFaults \in Nat

Image == [src : Nat, by : Command]
Container == [src : Nat, status : {"created", "running", "exited"},
              restart : BOOLEAN]

ASSUME NoneAssumption == None \notin Nat /\ None \notin Image /\ None \notin Container

VARIABLES
    source,     \* version of the project's source tree
    image,      \* what the project's tag names: its source and who built it
    container,  \* the container that has the project's name
    pc,         \* next step of each invocation
    op,         \* its subcommand
    ctx,        \* the source version its `docker build` took as context
    result,     \* how it ended
    faults,     \* failures, kills and reboots so far
    lone,       \* history: no other invocation was there since it began
    kept        \* history: an up has launched since the last down was over

host == <<source, image, container>>
vars == <<source, image, container, pc, op, ctx, result, faults, lone, kept>>

TypeOK ==
    /\ source \in Nat
    /\ image = None \/ image \in Image
    /\ container = None \/ container \in Container
    /\ pc \in [Invocation -> {"idle", "building", "rm", "run", "oneshot", "stop"}]
    /\ op \in [Invocation -> Command]
    /\ ctx \in [Invocation -> Nat]
    /\ result \in [Invocation -> {"none", "ok", "error"}]
    /\ faults \in Nat
    /\ lone \in [Invocation -> BOOLEAN] /\ kept \in BOOLEAN
    /\ \A p \in Invocation :
          /\ pc[p] \in {"rm", "run", "oneshot"} => image # None
          /\ pc[p] \in {"rm", "run"} => op[p] = "up"
          /\ pc[p] = "oneshot" => op[p] = "run"
          /\ pc[p] = "stop" => op[p] = "down"

Init ==
    /\ source = 0
    /\ image = None
    /\ container = None
    /\ pc = [p \in Invocation |-> "idle"]
    /\ op = [p \in Invocation |-> "build"]
    /\ ctx = [p \in Invocation |-> 0]
    /\ result = [p \in Invocation |-> "none"]
    /\ faults = 0
    /\ lone = [p \in Invocation |-> TRUE]
    /\ kept = FALSE

-----------------------------------------------------------------------------
(* Control of an invocation.                                               *)

Start(p, o, step) ==
    /\ pc[p] = "idle"
    /\ o \in Commands
    /\ pc' = [pc EXCEPT ![p] = step]
    /\ op' = [op EXCEPT ![p] = o]
    /\ result' = [result EXCEPT ![p] = "none"]
    /\ lone' = [q \in Invocation |-> q = p /\ \A r \in Invocation \ {p} : pc[r] = "idle"]
    /\ UNCHANGED faults

Goto(p, step) ==
    /\ pc' = [pc EXCEPT ![p] = step]
    /\ UNCHANGED <<op, ctx, result, lone>>

Finish(p, how) ==
    /\ pc' = [pc EXCEPT ![p] = "idle"]
    /\ result' = [result EXCEPT ![p] = how]
    /\ UNCHANGED <<op, ctx, lone>>

\* A docker command fails for a reason of its own (daemon unreachable, port
\* taken, disk full), or a process is killed.
Fault == faults < MaxFaults /\ faults' = faults + 1

-----------------------------------------------------------------------------
(* container.build: docker build --pull, then the tag moves.               *)

\* Mutant: the old container is removed before the build, not after it.
BeginBuildRemovingFirst(p, o) ==
    /\ Start(p, o, "building")
    /\ ctx' = [ctx EXCEPT ![p] = source]
    /\ container' = IF o = "up" THEN None ELSE container
    /\ UNCHANGED <<source, image, kept>>

BeginBuild(p, o) ==
    /\ o # "down"
    /\ Start(p, o, "building")
    /\ ctx' = [ctx EXCEPT ![p] = source]
    /\ UNCHANGED <<host, kept>>

AfterBuild(p) ==
    CASE op[p] = "up" -> Goto(p, "rm")
      [] op[p] = "run" -> Goto(p, "oneshot")
      [] OTHER -> Finish(p, "ok")

\* Mutant: the build is not tagged.
BuildUntagged(p) ==
    /\ pc[p] = "building"
    /\ AfterBuild(p)
    /\ UNCHANGED <<host, faults, kept>>

Build(p) ==
    /\ pc[p] = "building"
    /\ image' = [src |-> ctx[p], by |-> op[p]]
    /\ AfterBuild(p)
    /\ UNCHANGED <<source, container, faults, kept>>

\* A Dockerfile that does not build, or a base image that cannot be pulled.
BuildFails(p) ==
    /\ pc[p] = "building"
    /\ Finish(p, "error")
    /\ UNCHANGED <<host, faults, kept>>

-----------------------------------------------------------------------------
(* container.start_service: rm -f, then run -d --restart unless-stopped.   *)

\* Mutant: no `docker rm -f` before the new container.
RemoveOldSkipped(p) ==
    /\ pc[p] = "rm"
    /\ Goto(p, "run")
    /\ UNCHANGED <<host, faults, kept>>

\* `docker rm -f NAME` is issued with process.run: its failure is ignored.
RemoveOld(p) ==
    /\ pc[p] = "rm"
    /\ \/ container' = None /\ UNCHANGED faults
       \/ Fault /\ UNCHANGED container
    /\ Goto(p, "run")
    /\ UNCHANGED <<source, image, kept>>

\* Mutant: no --restart unless-stopped.
FreshOnce(src, status) == [src |-> src, status |-> status, restart |-> FALSE]

Fresh(src, status) == [src |-> src, status |-> status, restart |-> TRUE]

\* Mutant: the container runs what this invocation built, not what the tag names.
LaunchBuilt(p) ==
    /\ pc[p] = "run" /\ container = None
    /\ container' = Fresh(ctx[p], "running")
    /\ kept' = (\A q \in Invocation : pc[q] # "stop")
    /\ Finish(p, "ok")
    /\ UNCHANGED <<source, image, faults>>

\* Mutant: a container that has the name already is started again.
LaunchReusing(p) ==
    /\ pc[p] = "run"
    /\ container' = IF container = None
                    THEN Fresh(image.src, "running")
                    ELSE [container EXCEPT !.status = "running"]
    /\ kept' = (\A q \in Invocation : pc[q] # "stop")
    /\ Finish(p, "ok")
    /\ UNCHANGED <<source, image, faults>>

\* The tag is resolved by the docker daemon now, not when it was built.
Launch(p) ==
    /\ pc[p] = "run" /\ container = None
    /\ container' = Fresh(image.src, "running")
    /\ kept' = (\A q \in Invocation : pc[q] # "stop")
    /\ Finish(p, "ok")
    /\ UNCHANGED <<source, image, faults>>

\* The name is in use: docker refuses, run_checked raises CommandError.
LaunchConflicts(p) ==
    /\ pc[p] = "run" /\ container # None
    /\ Finish(p, "error")
    /\ UNCHANGED <<host, faults, kept>>

\* `docker run -d` fails before or after it created the container.
LaunchFails(p) ==
    /\ pc[p] = "run" /\ container = None
    /\ Fault
    /\ container' \in {None, Fresh(image.src, "created")}
    /\ Finish(p, "error")
    /\ UNCHANGED <<source, image, kept>>

-----------------------------------------------------------------------------
(* container.run_one_shot and container.stop_service.                      *)

\* `docker run --rm TAG ...`: an unnamed container that is gone when it ends.
OneShot(p) ==
    /\ pc[p] = "oneshot"
    /\ \E how \in {"ok", "error"} : Finish(p, how)
    /\ UNCHANGED <<host, faults, kept>>

BeginStop(p) ==
    /\ Start(p, "down", "stop")
    /\ kept' = FALSE
    /\ UNCHANGED <<host, ctx>>

\* The result of `docker rm -f` is returned by stop_service and dropped by
\* _cluster_down: the command reports success whatever happened.
Stop(p) ==
    /\ pc[p] = "stop"
    /\ \/ container' = None /\ UNCHANGED faults
       \/ Fault /\ UNCHANGED container
    /\ Finish(p, "ok")
    /\ UNCHANGED <<source, image, kept>>

-----------------------------------------------------------------------------
(* The developer, the docker daemon and the host.                          *)

Edit ==
    /\ source < MaxEdits
    /\ source' = source + 1
    /\ UNCHANGED <<image, container, pc, op, ctx, result, faults, lone, kept>>

Kill(p) ==
    /\ pc[p] # "idle"
    /\ Fault
    /\ Finish(p, "error")
    /\ UNCHANGED <<host, kept>>

Running == container # None /\ container.status = "running"

ServiceExit ==
    /\ Running
    /\ container' = [container EXCEPT !.status = "exited"]
    /\ UNCHANGED <<source, image, pc, op, ctx, result, faults, lone, kept>>

DockerRestart ==
    /\ container # None /\ container.status = "exited" /\ container.restart
    /\ container' = [container EXCEPT !.status = "running"]
    /\ UNCHANGED <<source, image, pc, op, ctx, result, faults, lone, kept>>

\* The host goes down: the container's process and every invocation end.
HostReboots ==
    /\ container' = IF Running
                    THEN [container EXCEPT !.status = "exited"]
                    ELSE container
    /\ pc' = [p \in Invocation |-> "idle"]
    /\ result' = [p \in Invocation |-> IF pc[p] = "idle" THEN result[p] ELSE "error"]
    /\ UNCHANGED <<source, image, op, ctx, lone, kept>>

Reboot == Fault /\ HostReboots

-----------------------------------------------------------------------------
Step(p) ==
    \/ Build(p) \/ BuildFails(p)
    \/ RemoveOld(p) \/ Launch(p) \/ LaunchConflicts(p) \/ LaunchFails(p)
    \/ OneShot(p) \/ Stop(p)

Begin(p) == (\E o \in Command : BeginBuild(p, o)) \/ BeginStop(p)

Next ==
    \/ \E p \in Invocation : Begin(p) \/ Step(p) \/ Kill(p)
    \/ Edit \/ ServiceExit \/ DockerRestart \/ Reboot

Spec == Init /\ [][Next]_vars

\* The docker daemon honours the restart policy of the container it keeps.
FairSpec == Spec /\ WF_vars(DockerRestart)

-----------------------------------------------------------------------------
(* Properties.                                                             *)

UpOk(p) == pc[p] = "idle" /\ op[p] = "up" /\ result[p] = "ok"

\* When `cluster up` was the last command to move the tag and the container
\* still runs an older image, some `cluster up` is about to replace it: no
\* interleaving of commands leaves the service behind the image for good.
\* (start_service, lines 113-123, for any number of invocations.)
StaleHasRedeployer ==
    (/\ faults = 0
     /\ container # None
     /\ image.by = "up"
     /\ container.src # image.src)
    => (\E p \in Invocation : pc[p] = "rm")

\* Once a `cluster up` has launched the service and as long as no `cluster
\* down` comes, further commands, concurrent or failing to build, never leave
\* the project without its container, unless a `cluster up` is between its
\* `docker rm` and its `docker run`: of racing ups the last `rm` is followed
\* by a `run` that finds the name free or taken by a newer service.
UpsKeepTheService ==
    (faults = 0 /\ kept /\ container = None)
    => (\E q \in Invocation : pc[q] = "run")

\* A `cluster up` that no other command overlapped reports success only if
\* the container runs the source that was there when it began, under the
\* restart policy, until the next command: in whatever state overlapping,
\* failed and killed commands before it left the host.
UpOkRunsItsSource ==
    \A p \in Invocation : UpOk(p) /\ lone[p] =>
        container # None /\ container.src = ctx[p] /\ container.restart

\* After a successful `cluster up`, and until the next command, the service
\* runs again and again, across its own exits and the host's reboots
\* (--restart unless-stopped, line 119).
ServiceComesBack ==
    \A p \in Invocation :
        [](UpOk(p) /\ lone[p] => <>(Running \/ ~UpOk(p) \/ ~lone[p]))

\* The abstract specification: the tag is what is declared, the container
\* that has the project's name is what is deployed.
Deployed == INSTANCE Deployment WITH
    Version <- Nat,
    declared <- IF image = None THEN None ELSE image.src,
    live <- IF container = None THEN None ELSE container.src
ImplementsDeployment == Deployed!Spec
=============================================================================
