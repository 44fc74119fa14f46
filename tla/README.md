# Verification of hostbootstrap

hostbootstrap is a CLI that a developer runs on one host: it reads
`hostbootstrap.dhall`, detects the host's substrate, and builds, brings up, runs
and tears down one project under the execution model declared for that substrate.
Paths below are relative to the repository root (`hostbootstrap/...` is the
Python package).

## The system

The program keeps no state in memory from one command to the next and takes no
lock. All of its state is the host's: docker's images and containers, unit files
and what systemd or launchd have loaded, `.build/`, a cache directory. Every
command is an OS process of its own, runs a sequence of external commands with an
`await` between them, and may be killed between any two. Two commands may run at
once. That is where its hard behaviour is; almost none of it is reached by the
unit tests, which check the argument lists that are issued.

| part | state it keeps | operations | modelled by |
|---|---|---|---|
| container service (`models/container.py`, `docker_ops.py`) | the image tag, the named container | build, build_artifact, run_one_shot, start_service, stop_service | `ContainerService` |
| service units (`units.py`) | the unit file, what the manager loaded, enabled, active | ensure, remove | `Units` |
| dhall-to-json provisioning (`dhall_tool.py`) | the cache entry and `.partial` | ensure, to_json | `DhallTool` |
| process runner (`process.py`) | two pipes, two readers, the captured lines | run, run_checked | `Process` |
| specification (`spec.py`, `dhall/package.dhall`) | none | load, model_for | `SpecLoad` |
| CLI and host models (`cli.py`, `models/host_*.py`) | `.build/<project>`, the handed-off cluster | build, cluster up/down/delete, run | `Cluster` |
| substrate detection (`substrate.py`) | none | detect | `Doctor` |
| doctor (`prereqs.py`) | none | run_doctor and its checks | `Doctor` |
| base images (`base_image.py`, `cli.py` base build/push) | the base tags on every host and on Docker Hub | the version resolvers, build, push | `BaseImage` |

A command loads the specification (through `SpecLoad`'s code, which goes through
`DhallTool`'s), detects the substrate, and dispatches (`Cluster`) to a container
service, to units or to the project's own handoff command; all of these issue
their commands through `Process`'s code. Builds start FROM, or run, a base image that
`base build` made and `base push` published (`BaseImage`).

What makes each part correct:

* container service: a successful `cluster up` runs the source it began with;
  concurrent commands never leave an old container behind a newer image, nor the
  project without a container, for good; the service survives exits and reboots.
* units: what `ensure` reports is durable; the manager does not go for good by a
  definition that is not on disk, except on launchd where an overlapping down deleted
  the file; no kill leaves a daemon that cannot be stopped.
* provisioning: nothing unverified is ever run; a kill, a full disk or another
  process never leaves a broken executable in the cache for good.
* process runner: it ends, and what it returns is complete.
* specification: what is declared is what is dispatched; nothing is misread.
* CLI: down undoes up; up deploys the source it was dispatched on; a failed build
  deploys nothing, though a new binary may be in `.build/` by then; what is up comes back.
* detection and doctor: what doctor's checks are there to establish is there when it passes,
  and the commands that follow are dispatched on the substrate it looked at; a program with
  a timeout that hangs until it is killed does not stop a command for good.
* base images: the newest CUDA base is found; a tag tells the architecture; the hub
  never goes back to an older image; a push is of what was built.

## Modules

`Deployment` is the abstract specification. It has a *declared* version and a *live*
one. The live one only ever changes to nothing or to the declared one.
`ContainerService` implements it with the tag as what is declared and the named
container as what is live; `Units` with the loaded definition and the running
daemon. So no replaced version comes back by itself, and a (re)start takes
what is declared at that moment, not what its command once built or wrote.

**ContainerService.** An invocation is a program counter `pc[p]` with one value per
`await`: `building` (docker build), `rm`, `run` (start_service), `oneshot`, `stop`.
A source is a version number; `image` is what the tag names, with the source and
the command that built it; `container` is the container of the project's name.
`docker rm -f` goes through `process.run`, so `RemoveOld` goes on after a failure; `docker
run` goes through `run_checked`, so a name in use (`LaunchConflicts`) ends the command.
`LaunchFails` may leave a created container. Edits, kills, reboots, the service's
exits and docker's restarts interleave with all of it.
Two history variables say what the properties are about: `lone[p]`, no other invocation
was alive at any time since p began; `kept`, an up has launched since the last down. A model with
`service = False` only builds on `cluster up`: that is the `build` command.

**Units.** Likewise with one step per sudo command of `ensure` and `remove`, on either
system. systemd: `loaded` is what daemon-reload read; `enable --now` reloads,
enables, and starts the daemon *if it is not running*; `disable --now` needs the
file on some versions and not on others, so both outcomes are there. launchd:
bootout needs the file and a loaded service, bootstrap refuses a loaded one. There one
overlap leaves a difference for good: a down whose bootout found nothing deletes the file
after an up has bootstrapped it, and nobody is on the way to unload it
(`units.py:104-105` against `121-122`). A
definition (command line and directory) is a model value. Histories: `lone[p]` as above,
`overlap`, two invocations were ever alive at once.

**DhallTool.** Directory entries name inodes; content and mode belong to the inode. So a
process that has `.partial` open still writes to it after another process has
renamed it into place. `open("wb")` on an existing `.partial` truncates it and keeps
its mode. A download is the pinned release or something else. Bytes are `dirty` until the kernel
writes them back, and a power failure empties a file whose bytes were not: there is no
fsync. Histories: `overlapped`, and `spoiled`, set when a writer is cut off under a file
that has the entry's name or is about to get it, or the power goes before the write-back.

**Process.** The child writes to bounded pipes and blocks on a full one; it may leave a
descendant that holds them. The event loop (`Feed`) moves a pipe to a
StreamReader's buffer, with asyncio's flow control at twice its limit; a coroutine
per stream takes lines (`ReadLine`, `ReadLast`) or overruns (`Overrun`); `Gather`, then `Wait`.

**Cluster** INSTANCEs `ContainerService` and `Units` with one set of invocations and
failure bounds, adds the dispatch on the declared model, the cabal build with its
optional counterpart image, and the handoff of HostBinary. `Respec` is a change of
`hostbootstrap.dhall` or of what is detected, `Clean` the loss of `.build/`.
A command goes by the specification it read when it started; `built[p]` is the source there
was then. `daemon` is the binary that the running daemon executes: the manager takes
`.build/<project>` when it starts it, so a compile replaces what the next start runs, but not
what runs. Histories: `before`, what was deployed and what could run when a command was
dispatched, and `alone`, no other was there since. A reboot is one step of
both components; docker and the service manager go on while other commands run.

**SpecLoad.** JSON values are tagged; each narrower is an operator that gives the set of
what a value can be read as, one value or none, which makes a record with one
unreadable field unreadable. `Render` is the Dhall package's lowering (a None field
left out, as dhall-to-json does by default). The entry loop is the state machine.
Inputs are of two kinds: configs made with the package, of its types (`ConfigType`,
`PackageAssumption`), and any JSON documents, since nothing makes a project
import the package: the constant `JSON` holds them and all that they are made of, and
`JSONAssumption` says no more of it than that (`None` is no string and no record).
`MCSpecLoad` makes such documents by changing, adding or dropping one place of a rendered one.

**BaseImage.** A tag is a flavor and an architecture; the hub and every host's docker have an
image for it or none. A process that builds lists the nvidia/cuda tags page by page (`Fetch`,
`FetchLast`) while NVIDIA pushes, re-pushes and deletes tags; resolves the rest (one step: the
resolvers are independent requests of which any may fail); builds. `base push` reads the local
tag when it begins and moves the hub's when it ends. Project builds pull: `docker build --pull`
leaves the local tag alone under BuildKit and moves it under the legacy builder; `docker run`
(`host_binary.py:64-73`) pulls only what is absent when it begins. A pull is two steps: what the
hub's tag names when it begins (`BeginPull`, kept in `pulls`) moves the local tag when it ends
(`Pulled`), whatever was built meanwhile. The Dockerfile runs what it downloads for the target
architecture, and a host runs its own only (README.md: a build can only ever produce the
host-native arch), so a build for another one fails. Images are numbered in the order they
are built. Histories: `made`, what a host built last under a tag, or None when that build ended in the
middle of a pull of the tag; `raced`, two uploads, or an upload and a pull, of one tag
overlapped on one host; `goal` and `shifted` of a listing.

**Doctor.** The host is a set of facts that hold. A command begins with the specification,
for which `dhall-to-json` runs without a timeout (`Begin`, `Loaded`; it may fail). Detection follows:
markers, then whether there is an nvidia-smi, then the answer of `nvidia-smi -L` or its timeout. `doctor` goes on with its
checks in order; a check that runs a program is two steps (`Look`, then `Answers` or `Expires`),
between which, as between the checks, facts come and go. At a timeout `subprocess.run` kills
the program and *waits* for it, without a limit (`child = "late"`); what it answers then does not
count. The checks are those that there are: `metal`, and the host requirements of a Linux
entry, have none, and nothing is claimed of them. Histories: `passed`, the substrate of the
last doctor that passed; `lost`, `moved` and `cut` since it began.

`MC*` modules extend these for TLC; `*_proofs` modules hold the theorems.

## Runs

| run | what it shows | bounds, and why they are enough |
|---|---|---|
| `container_concurrent` | `StaleHasRedeployer`, `UpsKeepTheService`, `UpOkRunsItsSource`, `ImplementsDeployment` under interleaving | three invocations of any command (one to be stale, one to overtake it, one to remove between them), one edit, three failures, kills or reboots: enough for rm, run and a reboot to go wrong in one history |
| `units_concurrent` | `StaleDefinitionHasReloader`, `EnsureOkIsDurable`, `NoOrphan`, `ImplementsDeployment` | three invocations, two definitions, two failing commands and two kills or reboots, both systems: enough for the launchd exception and for every other overlap of two |
| `dhall_concurrent` | `BrokenHasWriter`, `CacheVerified`, `CacheSound`, `TripsOnlyWhenRaced` | three processes and four inodes (one entry, and one open file each), one failing write, kill or power failure |
| `process_run` | `NothingLost`, `RunEnds` | a pipe of one character, lines of at most one, five characters written: both pipes fill, a buffer passes its high-water mark, both writers block |
| `cluster` | `DownUndoesUp`, `UpDeploys`, `BuildFailureDeploysNothing`, `ServiceComesBack`, `DaemonComesBack` | one invocation at a time, any number in a row, one edit, one change of model, one failure, one kill or reboot, host models with a counterpart |
| `spec_load` | `DispatchedAsDeclared`, `NothingMisread` | all configs of up to two entries over three substrates and 17 models; every one-place change of two documents that leave nothing out, and a stray `container` anywhere in them |
| `base_image` | `FindsTheNewest`, `TagTellsArch`, `PushesTheLastBuilt`, `HubNeverGoesBack` | two processes on one amd64 host, a second one that uses the images, both builders, two builds, one pull at a time, pages of one tag, three versions (12.9, 12.10 and 13.0) and one change of the registry: a tag is pushed, re-pushed or deleted between any two pages. One pull is enough for a build to end in the middle of it. More publishers and more pulls are the theorems' |
| `doctor` | `DoctorVouches`, `DispatchedWhereDoctorLooked`, `EveryCommandEnds` | Linux and Apple hosts with every set of facts and three unsupported ones, with and without tart and ghcup, two facts that change: one can come and go within one check |

`StaleHasRedeployer`, `UpsKeepTheService`, `StaleDefinitionHasReloader`, `NoOrphan`, `TripsOnlyWhenRaced`
and `DownUndoesUp` are about histories in which no command is refused for a reason of
its own (`faults = 0`), and where the statement says so none was killed: with one,
the code makes no such promise (see below). The runs contain the failing
histories too, for the other properties.

Four runs are expected to be violated; each checks what the repository says:

* `units_ensured`: `EnsuredIsRunning`. On Linux a changed daemon command is not run by
  `cluster up` when the daemon is already running (`enable --now` is a no-op then,
  `units.py:98`), though ensure says it starts the unit. On macOS it is.
* `process_long_line`: `RunCaptures`. A line over 64 KiB makes `run` raise (`process.py:48`).
* `cluster_model_change`: `UnitIffDaemon`. The unit of a HostDaemon model outlives a change
  of the model; neither up nor down of the new model touches it (`cli.py:75-114`).
* `dhall_runnable`: `EnsureReturnsRunnable`. Of two first commands at once, one truncates the
  `.partial` that the other then renames into the cache and returns (`dhall_tool.py:124-127`),
  though ensure says it returns a path to a runnable dhall-to-json.

Further disagreements met while modelling, not given a run: README's "re-running
on a healthy host is a no-op" (`cluster up` rebuilds, removes the running container
and starts another, `container.py:113-123`); `remove` "no-op if absent" but otherwise
reports success whatever failed (`units.py:115-117`); an OSError of the cache's chmod or rename
escapes `spec.load`, which says every failure raises SpecError (`dhall_tool.py:126-127`); the
README's "`.build/` is never bind-mounted" (`host_binary.py:70` mounts the project root).
Of doctor: it installs nothing and never asks for a reboot, though its docstring, README and
`documents` speak of idempotent installation (`prereqs.py:152-197`); it ignores the specification on Linux
and `metal` everywhere, looks for ghcup only when GHC is asked for, never asks for a model
(`model_for`), and passes root without a sudo binary though `units.py` always calls sudo. Of base
images: a locally built base is not used by project builds, which pull (`container.py:60`), and the
legacy builder even replaces it, so that a following `base push` publishes the hub's old image
again; the `--build-base` of the README does not exist; a host binary, on the other hand, is built in
whatever old base image the host has (`host_binary.py:66`, no pull).

### Fairness

Safety needs none. The liveness properties assume only what supervisors and the
event loop do: docker restarts an exited container under its restart policy
(`WF(DockerRestart)`, `container.py:119`), systemd or launchd restart a daemon they keep active
(`WF(ManagerRestart)`, Restart=always and KeepAlive, `units.py:54,76`); for `RunEnds` the event loop
runs, a writer completes a write that can be done, and a command ends when it is not
blocked. `EveryCommandEnds` assumes that the process itself goes on, that its timeouts fire
(5 or 10 seconds, `prereqs.py:43-142`, `substrate.py:81`), that dhall-to-json ends, which has no
timeout (`dhall_tool.py:156-161`), and that a program ends in the end once its timeout has killed
it (a sudo, which is root's, by itself); of a program that has a timeout nothing is assumed before that. No fairness is assumed of invocations, edits or down. The children of
`run` do end: docker, systemctl, launchctl, cabal. `DaemonComesBack` and `ServiceComesBack`
allow the next command as a way out, since any command may replace or stop the service.

## Proofs

Every theorem is proved for all values of the constants, from the assumptions named
in the modules (`None` is not one of the values it stands beside; bounds are
naturals). A step of each proof is one action of the module.

| theorem | argument |
|---|---|
| `ContainerService_proofs!TypeCorrect` | inductive by itself with one conjunct: past its build, an invocation may count on the tag |
| `StaleIsRedeployed` | `StaleHasRedeployer` with type correctness: only a build of an up makes a container stale, and it then is at `rm` itself; only `RemoveOld` leaves `rm`, and it takes the container away |
| `UpsNeverLoseTheService` | strengthened by `UpsInv`, where an invocation's step tells its subcommand: while the service is to be kept only `RemoveOld` removes a container, and it goes to `run` |
| `UpOkIsCurrent` | `LoneInv` says what holds of a lone invocation at `rm`, `run` and after success, and that while it is lone nobody else is at work: the image is of `ctx[p]`, and a container, where one is owed, of the image |
| `Implements` | every action maps to Keep, Retire or Launch of `Deployment` |
| `Units_proofs!StaleIsReloaded` | with `OrphanInv` of `NeverOrphaned`: whoever writes or deletes the file is then at `clean` or `forget`, before the reload; on launchd a down that deletes the file has left nothing loaded, unless two overlapped |
| `NeverOrphaned` | `OrphanInv`: as long as nothing overlapped, the file is only deleted after disable or bootout |
| `EnsureOkLasts` | `DurableInv`: what each step of a lone ensure has achieved so far (file, definition, enabled), so that its end has all of it; exits, reboots and restarts keep it |
| `Units_proofs!Implements` | as above, for `loaded` and `live` |
| `DhallTool_proofs!CacheIsVerified` | `VerifiedInv`: what is past `verify` downloaded the pinned bytes, so no inode ever holds others |
| `BrokenIsBeingWritten` | an inode that is short has the writer that truncated it, until one is cut off under it |
| `CacheIsSound`, `NeverTrips` | `SoundInv` ties `.partial` to the step of the one process at work: there and whole after `write`, executable after `chmod` |
| `BaseImage_proofs!NewestIsFound` | `NewestInv`: each version that could be found when the listing began has been seen or is on a page to come, since new tags only push the others back; hence it is among the candidates at the last page |
| `TagsTellArch` | inductive with what an upload and a pull carry |
| `LastBuiltIsPushed` | `LastInv`: with BuildKit no pull of a tag is under way where `made` has a build of it: a docker run pulls only what is absent, and a build that a pull overlaps does not count |
| `HubGoesForward` | `HubInv`: where one host publishes a tag and nothing raced, the hub's image is not newer than that host's, nor than one being uploaded; a pull takes the hub's only where the host has none or while nobody uploads, and what it carries is what the hub still names, as no upload overlaps it (`Fresh`) |
| `Doctor_proofs!TypeCorrect` | inductive; needs that there are at least three checks and that the next one exists |
| `Vouches` | `VouchInv`: for all checks behind it doctor can vouch, and so for all of them at the end; the check of the NVIDIA runtime comes after docker's, which is what makes a docker CLI that is gone then one that was `lost` |
| `Process_proofs!TypeCorrect` | inductive; a pipe never holds more than its capacity because a write to a full one blocks |
| `OutputIsCarried`, `NothingIsLost` | `IInv`: what was written is, in order, what is captured, buffered and piped (`Carried`; the lemmas on taking the first line off a buffer carry it through `ReadLine` and `ReadLast`), and a drained stream has nobody left who could write to it or fork who could (`Drained`); at the end all but the captured part is empty |
| `Cluster_proofs!TypeCorrect` | `Control`: a component is at work only for a command at its stage, on the model it was dispatched on; for any number of invocations |
| `UpDeploysWhatIsDeclared` | `AloneInv`: while a command is alone no other is there, so every step is its own or one of what is around it (`SoloNext`); then `UpInv`: what each stage has achieved so far: the tag names the source of the build once a container command is past it (`ImageInv`), the container that is launched runs it (`ServiceInv`), the binary is of `built[p]`, or cleaned away, from the compile on (`HandoffInv`), ensure has installed its file and on launchd started the daemon on that binary (`EnsureInv`), and the build's context is of `built[p]`, or for a counterpart of that or a later source (`SourceInv`) |
| `DownUndoesWhatIsUp` | `DownInv`: as long as the model is what it was, only what it calls for is there (`DeclaredInv`), whoever runs; at most one command is on the unit (`SoloUnit`); what runs can be stopped: an active daemon has its file (`StoppableInv`, where a kill between two sudo commands matters); and what a lone down has taken away stays away (`DownDoneInv`) |
| `FailedBuildDeploysNothing` | `BeforeInv`: until its build is over, a lone command has left what is deployed as it was, and what can run is what could, with the new binary once it is compiled |
| `SpecLoad_proofs!TypeCorrect` | inductive: an entry is added for a substrate that was not declared |
| `DispatchesAsDeclared` | a lemma for each reader: it takes what the package rendered back to that value alone; then the loop invariant `LoadInv`: the first `index` entries are distinct and are what was read |
| `MisreadsNothing` | a lemma for each reader on any JSON: what it returns is said by what it read; then `SaidInv`: entries that were read are declared, and a later one never replaces them |
| `DispatchAgrees` | `DetectInv`: what was detected since doctor began is the truth of the host (`Truth`), a probe runs only where the markers do not decide, and one that was killed was `cut` (`Killed`) |

No theorem assumes that commands run one at a time: the properties themselves say what an
overlap may spoil (`lone`, `alone`, `overlap`, `overlapped`, `raced`), because nothing in the code
excludes one. Under an overlap an up may end on what a down has just taken away; the next up
that is alone puts it right. For `Cluster` this is the theorems' result: its run has one
invocation at a time, since two of them over all four models are more states than a run can visit.
Two do fit without failures, changes of model, kills and counterparts (`HasArtifact` FALSE,
`MaxRespecs`, `MaxFaults` and `MaxCrashes` 0: 2.4 million states, no error in the two invariants
and the action property).

`Cluster.NoneAssumption`, as in the components, keeps `None` apart from the values it stands beside.

Only model-checked, as out of the prover's reach: the liveness properties (fairness, ENABLED):
`RunEnds`, `ServiceComesBack`, `DaemonComesBack`, `EveryCommandEnds`. No theorem
needs an induction over data: the readers of `SpecLoad` are nested as deep as the code's narrowers are, and
the documents' lists are of any length.

## Not modelled

Unit texts, build arguments, mount paths and messages are formatting. The Dockerfile,
the CI entry points (`check_code.py`, `test_all.py`) and the project's own binary have no state
here. docker, systemd, launchd, asyncio's readers and the kernel are modelled only as
far as the code uses them, and marked external in the map. Of a power failure, the loss of
a rename is left out: it leaves what a kill before it leaves. The leak of `_sudo_install`'s
temporary file on a failing `sudo install` is harmless. A page of the tag listing that is malformed, whose list or link is of another type, is skipped or
taken for the last one by the code (`base_image.py:190-194`); the hub sends none. A `base build` whose other resolvers
read different releases than a neighbour's is allowed by the code and has no property.
`base build` with more tags or another Dockerfile (`extra_tags`, `dockerfile`, `with_base_override`) is not reachable
from the CLI.

## Plan

1. In `Cluster`, the counterpart as part of the declared model, and its dispatch composed
   with `Doctor`'s detection and `SpecLoad`'s outcome.
2. `DownUndoesUp` across a change of model: what a down is owed under the new one.
