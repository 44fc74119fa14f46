------------------------------- MODULE Doctor -------------------------------
(***************************************************************************)
(* How every command but those on base images begins, reading the          *)
(* specification (cli.py) and detecting the substrate (substrate.py), and  *)
(* `hostbootstrap doctor` (prereqs.py): a fixed sequence of checks of the  *)
(* host, of which the first that fails is reported.                        *)
(*                                                                         *)
(* The host is a set of facts.  An administrator installs, configures and  *)
(* removes things meanwhile, also between two looks of one check: most     *)
(* look for a program and then run it with a timeout.  A program may hang, *)
(* and a timeout does not end it at once: subprocess.run kills it and then *)
(* waits for it, however long that takes.                                  *)
(* Of the commands other than doctor only the dispatch is here: the        *)
(* substrate that they take their model from.                              *)
(***************************************************************************)
EXTENDS Naturals, Sequences

CONSTANTS
    Systems,     \* hosts: system and machine, with the facts that may hold there
    Specs,       \* what the Apple entry may declare of HostReqs
    None,
    MaxChanges   \* bound: facts that change

SubstrateName == {"apple-silicon", "linux-cpu", "linux-gpu"}
\* Those that doctor looks at; a declared metal, and whatever a Linux entry
\* declares, it does not.
HostReqs == {"tart", "ghcup"}
Fact == {"marker", "nvidia-smi", "gpu", "runtime", "ubuntu", "root", "sudo", "nopasswd",
         "docker", "dockerd", "xcode", "brew", "colima"} \cup HostReqs
Check == {"macos", "xcode", "sudo", "brew", "colima", "docker", "ubuntu", "nvidia"}
         \cup HostReqs
System == [name : {"Darwin", "Linux", "Windows"}, machine : {"amd64", "arm64", "riscv"},
           facts : SUBSET Fact]

ASSUME SystemsAssumption == Systems \subseteq System
ASSUME SpecsAssumption == Specs \subseteq SUBSET HostReqs
ASSUME BoundAssumption == MaxChanges \in Nat
ASSUME NoneAssumption == None \notin SubstrateName

VARIABLES
    system,    \* the host
    has,       \* the facts that hold
    changes,   \* how many changed
    spec,      \* the host requirements of the project on Apple silicon
    cmd,       \* the command that runs, or ran last
    pc,        \* where it is
    child,     \* the program it waits for: in time, or killed by a timeout
    sub,       \* the substrate it detected, or None
    at,        \* doctor's check
    passed,    \* history: the substrate of the last doctor that passed, or None
    lost,      \* history: facts that ceased to hold since it began
    moved,     \* history: a sign of a GPU came or went since it began
    cut        \* history: a probe for a GPU was cut off since it began

host == <<system, has, changes, spec>>
history == <<passed, lost, moved, cut>>
vars == <<host, cmd, pc, child, sub, at, history>>

\* The checks of _run_apple and of _run_linux, in their order.
Checks(s) ==
    IF s = "apple-silicon"
    THEN <<"macos", "xcode", "sudo", "brew", "colima", "docker">>
         \o (IF "tart" \in spec THEN <<"tart">> ELSE <<>>)
         \o (IF "ghcup" \in spec THEN <<"ghcup">> ELSE <<>>)
    ELSE <<"ubuntu", "sudo", "docker">>
         \o (IF s = "linux-gpu" THEN <<"nvidia">> ELSE <<>>)

\* What each check is there to establish, unless the process is root for sudo.
Needs(c) ==
    CASE c = "macos" -> {}
      [] c = "sudo" -> {"sudo", "nopasswd"}
      [] c = "docker" -> {"docker", "dockerd"}
      [] c = "nvidia" -> {"nvidia-smi", "docker", "dockerd", "runtime"}
      [] OTHER -> {c}

TypeOK ==
    /\ system \in Systems /\ has \subseteq system.facts /\ changes \in Nat
    /\ spec \in Specs
    /\ cmd \in {"doctor", "other"}
    /\ pc \in {"idle", "load", "detect", "probe", "look", "wait"}
    /\ child \in {"none", "running", "late"}
    /\ sub \in SubstrateName \cup {None}
    /\ at \in Nat
    /\ passed \in SubstrateName \cup {None}
    /\ lost \subseteq Fact /\ moved \in BOOLEAN /\ cut \in BOOLEAN
    /\ pc \in {"load", "probe", "wait"} <=> child # "none"
    /\ child = "late" => pc \in {"probe", "wait"}
    /\ pc \in {"look", "wait"} =>
          cmd = "doctor" /\ sub \in SubstrateName /\ at \in DOMAIN Checks(sub)

Init ==
    /\ system \in Systems /\ has \in SUBSET system.facts /\ changes = 0
    /\ spec \in Specs
    /\ cmd = "other" /\ pc = "idle" /\ child = "none" /\ sub = None /\ at = 0
    /\ passed = None /\ lost = {} /\ moved = FALSE /\ cut = FALSE

-----------------------------------------------------------------------------
\* _load_spec: dhall-to-json, which may be downloaded first, renders the
\* specification.  It is given no timeout.
Begin(c) ==
    /\ pc = "idle"
    /\ cmd' = c /\ pc' = "load" /\ child' = "running" /\ sub' = None /\ at' = 0
    /\ IF c = "doctor"
       THEN passed' = None /\ lost' = {} /\ moved' = FALSE /\ cut' = FALSE
       ELSE UNCHANGED history
    /\ UNCHANGED host

\* The specification is there, or the command fails: it is none, or
\* dhall-to-json cannot be had or run.
Loaded ==
    /\ pc = "load"
    /\ child' = "none" /\ pc' \in {"detect", "idle"}
    /\ UNCHANGED <<host, cmd, sub, at, history>>

\* The other commands now ask the specification for a model, doctor does not.
Detected(s) ==
    /\ sub' = s
    /\ IF cmd = "doctor" THEN pc' = "look" /\ at' = 1
                         ELSE pc' = "idle" /\ UNCHANGED at

Unsupported ==
    \/ system.name = "Windows"
    \/ system.name = "Darwin" /\ system.machine # "arm64"
    \/ system.machine = "riscv"

\* Mutant: nvidia-smi is asked first, if there is one.
DetectAsking ==
    /\ pc = "detect"
    /\ \/ Unsupported /\ pc' = "idle" /\ UNCHANGED <<child, sub, at>>
       \/ /\ ~Unsupported /\ system.name = "Darwin"
          /\ Detected("apple-silicon") /\ UNCHANGED child
       \/ /\ ~Unsupported /\ system.name = "Linux"
          /\ IF "nvidia-smi" \in has
             THEN pc' = "probe" /\ child' = "running" /\ UNCHANGED <<sub, at>>
             ELSE /\ Detected(IF "marker" \in has THEN "linux-gpu" ELSE "linux-cpu")
                  /\ UNCHANGED child
    /\ UNCHANGED <<host, cmd, history>>

\* detect, to the point where nvidia-smi has to be asked.
Detect ==
    /\ pc = "detect"
    /\ \/ Unsupported /\ pc' = "idle" /\ UNCHANGED <<child, sub, at>>
       \/ /\ ~Unsupported /\ system.name = "Darwin"
          /\ Detected("apple-silicon") /\ UNCHANGED child
       \/ /\ ~Unsupported /\ system.name = "Linux"
          /\ CASE "marker" \in has -> Detected("linux-gpu") /\ UNCHANGED child
               [] {"marker", "nvidia-smi"} \cap has = {} ->
                     Detected("linux-cpu") /\ UNCHANGED child
               [] OTHER -> pc' = "probe" /\ child' = "running" /\ UNCHANGED <<sub, at>>
    /\ UNCHANGED <<host, cmd, history>>

\* nvidia-smi -L ends; if it went away meanwhile it cannot be run, and once it
\* was killed what it says does not count.
ProbeAnswers ==
    /\ pc = "probe"
    /\ child' = "none"
    /\ Detected(IF child = "running" /\ {"nvidia-smi", "gpu"} \subseteq has
                THEN "linux-gpu" ELSE "linux-cpu")
    /\ UNCHANGED <<host, cmd, history>>

\* It takes more than five seconds.
ProbeExpires ==
    /\ pc = "probe" /\ child = "running"
    /\ child' = "late" /\ cut' = TRUE
    /\ UNCHANGED <<host, cmd, pc, sub, at, passed, lost, moved>>

-----------------------------------------------------------------------------
(* The checks.                                                             *)

this == Checks(sub)[at]

\* Mutant: off by one.
NextCheckPast ==
    IF at > Len(Checks(sub))
    THEN pc' = "idle" /\ passed' = sub /\ UNCHANGED at
    ELSE pc' = "look" /\ at' = at + 1 /\ UNCHANGED passed

\* The next check, or doctor has passed.
NextCheck ==
    IF at = Len(Checks(sub))
    THEN pc' = "idle" /\ passed' = sub /\ UNCHANGED at
    ELSE pc' = "look" /\ at' = at + 1 /\ UNCHANGED passed

Fails == pc' = "idle" /\ UNCHANGED <<at, passed>>

Waits == pc' = "wait" /\ UNCHANGED <<at, passed>>

\* What a check sees without running a program.
Look ==
    /\ pc = "look"
    /\ \/ /\ this \in {"macos", "brew", "colima", "ubuntu"} \cup HostReqs
          /\ IF Needs(this) \subseteq has THEN NextCheck ELSE Fails
          /\ UNCHANGED child
       \/ /\ this = "sudo" /\ "root" \in has
          /\ NextCheck /\ UNCHANGED child
       \/ /\ this = "nvidia" /\ "nvidia-smi" \in has /\ "docker" \notin has
          /\ NextCheck /\ UNCHANGED child
       \/ /\ \/ this = "sudo" /\ {"root", "sudo"} \cap has = {}
             \/ this = "docker" /\ "docker" \notin has
             \/ this = "nvidia" /\ "nvidia-smi" \notin has
          /\ Fails /\ UNCHANGED child
       \/ /\ \/ this = "xcode"
             \/ this = "sudo" /\ "root" \notin has /\ "sudo" \in has
             \/ this = "docker" /\ "docker" \in has
             \/ this = "nvidia" /\ {"nvidia-smi", "docker"} \subseteq has
          /\ Waits /\ child' = "running"
    /\ UNCHANGED <<host, cmd, sub, lost, moved, cut>>

\* Mutant: the exit status of docker info does not count.
SaysAnything(c) == c # "docker" => Needs(c) \ {"nvidia-smi"} \subseteq has

\* What xcode-select, sudo and docker have to say: docker info asks for the
\* runtimes in the check of the NVIDIA one.
Says(c) == Needs(c) \ {"nvidia-smi"} \subseteq has

Answers ==
    /\ pc = "wait"
    /\ child' = "none"
    /\ IF Says(this) /\ child = "running" THEN NextCheck ELSE Fails
    /\ UNCHANGED <<host, cmd, sub, lost, moved, cut>>

\* Mutant: no timeout for docker info.
ExpiresNotDocker ==
    /\ pc = "wait" /\ child = "running" /\ this # "docker"
    /\ child' = "late"
    /\ UNCHANGED <<host, cmd, pc, sub, at, history>>

\* A timeout kills the program and waits for it; what it says then does not
\* count.  sudo runs as root by then and cannot even be killed.
Expires ==
    /\ pc = "wait" /\ child = "running"
    /\ child' = "late"
    /\ UNCHANGED <<host, cmd, pc, sub, at, history>>

-----------------------------------------------------------------------------
\* A fact comes or goes; whether the process is root and on Ubuntu does not.
Changes(f) ==
    /\ changes < MaxChanges /\ changes' = changes + 1
    /\ has' = IF f \in has THEN has \ {f} ELSE has \cup {f}
    /\ lost' = lost \cup (has \ has')
    /\ moved' = (moved \/ f \in {"marker", "nvidia-smi", "gpu"})
    /\ UNCHANGED <<system, spec, cmd, pc, child, sub, at, passed, cut>>

Next ==
    \/ \E c \in {"doctor", "other"} : Begin(c)
    \/ Loaded \/ Detect \/ ProbeAnswers \/ ProbeExpires
    \/ Look \/ Answers \/ Expires
    \/ \E f \in system.facts \ {"root", "ubuntu"} : Changes(f)

Spec == Init /\ [][Next]_vars

\* The process runs and its timeouts fire.  dhall-to-json has to end by itself,
\* and every other program once it was killed: both are waited for without a
\* limit.
FairSpec ==
    /\ Spec
    /\ WF_vars(Loaded) /\ WF_vars(Detect) /\ WF_vars(Look)
    /\ WF_vars(ProbeExpires) /\ WF_vars(Expires)
    /\ WF_vars(child = "late" /\ (Answers \/ ProbeAnswers))

-----------------------------------------------------------------------------
(* Properties.                                                             *)

Vouched(c) ==
    \/ Needs(c) \subseteq has \cup lost
    \/ c = "sudo" /\ "root" \in has
    \/ c = "nvidia" /\ "docker" \in lost

\* When doctor has passed, what each of its checks is there to establish is
\* there, or went away since doctor began: whatever was installed or removed
\* between two looks, however the programs it ran answered and whether in time.
\* The NVIDIA runtime alone goes unchecked when the docker CLI goes away after
\* it was looked for (prereqs.py, lines 152-197).  It says nothing of what has
\* no check: metal, and the host requirements of a Linux entry.
DoctorVouches ==
    passed # None =>
        \A i \in DOMAIN Checks(passed) : Vouched(Checks(passed)[i])

\* A command is dispatched on the substrate that the last doctor looked at,
\* unless a sign of a GPU came or went since that doctor began: what it vouched
\* for is what the command is going to need.  nvidia-smi being cut off makes no
\* difference where the driver is loaded (substrate.py, lines 70-104).
DispatchedWhereDoctorLooked ==
    (passed # None /\ sub # None /\ ~moved /\ (cut => "marker" \in has)) => sub = passed

\* Every command gets past detection and doctor to its end, also when nvidia-smi,
\* sudo, docker or xcode-select hangs, if it ends once it is killed: without a
\* limit only dhall-to-json is waited for (dhall_tool.py, lines 155-162), and
\* what a timeout has killed.
EveryCommandEnds == []<>(pc = "idle")
=============================================================================
