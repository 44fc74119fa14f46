--------------------------- MODULE Cluster_proofs ---------------------------
(***************************************************************************)
(* What holds of Cluster for any number of invocations, edits, changes of  *)
(* the specification, faults, crashes and unit definitions: its types, and *)
(* what a command that no other overlaps leaves, whatever overlapping ones *)
(* left it.                                                                *)
(***************************************************************************)
EXTENDS Cluster, TLAPS

\* Models whose commands run a program built for the host.
HostModel == {"host-binary", "host-daemon"}

-----------------------------------------------------------------------------
(* The types of the two components.                                        *)

\* A step of the container commands keeps their types.
LEMMA ContainerTypeStep ==
    ASSUME C!TypeOK, NEW p \in Invocation, C!Step(p)
    PROVE  C!TypeOK'
<1> USE DEF C!TypeOK, C!Command, C!Image, C!Container, C!host
<1>1. CASE C!Build(p)
  <2>1. image' = [src |-> cctx[p], by |-> cop[p]] /\ image' \in C!Image /\ image' # None
    BY <1>1, NoneAssumption DEF C!Build
  <2> QED BY <1>1, <2>1 DEF C!Build, C!AfterBuild, C!Goto, C!Finish
<1>2. CASE C!BuildFails(p)
  BY <1>2 DEF C!BuildFails, C!Finish
<1>3. CASE C!RemoveOld(p)
  BY <1>3 DEF C!RemoveOld, C!Goto, C!Fault
<1>4. CASE C!Launch(p)
  <2>1. C!Fresh(image.src, "running") \in C!Container
    BY <1>4 DEF C!Launch, C!Fresh
  <2> QED BY <1>4, <2>1 DEF C!Launch, C!Finish
<1>5. CASE C!LaunchConflicts(p)
  BY <1>5 DEF C!LaunchConflicts, C!Finish
<1>6. CASE C!LaunchFails(p)
  <2>1. C!Fresh(image.src, "created") \in C!Container
    BY <1>6 DEF C!LaunchFails, C!Fresh
  <2> QED BY <1>6, <2>1 DEF C!LaunchFails, C!Finish, C!Fault
<1>7. CASE C!OneShot(p)
  BY <1>7 DEF C!OneShot, C!Finish
<1>8. CASE C!Stop(p)
  BY <1>8 DEF C!Stop, C!Finish, C!Fault
<1> QED BY <1>1, <1>2, <1>3, <1>4, <1>5, <1>6, <1>7, <1>8 DEF C!Step

\* A command of the container model begins.
LEMMA ContainerTypeBegin ==
    ASSUME C!TypeOK, NEW p \in Invocation, NEW c \in C!Command,
           C!BeginBuild(p, c) \/ C!BeginStop(p)
    PROVE  C!TypeOK'
<1> USE DEF C!TypeOK, C!Command, C!Image, C!Container, C!host
<1>1. CASE C!BeginBuild(p, c)
  BY <1>1 DEF C!BeginBuild, C!Start
<1>2. CASE C!BeginStop(p)
  BY <1>2 DEF C!BeginStop, C!Start
<1> QED BY <1>1, <1>2

\* A step of the unit's commands keeps their types.
LEMMA UnitTypeStep ==
    ASSUME U!TypeOK, NEW p \in Invocation, U!Proceed(p)
    PROVE  U!TypeOK'
<1> USE NoneAssumption
    DEF U!TypeOK, U!StepOfSystem, U!Maybe, U!Step, U!host, U!manager, U!bounds, U!history,
        U!Goto, U!Finish, U!Fault
<1>1. CASE U!Abort(p) \/ U!Install(p) \/ U!Clean(p)
  BY <1>1 DEF U!Abort, U!Install, U!Clean
<1>2. CASE U!Reload(p)
  BY <1>2 DEF U!Reload
<1>3. CASE U!EnableNow(p)
  BY <1>3 DEF U!EnableNow
<1>4. CASE U!EnableFails(p)
  BY <1>4 DEF U!EnableFails
<1>5. CASE U!BootoutOld(p)
  BY <1>5 DEF U!BootoutOld, U!Bootout, U!Stopped
<1>6. CASE U!Bootstrap(p) \/ U!BootstrapFails(p)
  BY <1>6 DEF U!Bootstrap, U!BootstrapFails
<1>7. CASE U!Disable(p)
  BY <1>7 DEF U!Disable
<1>8. CASE U!BootoutRemoved(p)
  BY <1>8 DEF U!BootoutRemoved, U!Bootout, U!Stopped
<1>9. CASE U!Delete(p)
  BY <1>9 DEF U!Delete
<1>10. CASE U!Forget(p)
  BY <1>10 DEF U!Forget
<1> QED BY <1>1, <1>2, <1>3, <1>4, <1>5, <1>6, <1>7, <1>8, <1>9, <1>10 DEF U!Proceed

\* A command on the unit begins.
LEMMA UnitTypeBegin ==
    ASSUME U!TypeOK, NEW p \in Invocation, U!BeginEnsure(p) \/ U!BeginRemove(p)
    PROVE  U!TypeOK'
<1> USE DEF U!TypeOK, U!StepOfSystem, U!Maybe, U!Step, U!host, U!manager, U!bounds
<1>1. CASE U!BeginEnsure(p)
  BY <1>1 DEF U!BeginEnsure, U!Begin
<1>2. CASE U!BeginRemove(p)
  BY <1>2 DEF U!BeginRemove, U!Begin
<1> QED BY <1>1, <1>2

\* Steps that leave the containers, or the unit, to themselves.
LEMMA ContainerTypeFrame ==
    C!TypeOK /\ UNCHANGED containers /\ faults' \in Nat => C!TypeOK'
  BY DEF C!TypeOK, containers

LEMMA UnitTypeFrame ==
    U!TypeOK /\ UNCHANGED units /\ faults' \in Nat /\ crashes' \in Nat => U!TypeOK'
  BY DEF U!TypeOK, U!StepOfSystem, units

LEMMA ComponentTypesStep ==
    C!TypeOK /\ U!TypeOK /\ [Next]_vars => C!TypeOK' /\ U!TypeOK'
<1> SUFFICES ASSUME C!TypeOK, U!TypeOK, [Next]_vars PROVE C!TypeOK' /\ U!TypeOK'
  OBVIOUS
<1>1. faults \in Nat /\ crashes \in Nat
  BY DEF U!TypeOK
<1>2. CASE UNCHANGED <<containers, units, bounds>>
  BY <1>1, <1>2, ContainerTypeFrame, UnitTypeFrame DEF bounds
<1>3. ASSUME C!TypeOK', UNCHANGED <<units, crashes>> PROVE C!TypeOK' /\ U!TypeOK'
  <2>1. faults' \in Nat
    BY <1>3 DEF C!TypeOK
  <2> QED BY <1>1, <1>3, <2>1, UnitTypeFrame
<1>4. ASSUME U!TypeOK', UNCHANGED containers PROVE C!TypeOK' /\ U!TypeOK'
  <2>1. faults' \in Nat
    BY <1>4 DEF U!TypeOK
  <2> QED BY <1>4, <2>1, ContainerTypeFrame
<1>5. ASSUME NEW p \in Invocation, NEW c \in Commands, StartContainer(p, c)
      PROVE  C!TypeOK' /\ U!TypeOK'
  <2>1. C!BeginStop(p) \/ \E o \in C!Command : C!BeginBuild(p, o)
    BY <1>5 DEF StartContainer, Commands, C!Command
  <2> QED BY <1>3, <1>5, <2>1, ContainerTypeBegin DEF StartContainer, Commands, C!Command
<1>6. ASSUME NEW p \in Invocation, Compile(p) PROVE C!TypeOK' /\ U!TypeOK'
  <2>1. CASE HasArtifact
    BY <1>3, <1>6, <2>1, ContainerTypeBegin DEF Compile, C!Command
  <2>2. CASE ~HasArtifact
    BY <1>2, <1>6, <2>2 DEF Compile, bounds
  <2> QED BY <2>1, <2>2
<1>7. ASSUME NEW p \in Invocation, ContainerStep(p) PROVE C!TypeOK' /\ U!TypeOK'
  BY <1>3, <1>7, ContainerTypeStep DEF ContainerStep
<1>8. ASSUME NEW p \in Invocation, StartRemove(p) PROVE C!TypeOK' /\ U!TypeOK'
  BY <1>4, <1>8, UnitTypeBegin DEF StartRemove
<1>9. ASSUME NEW p \in Invocation, BuildEnds(p) PROVE C!TypeOK' /\ U!TypeOK'
  <2>1. CASE cmd[p] = "up" /\ model[p] = "host-daemon"
    BY <1>4, <1>9, <2>1, UnitTypeBegin DEF BuildEnds
  <2>2. CASE ~(cmd[p] = "up" /\ model[p] = "host-daemon")
    BY <1>2, <1>9, <2>2 DEF BuildEnds
  <2> QED BY <2>1, <2>2
<1>10. ASSUME NEW p \in Invocation, UnitStep(p) PROVE C!TypeOK' /\ U!TypeOK'
  BY <1>4, <1>10, UnitTypeStep DEF UnitStep
<1>11. ASSUME NEW p \in Invocation, Kill(p) PROVE C!TypeOK' /\ U!TypeOK'
  <2>1. C!TypeOK'
    BY <1>11 DEF Kill, C!TypeOK
  <2>2. U!TypeOK'
    BY <1>11 DEF Kill, U!TypeOK, U!StepOfSystem, U!Step
  <2> QED BY <2>1, <2>2
<1>12. CASE Reboot
  <2>1. C!TypeOK'
    BY <1>12 DEF Reboot, C!HostReboots, C!Running, C!TypeOK, C!Container
  <2>2. U!TypeOK'
    BY <1>12 DEF Reboot, U!HostReboots, U!StartsAtBoot, U!TypeOK, U!StepOfSystem, U!Maybe,
                 U!Step, U!history
  <2> QED BY <2>1, <2>2
<1>13. CASE ServiceRestarts
  <2>1. C!TypeOK'
    BY <1>13 DEF ServiceRestarts, C!DockerRestart, C!TypeOK, C!Container
  <2> QED BY <1>3, <1>13, <2>1 DEF ServiceRestarts
<1>14. CASE DaemonRestarts
  <2>1. CASE U!ManagerRestart
    <3>1. U!TypeOK'
      BY <2>1 DEF U!ManagerRestart, U!TypeOK, U!StepOfSystem, U!bounds, U!history
    <3> QED BY <1>4, <1>14, <3>1 DEF DaemonRestarts
  <2>2. CASE UNCHANGED <<units, bounds>>
    BY <1>2, <1>14, <2>2 DEF DaemonRestarts
  <2> QED BY <1>14, <2>1, <2>2 DEF DaemonRestarts
<1>15. CASE Exits
  <2>1. CASE C!ServiceExit /\ UNCHANGED <<units, crashes>>
    <3>1. C!TypeOK'
      BY <2>1 DEF C!ServiceExit, C!Running, C!TypeOK, C!Container
    <3> QED BY <1>3, <2>1, <3>1
  <2>2. CASE U!DaemonExit /\ UNCHANGED containers
    <3>1. U!TypeOK'
      BY <2>2 DEF U!DaemonExit, U!TypeOK, U!StepOfSystem, U!Maybe, U!bounds, U!history
    <3> QED BY <1>4, <2>2, <3>1
  <2> QED BY <1>15, <2>1, <2>2 DEF Exits
<1>16. CASE Edit
  <2>1. C!TypeOK'
    BY <1>16 DEF Edit, C!Edit, C!TypeOK
  <2> QED BY <1>3, <1>16, <2>1 DEF Edit
<1>17. CASE Respec \/ Clean
  BY <1>2, <1>17 DEF Respec, Clean
<1>18. ASSUME NEW p \in Invocation, NEW c \in Commands, StartNative(p, c)
       PROVE  C!TypeOK' /\ U!TypeOK'
  BY <1>2, <1>18 DEF StartNative
<1>19. ASSUME NEW p \in Invocation,
              \/ StartHandoffDown(p) \/ ContainerEnds(p) \/ CompileFails(p) \/ ArtifactEnds(p)
              \/ HandOffUp(p) \/ HandOffDown(p) \/ HandOffMissing(p) \/ Exec(p) \/ UnitEnds(p)
       PROVE  C!TypeOK' /\ U!TypeOK'
  BY <1>2, <1>19 DEF StartHandoffDown, ContainerEnds, CompileFails, ArtifactEnds, HandOffUp,
                     HandOffDown, HandOffMissing, Exec, UnitEnds
<1>20. CASE UNCHANGED vars
  BY <1>2, <1>20 DEF vars
<1> QED BY <1>5, <1>6, <1>7, <1>8, <1>9, <1>10, <1>11, <1>12, <1>13, <1>14, <1>15, <1>16,
           <1>17, <1>18, <1>19, <1>20 DEF Next, Begin, Proceed

-----------------------------------------------------------------------------
(* The commands and the components they use, any number of them at once.   *)

\* The part of TypeOK that holds by itself.
CliTyped ==
    /\ spec \in Model /\ respecs \in Nat
    /\ binary \in Nat \cup {None} /\ native \in Nat \cup {None}
    /\ stage \in [Invocation -> {"idle", "container", "compile", "artifact", "built",
                                 "handoff", "unit", "exec"}]
    /\ cmd \in [Invocation -> Commands]
    /\ model \in [Invocation -> Model]
    /\ built \in [Invocation -> Nat]
    /\ outcome \in [Invocation -> {"none", "ok", "error"}]
    /\ DOMAIN before = Invocation
    /\ alone \in [Invocation -> BOOLEAN]

DaemonTyped == daemon \in Nat \cup {None} /\ (daemon # None => live # None)

\* An invocation is in a component only while it is in the stage for it.
Linked(p) ==
    /\ cpc[p] # "idle" => stage[p] \in {"container", "artifact"}
    /\ upc[p] # "idle" => stage[p] = "unit"
    /\ stage[p] = "unit" => model[p] = "host-daemon"
    /\ stage[p] = "handoff" => model[p] = "host-binary" /\ cmd[p] # "run"

\* The stage is one of the model the command was dispatched on, and the
\* container model is asked for what the command needs of it.
Dispatched(p) ==
    /\ stage[p] = "container" =>
          /\ model[p] \in {"service", "container"}
          /\ cop[p] = IF cmd[p] = "up" /\ model[p] = "container" THEN "build" ELSE cmd[p]
    /\ stage[p] \in {"compile", "artifact", "built"} =>
          model[p] \in HostModel /\ cmd[p] # "down"
    /\ stage[p] = "artifact" => HasArtifact /\ cop[p] = "build"
    /\ stage[p] = "unit" => cmd[p] \in {"up", "down"}
    /\ stage[p] = "exec" => cmd[p] = "run"
    /\ cpc[p] = "building" => cop[p] # "down"

\* The unit's steps are those of the command, and of the system.
UnitStage(p) ==
    /\ upc[p] # "idle" =>
          upc[p] \in IF cmd[p] = "up"
                     THEN {"install", "clean", "reload", "enable", "bootout", "bootstrap"}
                     ELSE {"disable", "delete", "forget"}
    /\ upc[p] \in {"reload", "enable", "forget"} => system = "Linux"
    /\ upc[p] \in {"bootout", "bootstrap"} => system = "Darwin"

Control(p) == Linked(p) /\ Dispatched(p) /\ UnitStage(p)

TypeInv ==
    C!TypeOK /\ U!TypeOK /\ CliTyped /\ DaemonTyped /\ \A p \in Invocation : Control(p)

LEMMA TypeInvImplies == TypeInv => TypeOK
  BY DEF TypeInv, TypeOK, CliTyped, DaemonTyped, Control, Linked

LEMMA TypeInvInit == Init => TypeInv
<1> SUFFICES ASSUME Init PROVE TypeInv
  OBVIOUS
<1>1. C!TypeOK
  <2>1. clone \in [Invocation -> BOOLEAN] /\ kept \in BOOLEAN
    BY Zenon DEF Init, C!Init
  <2> QED BY <2>1 DEF Init, C!Init, C!TypeOK, C!Command
<1>2. U!TypeOK
  <2>1. ulone \in [Invocation -> BOOLEAN] /\ overlap \in BOOLEAN
    BY Zenon DEF Init, U!Init
  <2> QED BY <2>1 DEF Init, U!Init, U!TypeOK, U!StepOfSystem, U!Maybe, U!Step
<1>3. CliTyped
  <2>1. alone \in [Invocation -> BOOLEAN]
    BY Zenon DEF Init
  <2> QED BY <2>1 DEF Init, CliTyped, Commands
<1>4. ASSUME NEW p \in Invocation PROVE Control(p)
  BY DEF Init, C!Init, U!Init, Control, Linked, Dispatched, UnitStage
<1>5. DaemonTyped
  BY DEF Init, DaemonTyped
<1> QED BY <1>1, <1>2, <1>3, <1>4, <1>5 DEF TypeInv

\* What a step of the container commands does to the control of an invocation.
LEMMA ContainerControl ==
    ASSUME C!TypeOK, NEW p \in Invocation, C!Step(p)
    PROVE  /\ cpc[p] # "idle" /\ cpc'[p] # "building"
           /\ \A q \in Invocation \ {p} : cpc'[q] = cpc[q] /\ cresult'[q] = cresult[q]
           /\ UNCHANGED <<source, cop, cctx>>
<1> USE DEF C!TypeOK, C!host
<1>1. CASE C!Build(p)
  BY <1>1 DEF C!Build, C!AfterBuild, C!Goto, C!Finish
<1>2. CASE C!RemoveOld(p)
  BY <1>2 DEF C!RemoveOld, C!Goto
<1>3. CASE C!BuildFails(p) \/ C!Launch(p) \/ C!LaunchConflicts(p) \/ C!LaunchFails(p)
              \/ C!OneShot(p) \/ C!Stop(p)
  BY <1>3 DEF C!BuildFails, C!Launch, C!LaunchConflicts, C!LaunchFails, C!OneShot, C!Stop,
              C!Finish
<1> QED BY <1>1, <1>2, <1>3 DEF C!Step

\* What a step on the unit does to the control of an invocation.
LEMMA UnitControl ==
    ASSUME U!TypeOK, NEW p \in Invocation, UnitStage(p), U!Proceed(p), UNCHANGED cmd
    PROVE  /\ upc[p] # "idle" /\ UnitStage(p)'
           /\ \A q \in Invocation \ {p} : upc'[q] = upc[q] /\ uresult'[q] = uresult[q]
           /\ UNCHANGED system
<1> USE DEF U!TypeOK, U!Step, UnitStage, U!host, U!manager, U!Goto, U!Finish
<1>1. CASE U!Abort(p)
  BY <1>1 DEF U!Abort
<1>2. CASE U!Install(p) \/ U!Clean(p)
  BY <1>2 DEF U!Install, U!Clean
<1>3. CASE U!Reload(p) \/ U!EnableNow(p) \/ U!EnableFails(p)
  BY <1>3 DEF U!Reload, U!EnableNow, U!EnableFails
<1>4. CASE U!BootoutOld(p) \/ U!Bootstrap(p) \/ U!BootstrapFails(p)
  BY <1>4 DEF U!BootoutOld, U!Bootout, U!Bootstrap, U!BootstrapFails
<1>5. CASE U!Disable(p) \/ U!BootoutRemoved(p)
  BY <1>5 DEF U!Disable, U!BootoutRemoved, U!Bootout
<1>6. CASE U!Delete(p) \/ U!Forget(p)
  BY <1>6 DEF U!Delete, U!Forget
<1> QED BY <1>1, <1>2, <1>3, <1>4, <1>5, <1>6 DEF U!Proceed

LEMMA CliTypedStep == TypeInv /\ [Next]_vars => CliTyped'
<1> SUFFICES ASSUME TypeInv, [Next]_vars PROVE CliTyped'
  OBVIOUS
<1>1. CliTyped /\ source \in Nat /\ cresult \in [Invocation -> {"none", "ok", "error"}]
               /\ uresult \in [Invocation -> {"none", "ok", "error"}]
  BY DEF TypeInv, C!TypeOK, U!TypeOK
<1> USE <1>1 DEF CliTyped, Start, Goto, Finish, declared, programs, cli
<1>2. ASSUME NEW p \in Invocation, NEW c \in Commands, StartContainer(p, c) PROVE CliTyped'
  BY <1>2 DEF StartContainer
<1>3. ASSUME NEW p \in Invocation, NEW c \in Commands, StartNative(p, c) PROVE CliTyped'
  BY <1>3 DEF StartNative
<1>4. ASSUME NEW p \in Invocation, StartHandoffDown(p) \/ StartRemove(p) PROVE CliTyped'
  <2>1. alone' \in [Invocation -> BOOLEAN]
    BY <1>4, Zenon DEF StartHandoffDown, StartRemove, Start
  <2> QED BY <1>4, <2>1 DEF StartHandoffDown, StartRemove, Commands
<1>5. ASSUME NEW p \in Invocation, ContainerEnds(p) \/ UnitEnds(p) PROVE CliTyped'
  BY <1>5 DEF ContainerEnds, UnitEnds
<1>6. ASSUME NEW p \in Invocation, Compile(p) \/ CompileFails(p) PROVE CliTyped'
  BY <1>6 DEF Compile, CompileFails
<1>7. ASSUME NEW p \in Invocation, ArtifactEnds(p) PROVE CliTyped'
  BY <1>7 DEF ArtifactEnds
<1>8. ASSUME NEW p \in Invocation, BuildEnds(p) PROVE CliTyped'
  BY <1>8 DEF BuildEnds
<1>9. ASSUME NEW p \in Invocation, HandOffUp(p) \/ HandOffDown(p) PROVE CliTyped'
  BY <1>9 DEF HandOffUp, HandOffDown
<1>10. ASSUME NEW p \in Invocation, HandOffMissing(p) \/ Exec(p) PROVE CliTyped'
  BY <1>10 DEF HandOffMissing, Exec
<1>11. ASSUME NEW p \in Invocation, ContainerStep(p) \/ UnitStep(p) PROVE CliTyped'
  BY <1>11 DEF ContainerStep, UnitStep
<1>12. ASSUME NEW p \in Invocation, Kill(p) PROVE CliTyped'
  BY <1>12 DEF Kill
<1>13. CASE Reboot
  BY <1>13 DEF Reboot
<1>14. CASE ServiceRestarts \/ DaemonRestarts \/ Exits \/ Edit
  BY <1>14 DEF ServiceRestarts, DaemonRestarts, Exits, Edit
<1>15. CASE Respec \/ Clean
  BY <1>15 DEF Respec, Clean
<1>16. CASE UNCHANGED vars
  BY <1>16 DEF vars
<1> QED BY <1>2, <1>3, <1>4, <1>5, <1>6, <1>7, <1>8, <1>9, <1>10, <1>11, <1>12, <1>13,
           <1>14, <1>15, <1>16 DEF Next, Begin, Proceed

\* Commands begin, and pass from stage to stage.
LEMMA ControlStep == TypeInv /\ [Next]_vars => \A q \in Invocation : Control(q)'
<1> SUFFICES ASSUME TypeInv, [Next]_vars, NEW q \in Invocation PROVE Control(q)'
  OBVIOUS
<1>1. /\ CliTyped /\ \A p \in Invocation : Control(p)
      /\ cpc \in [Invocation -> {"idle", "building", "rm", "run", "oneshot", "stop"}]
      /\ cop \in [Invocation -> C!Command] /\ upc \in [Invocation -> U!Step]
  BY DEF TypeInv, C!TypeOK, U!TypeOK
<1> USE <1>1 DEF CliTyped, Control, Linked, Dispatched, UnitStage, HostModel, Commands,
                 Start, Goto, Finish, declared, programs, cli
<1>2. ASSUME NEW p \in Invocation, NEW c \in Commands, StartContainer(p, c) PROVE Control(q)'
  BY <1>2 DEF StartContainer, C!BeginBuild, C!BeginStop, C!Start, units
<1>3. ASSUME NEW p \in Invocation, NEW c \in Commands, StartNative(p, c) PROVE Control(q)'
  BY <1>3 DEF StartNative, containers, units
<1>4. ASSUME NEW p \in Invocation, StartHandoffDown(p) PROVE Control(q)'
  BY <1>4 DEF StartHandoffDown, containers, units
<1>5. ASSUME NEW p \in Invocation, StartRemove(p) PROVE Control(q)'
  BY <1>5 DEF StartRemove, U!BeginRemove, U!Begin, U!host, containers
<1>6. ASSUME NEW p \in Invocation, ContainerEnds(p) \/ UnitEnds(p) PROVE Control(q)'
  BY <1>6 DEF ContainerEnds, UnitEnds, containers, units
<1>7. ASSUME NEW p \in Invocation, Compile(p) PROVE Control(q)'
  BY <1>7 DEF Compile, C!BeginBuild, C!Start, containers, units
<1>8. ASSUME NEW p \in Invocation, CompileFails(p) \/ ArtifactEnds(p) PROVE Control(q)'
  BY <1>8 DEF CompileFails, ArtifactEnds, containers, units
<1>9. ASSUME NEW p \in Invocation, BuildEnds(p) PROVE Control(q)'
  BY <1>9 DEF BuildEnds, U!BeginEnsure, U!Begin, U!host, containers, units
<1>10. ASSUME NEW p \in Invocation, HandOffUp(p) \/ HandOffDown(p) PROVE Control(q)'
  BY <1>10 DEF HandOffUp, HandOffDown, containers, units
<1>11. ASSUME NEW p \in Invocation, HandOffMissing(p) \/ Exec(p) PROVE Control(q)'
  BY <1>11 DEF HandOffMissing, Exec, containers, units
<1>12. ASSUME NEW p \in Invocation, ContainerStep(p) PROVE Control(q)'
  <2>1. /\ cpc[p] # "idle" /\ cpc'[p] # "building" /\ cop' = cop
        /\ \A r \in Invocation \ {p} : cpc'[r] = cpc[r]
    BY <1>12, ContainerControl DEF ContainerStep, TypeInv
  <2> QED BY <1>12, <2>1 DEF ContainerStep, units
<1>13. ASSUME NEW p \in Invocation, UnitStep(p) PROVE Control(q)'
  <2>1. /\ upc[p] # "idle" /\ UnitStage(p)' /\ system' = system
        /\ \A r \in Invocation \ {p} : upc'[r] = upc[r]
    BY <1>13, UnitControl DEF UnitStep, TypeInv
  <2> QED BY <1>13, <2>1 DEF UnitStep, containers
<1>14. ASSUME NEW p \in Invocation, Kill(p) PROVE Control(q)'
  BY <1>14 DEF Kill
<1>15. CASE Reboot
  BY <1>15 DEF Reboot, C!HostReboots, U!HostReboots
<1>16. CASE ServiceRestarts \/ DaemonRestarts \/ Exits \/ Edit
  BY <1>16 DEF ServiceRestarts, C!DockerRestart, DaemonRestarts, U!ManagerRestart, Exits,
               C!ServiceExit, U!DaemonExit, Edit, C!Edit, containers, units
<1>17. CASE Respec \/ Clean
  BY <1>17 DEF Respec, Clean, containers, units
<1>18. CASE UNCHANGED vars
  BY <1>18 DEF vars, containers, units
<1> QED BY <1>2, <1>3, <1>4, <1>5, <1>6, <1>7, <1>8, <1>9, <1>10, <1>11, <1>12, <1>13,
           <1>14, <1>15, <1>16, <1>17, <1>18 DEF Next, Begin, Proceed

\* A daemon executes a program only while it runs.
LEMMA DaemonTypedStep == TypeInv /\ [Next]_vars => DaemonTyped'
<1> SUFFICES ASSUME TypeInv, [Next]_vars PROVE DaemonTyped'
  OBVIOUS
<1>1. DaemonTyped /\ binary \in Nat \cup {None}
  BY DEF TypeInv, CliTyped
<1> USE <1>1 DEF DaemonTyped
<1>2. CASE UNCHANGED <<daemon, live>>
  BY <1>2
<1>3. CASE DaemonExecutes
  BY <1>3 DEF DaemonExecutes
<1>4. ASSUME NEW p \in Invocation,
             \/ StartHandoffDown(p) \/ ContainerEnds(p) \/ UnitEnds(p) \/ Compile(p)
             \/ CompileFails(p) \/ ArtifactEnds(p) \/ HandOffUp(p) \/ HandOffDown(p)
             \/ HandOffMissing(p) \/ Exec(p) \/ ContainerStep(p) \/ Kill(p)
      PROVE  UNCHANGED <<daemon, live>>
  BY <1>4 DEF StartHandoffDown, ContainerEnds, UnitEnds, Compile, CompileFails, ArtifactEnds,
              HandOffUp, HandOffDown, HandOffMissing, Exec, ContainerStep, Kill, Start,
              programs, units
<1>5. ASSUME NEW p \in Invocation, NEW c \in Commands, StartContainer(p, c) \/ StartNative(p, c)
      PROVE  UNCHANGED <<daemon, live>>
  BY <1>5 DEF StartContainer, StartNative, Start, programs, units
<1>6. ASSUME NEW p \in Invocation, StartRemove(p) \/ BuildEnds(p)
      PROVE  UNCHANGED <<daemon, live>>
  BY <1>6 DEF StartRemove, BuildEnds, Start, U!BeginRemove, U!BeginEnsure, U!Begin, U!host,
              U!manager, programs, units
<1>7. CASE Edit \/ Respec \/ Clean \/ ServiceRestarts \/ UNCHANGED vars
  BY <1>7 DEF Edit, Respec, Clean, ServiceRestarts, vars, programs, units
<1>8. CASE Reboot \/ Exits \/ DaemonRestarts
  BY <1>2, <1>3, <1>8 DEF Reboot, Exits, DaemonRestarts, units
<1>9. ASSUME NEW p \in Invocation, UnitStep(p) PROVE DaemonTyped'
  BY <1>3, <1>9 DEF UnitStep
<1> QED BY <1>2, <1>4, <1>5, <1>6, <1>7, <1>8, <1>9 DEF Next, Begin, Proceed

LEMMA TypeInvStep == TypeInv /\ [Next]_vars => TypeInv'
  BY ComponentTypesStep, CliTypedStep, DaemonTypedStep, ControlStep DEF TypeInv

\* Any number of invocations: every variable keeps its type, and an
\* invocation uses a component only in the stage, and for the model, that is
\* the component's.
THEOREM TypeCorrect == Spec => []TypeOK
  BY TypeInvInit, TypeInvStep, TypeInvImplies, PTL DEF Spec

-----------------------------------------------------------------------------
(* A command that no other overlaps.                                       *)

\* While a command is alone, no other is there.
AloneInv ==
    \A p \in Invocation : alone[p] => \A q \in Invocation \ {p} : stage[q] = "idle"

\* Only a command that is there takes a step.
LEMMA BusyProceeds ==
    ASSUME TypeInv, NEW p \in Invocation, Proceed(p) \/ Kill(p)
    PROVE  /\ stage[p] # "idle" /\ UNCHANGED alone
           /\ \A q \in Invocation \ {p} : stage'[q] = stage[q]
<1>1. /\ CliTyped /\ C!TypeOK /\ U!TypeOK /\ Control(p)
  BY DEF TypeInv
<1> USE <1>1 DEF CliTyped, Control, Goto, Finish, cli
<1>2. CASE ContainerStep(p)
  BY <1>2, ContainerControl DEF ContainerStep, Linked
<1>3. CASE UnitStep(p)
  BY <1>3, UnitControl DEF UnitStep, Linked
<1>4. CASE ContainerEnds(p) \/ UnitEnds(p) \/ Compile(p) \/ CompileFails(p) \/ ArtifactEnds(p)
  BY <1>4 DEF ContainerEnds, UnitEnds, Compile, CompileFails, ArtifactEnds
<1>5. CASE BuildEnds(p)
  BY <1>5 DEF BuildEnds
<1>6. CASE \/ HandOffUp(p) \/ HandOffDown(p) \/ HandOffMissing(p) \/ Exec(p) \/ Kill(p)
  BY <1>6 DEF HandOffUp, HandOffDown, HandOffMissing, Exec, Kill
<1> QED BY <1>2, <1>3, <1>4, <1>5, <1>6 DEF Proceed

\* A command that begins is alone if it finds no other there, and ends the
\* solitude of every other.
LEMMA BeginsAlone ==
    ASSUME TypeInv, NEW p \in Invocation, Begin(p)
    PROVE  /\ \A q \in Invocation \ {p} : ~alone'[q] /\ stage'[q] = stage[q]
           /\ alone'[p] => \A q \in Invocation \ {p} : stage[q] = "idle"
<1>1. \E c, s : Start(p, c, s)
  BY DEF Begin, StartContainer, StartNative, StartHandoffDown, StartRemove
<1> QED BY <1>1 DEF Start, TypeInv, CliTyped

LEMMA AloneInit == Init => AloneInv
  BY DEF Init, AloneInv

LEMMA AloneStep == TypeInv /\ AloneInv /\ [Next]_vars => AloneInv'
<1> SUFFICES ASSUME TypeInv, AloneInv, [Next]_vars PROVE AloneInv'
  OBVIOUS
<1>1. ASSUME NEW p \in Invocation, Begin(p) PROVE AloneInv'
  BY <1>1, BeginsAlone DEF AloneInv
<1>2. ASSUME NEW p \in Invocation, Proceed(p) \/ Kill(p) PROVE AloneInv'
  BY <1>2, BusyProceeds DEF AloneInv
<1>3. CASE Reboot
  BY <1>3 DEF Reboot, AloneInv
<1>4. CASE \/ Edit \/ Respec \/ Clean \/ Exits \/ ServiceRestarts \/ DaemonRestarts
           \/ UNCHANGED vars
  BY <1>4 DEF Edit, Respec, Clean, Exits, ServiceRestarts, DaemonRestarts, vars, cli, AloneInv
<1> QED BY <1>1, <1>2, <1>3, <1>4 DEF Next

\* What a command that stays, or begins, alone meets: its own steps and those
\* of what is around it.
LEMMA SoloNext ==
    ASSUME NEW p \in Invocation, TypeInv, AloneInv, alone'[p], [Next]_vars
    PROVE  \/ \E c \in Commands : StartContainer(p, c)
           \/ \E c \in Commands : StartNative(p, c)
           \/ StartHandoffDown(p) \/ StartRemove(p)
           \/ /\ alone[p]
              /\ \/ ContainerStep(p) \/ ContainerEnds(p)
                 \/ Compile(p) \/ CompileFails(p) \/ ArtifactEnds(p) \/ BuildEnds(p)
                 \/ HandOffUp(p) \/ HandOffDown(p) \/ HandOffMissing(p) \/ Exec(p)
                 \/ UnitStep(p) \/ UnitEnds(p) \/ Kill(p)
                 \/ Edit \/ Respec \/ Clean
                 \/ Reboot \/ Exits \/ ServiceRestarts \/ DaemonRestarts
                 \/ UNCHANGED vars
<1>1. CASE Begin(p)
  BY <1>1 DEF Begin
<1>2. CASE Proceed(p) \/ Kill(p)
  BY <1>2, BusyProceeds DEF Proceed
<1>3. ASSUME NEW q \in Invocation \ {p}, Begin(q) PROVE FALSE
  BY <1>3, BeginsAlone
<1>4. ASSUME NEW q \in Invocation \ {p}, Proceed(q) \/ Kill(q) PROVE FALSE
  BY <1>4, BusyProceeds DEF AloneInv
<1>5. CASE \/ Edit \/ Respec \/ Clean \/ Reboot \/ Exits \/ ServiceRestarts \/ DaemonRestarts
           \/ UNCHANGED vars
  BY <1>5 DEF Edit, Respec, Clean, Reboot, Exits, ServiceRestarts, DaemonRestarts, vars, cli
<1> QED BY <1>1, <1>2, <1>3, <1>4, <1>5 DEF Next

Tagged(p) == image # None /\ image.src = cctx[p]
Serving(p) == container # None /\ container.src = cctx[p]
Installed == file # None /\ active = "active" /\ (system = "Linux" => enabled = "enabled")
Gone == file = None /\ active = "inactive"

ContainerOver(p) == cpc[p] = "idle" /\ cresult[p] = "ok"
UnitOver(p) == stage[p] = "unit" /\ upc[p] = "idle" /\ uresult[p] = "ok"

\* Once the command has built its image, the tag is that image's.
ImageInv(p) ==
    /\ cpc[p] \in {"rm", "run", "oneshot"} => Tagged(p)
    /\ stage[p] \in {"container", "artifact"} /\ ContainerOver(p) /\ cmd[p] # "down" => Tagged(p)
    /\ stage[p] \in {"built", "handoff", "unit"} /\ HasArtifact /\ cmd[p] # "down" => Tagged(p)
    /\ Done(p, "up") /\ (model[p] = "container" \/ (model[p] \in HostModel /\ HasArtifact))
         => Tagged(p)

\* Once `cluster up` has launched the service, the container is of its image.
ServiceInv(p) ==
    /\ stage[p] = "container" /\ ContainerOver(p) /\ cop[p] = "up" => Serving(p)
    /\ Done(p, "up") /\ model[p] = "service" => Serving(p)

\* .build/ holds what the command compiled, and the handoff runs that.
HandoffInv(p) ==
    /\ stage[p] \in {"artifact", "built", "handoff", "unit"} /\ cmd[p] # "down" =>
          binary \in {None, built[p]}
    /\ Done(p, "up") /\ model[p] \in HostModel => binary \in {None, built[p]}
    /\ Done(p, "up") /\ model[p] = "host-binary" => native = built[p]

\* Once `cluster up` has ensured the unit, it is declared and started, on
\* launchd with what .build/ holds.
Executing(p) == system = "Darwin" => daemon \in {None, built[p]}

EnsureInv(p) ==
    /\ UnitOver(p) /\ cmd[p] = "up" => Installed /\ Executing(p)
    /\ Done(p, "up") /\ model[p] = "host-daemon" => Installed /\ Executing(p)

\* What the container model builds for the command is of the source it was
\* dispatched on, or of a later one when it is a counterpart.
SourceInv(p) ==
    /\ built[p] <= source
    /\ stage[p] = "container" /\ cmd[p] # "down" => cctx[p] = built[p]
    /\ stage[p] \in {"artifact", "built", "handoff", "unit"} /\ HasArtifact /\ cmd[p] # "down"
         => cctx[p] \in built[p]..source
    /\ Done(p, "up") => IF model[p] \in HostModel
                        THEN HasArtifact => cctx[p] \in built[p]..source
                        ELSE cctx[p] = built[p]

UpInv(p) ==
    ImageInv(p) /\ ServiceInv(p) /\ HandoffInv(p) /\ EnsureInv(p) /\ SourceInv(p)

LEMMA ImageStep ==
    ASSUME NEW p \in Invocation, TypeInv, AloneInv, alone'[p],
           alone[p] => ImageInv(p), [Next]_vars
    PROVE  ImageInv(p)'
<1>1. /\ CliTyped /\ C!TypeOK /\ Control(p)
  BY DEF TypeInv
<1> USE <1>1 DEF CliTyped, C!TypeOK, Control, Linked, Dispatched, HostModel, Commands,
                 Start, Goto, Finish, declared, programs, cli,
                 ImageInv, Tagged, ContainerOver, Done
<1>2. ASSUME NEW c \in Commands, StartContainer(p, c) PROVE ImageInv(p)'
  BY <1>2 DEF StartContainer, C!BeginBuild, C!BeginStop, C!Start
<1>3. ASSUME NEW c \in Commands, StartNative(p, c) PROVE ImageInv(p)'
  BY <1>3 DEF StartNative, containers
<1>4. CASE StartHandoffDown(p) \/ StartRemove(p)
  BY <1>4 DEF StartHandoffDown, StartRemove, containers
<1>5. CASE alone[p] /\ ContainerEnds(p)
  BY <1>5 DEF ContainerEnds, containers
<1>6. CASE alone[p] /\ Compile(p)
  BY <1>6 DEF Compile, C!BeginBuild, C!Start, containers
<1>7. CASE alone[p] /\ (CompileFails(p) \/ ArtifactEnds(p))
  BY <1>7 DEF CompileFails, ArtifactEnds, containers
<1>8. CASE alone[p] /\ BuildEnds(p)
  BY <1>8 DEF BuildEnds, containers
<1>9. CASE alone[p] /\ (HandOffUp(p) \/ HandOffDown(p) \/ HandOffMissing(p))
  BY <1>9 DEF HandOffUp, HandOffDown, HandOffMissing, containers
<1>10. CASE alone[p] /\ (Exec(p) \/ UnitEnds(p))
  BY <1>10 DEF Exec, UnitEnds, containers
<1>11. CASE alone[p] /\ ContainerStep(p)
  <2> USE DEF ContainerStep, C!host
  <2>1. CASE C!Build(p)
    <3>1. image' = [src |-> cctx[p], by |-> cop[p]] /\ image' \in C!Image
      BY <2>1 DEF C!Build, C!Image
    <3>2. image' # None /\ image'.src = cctx[p]
      BY <3>1, NoneAssumption
    <3> QED BY <1>11, <2>1, <3>2 DEF C!Build, C!AfterBuild, C!Goto, C!Finish
  <2>2. CASE C!BuildFails(p)
    BY <1>11, <2>2 DEF C!BuildFails, C!Finish
  <2>3. CASE C!RemoveOld(p)
    BY <1>11, <2>3 DEF C!RemoveOld, C!Goto
  <2>4. CASE C!Launch(p) \/ C!LaunchConflicts(p) \/ C!LaunchFails(p)
    BY <1>11, <2>4 DEF C!Launch, C!LaunchConflicts, C!LaunchFails, C!Finish
  <2>5. CASE C!OneShot(p) \/ C!Stop(p)
    BY <1>11, <2>5 DEF C!OneShot, C!Stop, C!Finish, C!Command
  <2> QED BY <1>11, <2>1, <2>2, <2>3, <2>4, <2>5 DEF C!Step
<1>12. CASE alone[p] /\ UnitStep(p)
  BY <1>12 DEF UnitStep, containers
<1>13. CASE alone[p] /\ Kill(p)
  BY <1>13 DEF Kill
<1>14. CASE alone[p] /\ Reboot
  BY <1>14 DEF Reboot, C!HostReboots
<1>15. CASE alone[p] /\ (ServiceRestarts \/ DaemonRestarts)
  BY <1>15 DEF ServiceRestarts, C!DockerRestart, DaemonRestarts, containers
<1>16. CASE alone[p] /\ (Exits \/ Edit)
  BY <1>16 DEF Exits, C!ServiceExit, Edit, C!Edit, containers
<1>17. CASE alone[p] /\ (Respec \/ Clean \/ UNCHANGED vars)
  BY <1>17 DEF Respec, Clean, vars, containers
<1> QED BY <1>2, <1>3, <1>4, <1>5, <1>6, <1>7, <1>8, <1>9, <1>10, <1>11, <1>12, <1>13,
           <1>14, <1>15, <1>16, <1>17, SoloNext

LEMMA ServiceStep ==
    ASSUME NEW p \in Invocation, TypeInv, AloneInv, alone'[p],
           alone[p] => ImageInv(p), alone[p] => ServiceInv(p), [Next]_vars
    PROVE  ServiceInv(p)'
<1>1. /\ CliTyped /\ C!TypeOK /\ Control(p)
  BY DEF TypeInv
<1> USE <1>1 DEF CliTyped, C!TypeOK, Control, Linked, Dispatched, HostModel, Commands,
                 Start, Goto, Finish, declared, programs, cli,
                 ServiceInv, Serving, ContainerOver, Done
<1>2. ASSUME NEW c \in Commands, StartContainer(p, c) PROVE ServiceInv(p)'
  BY <1>2 DEF StartContainer, C!BeginBuild, C!BeginStop, C!Start
<1>3. ASSUME NEW c \in Commands, StartNative(p, c) PROVE ServiceInv(p)'
  BY <1>3 DEF StartNative, containers
<1>4. CASE StartHandoffDown(p) \/ StartRemove(p)
  BY <1>4 DEF StartHandoffDown, StartRemove, containers
<1>5. CASE alone[p] /\ ContainerEnds(p)
  BY <1>5 DEF ContainerEnds, containers
<1>6. CASE alone[p] /\ Compile(p)
  BY <1>6 DEF Compile, C!BeginBuild, C!Start, containers
<1>7. CASE alone[p] /\ (CompileFails(p) \/ ArtifactEnds(p))
  BY <1>7 DEF CompileFails, ArtifactEnds, containers
<1>8. CASE alone[p] /\ BuildEnds(p)
  BY <1>8 DEF BuildEnds, containers
<1>9. CASE alone[p] /\ (HandOffUp(p) \/ HandOffDown(p) \/ HandOffMissing(p))
  BY <1>9 DEF HandOffUp, HandOffDown, HandOffMissing, containers
<1>10. CASE alone[p] /\ (Exec(p) \/ UnitEnds(p))
  BY <1>10 DEF Exec, UnitEnds, containers
<1>11. CASE alone[p] /\ ContainerStep(p)
  <2> USE DEF ContainerStep, C!host
  <2>1. CASE C!Build(p)
    BY <1>11, <2>1 DEF C!Build, C!AfterBuild, C!Goto, C!Finish
  <2>2. CASE C!BuildFails(p)
    BY <1>11, <2>2 DEF C!BuildFails, C!Finish
  <2>3. CASE C!RemoveOld(p)
    BY <1>11, <2>3 DEF C!RemoveOld, C!Goto
  <2>4. CASE C!Launch(p)
    <3>1. container'.src = cctx[p] /\ container' \in C!Container
      BY <1>11, <2>4 DEF C!Launch, C!Fresh, ImageInv, Tagged, C!Container
    <3>2. container' # None
      BY <3>1, NoneAssumption
    <3> QED BY <1>11, <2>4, <3>1, <3>2 DEF C!Launch, C!Finish
  <2>5. CASE C!LaunchConflicts(p) \/ C!LaunchFails(p)
    BY <1>11, <2>5 DEF C!LaunchConflicts, C!LaunchFails, C!Finish
  <2>6. CASE C!OneShot(p) \/ C!Stop(p)
    BY <1>11, <2>6 DEF C!OneShot, C!Stop, C!Finish
  <2> QED BY <1>11, <2>1, <2>2, <2>3, <2>4, <2>5, <2>6 DEF C!Step
<1>12. CASE alone[p] /\ UnitStep(p)
  BY <1>12 DEF UnitStep, containers
<1>13. CASE alone[p] /\ Kill(p)
  BY <1>13 DEF Kill
<1>14. CASE alone[p] /\ (Reboot \/ ServiceRestarts \/ Exits)
  <2>1. /\ container = None => container' = None
        /\ container # None => container' # None /\ container'.src = container.src
    <3>1. container # None => container' \in C!Container /\ container'.src = container.src
      BY <1>14 DEF Reboot, C!HostReboots, ServiceRestarts, C!DockerRestart, Exits, C!ServiceExit,
                   C!Running, C!Container, containers
    <3>2. container = None => container' = None
      BY <1>14 DEF Reboot, C!HostReboots, ServiceRestarts, C!DockerRestart, Exits, C!ServiceExit,
                   C!Running, containers
    <3> QED BY <3>1, <3>2, NoneAssumption
  <2> QED BY <1>14, <2>1 DEF Reboot, C!HostReboots, ServiceRestarts, C!DockerRestart, Exits,
                             C!ServiceExit, containers
<1>15. CASE alone[p] /\ (DaemonRestarts \/ Edit)
  BY <1>15 DEF DaemonRestarts, Edit, C!Edit, containers
<1>16. CASE alone[p] /\ (Respec \/ Clean \/ UNCHANGED vars)
  BY <1>16 DEF Respec, Clean, vars, containers
<1> QED BY <1>2, <1>3, <1>4, <1>5, <1>6, <1>7, <1>8, <1>9, <1>10, <1>11, <1>12, <1>13,
           <1>14, <1>15, <1>16, SoloNext

LEMMA HandoffStep ==
    ASSUME NEW p \in Invocation, TypeInv, AloneInv, alone'[p],
           alone[p] => HandoffInv(p), [Next]_vars
    PROVE  HandoffInv(p)'
<1>1. /\ CliTyped /\ Control(p)
  BY DEF TypeInv
<1> USE <1>1 DEF CliTyped, Control, Linked, Dispatched, HostModel, Commands,
                 Start, Goto, Finish, declared, programs, cli, HandoffInv, Done
<1>2. ASSUME NEW c \in Commands, StartContainer(p, c) \/ StartNative(p, c)
      PROVE  HandoffInv(p)'
  BY <1>2 DEF StartContainer, StartNative
<1>3. CASE StartHandoffDown(p) \/ StartRemove(p)
  BY <1>3 DEF StartHandoffDown, StartRemove
<1>4. CASE alone[p] /\ (ContainerEnds(p) \/ UnitEnds(p))
  BY <1>4 DEF ContainerEnds, UnitEnds
<1>5. CASE alone[p] /\ Compile(p)
  BY <1>5 DEF Compile
<1>6. CASE alone[p] /\ (CompileFails(p) \/ ArtifactEnds(p) \/ BuildEnds(p))
  BY <1>6 DEF CompileFails, ArtifactEnds, BuildEnds
<1>7. CASE alone[p] /\ HandOffUp(p)
  BY <1>7 DEF HandOffUp
<1>8. CASE alone[p] /\ (HandOffDown(p) \/ HandOffMissing(p) \/ Exec(p))
  BY <1>8 DEF HandOffDown, HandOffMissing, Exec
<1>9. CASE alone[p] /\ (ContainerStep(p) \/ UnitStep(p))
  BY <1>9 DEF ContainerStep, UnitStep
<1>10. CASE alone[p] /\ (Kill(p) \/ Reboot)
  BY <1>10 DEF Kill, Reboot
<1>11. CASE alone[p] /\ (ServiceRestarts \/ DaemonRestarts \/ Exits \/ Edit)
  BY <1>11 DEF ServiceRestarts, DaemonRestarts, Exits, Edit
<1>12. CASE alone[p] /\ (Respec \/ Clean \/ UNCHANGED vars)
  BY <1>12 DEF Respec, Clean, vars
<1> QED BY <1>2, <1>3, <1>4, <1>5, <1>6, <1>7, <1>8, <1>9, <1>10, <1>11, <1>12, SoloNext

LEMMA EnsureStep ==
    ASSUME NEW p \in Invocation, TypeInv, AloneInv, alone'[p],
           alone[p] => EnsureInv(p), alone[p] => HandoffInv(p), [Next]_vars
    PROVE  EnsureInv(p)'
<1>1. /\ CliTyped /\ U!TypeOK /\ Control(p)
  BY DEF TypeInv
<1> USE <1>1 DEF CliTyped, U!TypeOK, Control, Linked, Dispatched, UnitStage, HostModel, Commands,
                 Start, Goto, Finish, declared, programs, cli, EnsureInv, Installed,
                 Executing, UnitOver, Done
<1>2. ASSUME NEW c \in Commands, StartContainer(p, c) \/ StartNative(p, c)
      PROVE  EnsureInv(p)'
  BY <1>2 DEF StartContainer, StartNative, units
<1>3. CASE StartHandoffDown(p)
  BY <1>3 DEF StartHandoffDown, units
<1>4. CASE StartRemove(p)
  BY <1>4 DEF StartRemove, U!BeginRemove, U!Begin, U!host, U!manager
<1>5. CASE alone[p] /\ (ContainerEnds(p) \/ UnitEnds(p))
  BY <1>5 DEF ContainerEnds, UnitEnds, units
<1>6. CASE alone[p] /\ (Compile(p) \/ CompileFails(p) \/ ArtifactEnds(p))
  BY <1>6 DEF Compile, CompileFails, ArtifactEnds, units
<1>7. CASE alone[p] /\ BuildEnds(p)
  BY <1>7 DEF BuildEnds, U!BeginEnsure, U!Begin, U!host, U!manager, units
<1>8. CASE alone[p] /\ (HandOffUp(p) \/ HandOffDown(p) \/ HandOffMissing(p) \/ Exec(p))
  BY <1>8 DEF HandOffUp, HandOffDown, HandOffMissing, Exec, units
<1>9. CASE alone[p] /\ ContainerStep(p)
  BY <1>9 DEF ContainerStep, units
<1>10. CASE alone[p] /\ UnitStep(p)
  <2> USE <1>10, NoneAssumption DEF UnitStep, U!host, U!manager, U!Goto, U!Finish, U!Maybe, U!Step
  <2>1. CASE U!Abort(p) \/ U!EnableFails(p) \/ U!BootstrapFails(p)
    BY <2>1 DEF U!Abort, U!EnableFails, U!BootstrapFails
  <2>2. CASE U!Install(p) \/ U!Clean(p) \/ U!Reload(p) \/ U!BootoutOld(p)
    BY <2>2 DEF U!Install, U!Clean, U!Reload, U!BootoutOld
  <2>3. CASE U!EnableNow(p)
    BY <2>3 DEF U!EnableNow
  <2>4. CASE U!Bootstrap(p)
    <3>1. live = None /\ binary \in {None, built[p]}
      BY <2>4 DEF U!Bootstrap, HandoffInv
    <3>2. daemon' \in {None, built[p]}
      BY <3>1 DEF DaemonExecutes
    <3> QED BY <2>4, <3>2 DEF U!Bootstrap
  <2>5. CASE U!Disable(p) \/ U!BootoutRemoved(p)
    BY <2>5 DEF U!Disable, U!BootoutRemoved
  <2>6. CASE U!Delete(p) \/ U!Forget(p)
    BY <2>6 DEF U!Delete, U!Forget
  <2> QED BY <2>1, <2>2, <2>3, <2>4, <2>5, <2>6 DEF U!Proceed
<1>11. CASE alone[p] /\ Kill(p)
  BY <1>11 DEF Kill
<1>12. CASE alone[p] /\ Reboot
  BY <1>12 DEF Reboot, U!HostReboots, U!StartsAtBoot, HandoffInv
<1>13. CASE alone[p] /\ (ServiceRestarts \/ DaemonRestarts \/ Exits \/ Edit)
  BY <1>13 DEF ServiceRestarts, DaemonRestarts, U!ManagerRestart, Exits, U!DaemonExit, Edit,
               DaemonExecutes, HandoffInv, units
<1>14. CASE alone[p] /\ (Respec \/ Clean \/ UNCHANGED vars)
  BY <1>14 DEF Respec, Clean, vars, units
<1> QED BY <1>2, <1>3, <1>4, <1>5, <1>6, <1>7, <1>8, <1>9, <1>10, <1>11, <1>12, <1>13,
           <1>14, SoloNext

LEMMA SourceStep ==
    ASSUME NEW p \in Invocation, TypeInv, AloneInv, alone'[p],
           alone[p] => SourceInv(p), [Next]_vars
    PROVE  SourceInv(p)'
<1>1. /\ CliTyped /\ C!TypeOK /\ Control(p)
  BY DEF TypeInv
<1> USE <1>1 DEF CliTyped, C!TypeOK, Control, Linked, Dispatched, HostModel, Commands,
                 Start, Goto, Finish, declared, programs, cli, SourceInv, Done
<1>2. ASSUME NEW c \in Commands, StartContainer(p, c) PROVE SourceInv(p)'
  BY <1>2 DEF StartContainer, C!BeginBuild, C!BeginStop, C!Start, C!host
<1>3. ASSUME NEW c \in Commands, StartNative(p, c) PROVE SourceInv(p)'
  BY <1>3 DEF StartNative, containers
<1>4. CASE StartHandoffDown(p) \/ StartRemove(p)
  BY <1>4 DEF StartHandoffDown, StartRemove, containers
<1>5. CASE alone[p] /\ ContainerEnds(p)
  BY <1>5 DEF ContainerEnds, containers
<1>6. CASE alone[p] /\ Compile(p)
  BY <1>6 DEF Compile, C!BeginBuild, C!Start, C!host, containers
<1>7. CASE alone[p] /\ (CompileFails(p) \/ ArtifactEnds(p))
  BY <1>7 DEF CompileFails, ArtifactEnds, containers
<1>8. CASE alone[p] /\ BuildEnds(p)
  BY <1>8 DEF BuildEnds, containers
<1>9. CASE alone[p] /\ (HandOffUp(p) \/ HandOffDown(p) \/ HandOffMissing(p))
  BY <1>9 DEF HandOffUp, HandOffDown, HandOffMissing, containers
<1>10. CASE alone[p] /\ (Exec(p) \/ UnitEnds(p))
  BY <1>10 DEF Exec, UnitEnds, containers
<1>11. CASE alone[p] /\ (ContainerStep(p) \/ UnitStep(p))
  BY <1>11, ContainerControl DEF ContainerStep, UnitStep, containers
<1>12. CASE alone[p] /\ (Kill(p) \/ Reboot)
  BY <1>12 DEF Kill, Reboot, C!HostReboots
<1>13. CASE alone[p] /\ (ServiceRestarts \/ DaemonRestarts \/ Exits)
  BY <1>13 DEF ServiceRestarts, C!DockerRestart, DaemonRestarts, Exits, C!ServiceExit, containers
<1>14. CASE alone[p] /\ Edit
  BY <1>14 DEF Edit, C!Edit
<1>15. CASE alone[p] /\ (Respec \/ Clean \/ UNCHANGED vars)
  BY <1>15 DEF Respec, Clean, vars, containers
<1> QED BY <1>2, <1>3, <1>4, <1>5, <1>6, <1>7, <1>8, <1>9, <1>10, <1>11, <1>12, <1>13,
           <1>14, <1>15, SoloNext

\* Any number of invocations: a `cluster up` that nothing overlapped and that
\* reports success deployed what its model calls for, of the source that was
\* there when it was dispatched, with a counterpart image of that source or a
\* later one; whatever overlapping, killed and failed commands did before it.
THEOREM UpDeploysWhatIsDeclared == Spec => []UpDeploys
<1> DEFINE Inv == AloneInv /\ \A p \in Invocation : alone[p] => UpInv(p)
<1>1. Init => Inv
  BY AloneInit
     DEF Init, C!Init, U!Init, UpInv, ImageInv, ServiceInv, HandoffInv, EnsureInv, SourceInv,
         ContainerOver, UnitOver, Done
<1>2. TypeInv /\ Inv /\ [Next]_vars => Inv'
  <2> SUFFICES ASSUME TypeInv, Inv, [Next]_vars, NEW p \in Invocation, alone'[p]
               PROVE  UpInv(p)'
    BY AloneStep
  <2> QED BY ImageStep, ServiceStep, HandoffStep, EnsureStep, SourceStep DEF UpInv
<1>3. TypeInv /\ Inv => UpDeploys
  <2> SUFFICES ASSUME TypeInv, NEW p \in Invocation, UpInv(p), Done(p, "up")
               PROVE  CASE model[p] = "service" -> Serving(p) /\ cctx[p] = built[p]
                        [] model[p] = "container" -> Tagged(p) /\ cctx[p] = built[p]
                        [] OTHER -> /\ HasArtifact => Tagged(p) /\ cctx[p] \in built[p]..source
                                    /\ binary \in {None, built[p]}
                                    /\ model[p] = "host-binary" => native = built[p]
                                    /\ model[p] = "host-daemon" => Installed /\ Executing(p)
    BY DEF UpDeploys, Tagged, Serving, Installed, Executing
  <2>1. model[p] \in Model
    BY DEF TypeInv, CliTyped
  <2> QED BY <2>1 DEF UpInv, ImageInv, ServiceInv, HandoffInv, EnsureInv, SourceInv, HostModel,
                      Model
<1> QED BY <1>1, <1>2, <1>3, TypeInvInit, TypeInvStep, PTL DEF Spec

-----------------------------------------------------------------------------
(* What `cluster down` leaves.                                             *)

\* Nothing is there that the declared model does not bring up.
DeclaredInv ==
    /\ \A p \in Invocation : model[p] = spec
    /\ spec # "host-binary" => native = None
    /\ spec \in HostModel => container = None
    /\ spec # "host-daemon" => Gone /\ loaded = None

\* No two commands are on the unit.
SoloUnit == \A p, q \in Invocation : upc[p] # "idle" /\ upc[q] # "idle" => p = q

\* What the manager keeps up has its file, which stopping it needs; on its
\* way out the daemon stops before the file goes.
StoppableInv ==
    /\ active = "active" => file # None /\ (system = "Darwin" => loaded # None)
    /\ \A p \in Invocation :
          /\ upc[p] \in {"clean", "reload", "enable", "bootout", "bootstrap"} => file # None
          /\ upc[p] \in {"delete", "forget"} => active = "inactive"
          /\ upc[p] = "forget" => file = None

\* What the command has taken down is gone.
DownDoneInv(p) ==
    /\ stage[p] = "container" /\ ContainerOver(p) /\ cmd[p] = "down" => container = None
    /\ UnitOver(p) /\ cmd[p] = "down" => Gone
    /\ Done(p, "down") => container = None /\ native = None /\ Gone

DownInv ==
    faults = 0 /\ respecs = 0 /\ ~overlap =>
        /\ DeclaredInv /\ SoloUnit /\ StoppableInv
        /\ \A p \in Invocation : alone[p] => DownDoneInv(p)

\* The steps that touch the unit.
LEMMA UnitSteps ==
    ASSUME [Next]_vars
    PROVE  \/ UNCHANGED units
           \/ \E p \in Invocation : U!BeginEnsure(p) \/ U!BeginRemove(p)
           \/ \E p \in Invocation : U!Proceed(p) /\ UNCHANGED cli
           \/ \E p \in Invocation : Kill(p)
           \/ Reboot \/ U!ManagerRestart \/ U!DaemonExit
<1>1. ASSUME NEW p \in Invocation, NEW c \in Commands, StartContainer(p, c) \/ StartNative(p, c)
      PROVE  UNCHANGED units
  BY <1>1 DEF StartContainer, StartNative
<1>2. ASSUME NEW p \in Invocation, BuildEnds(p) PROVE UNCHANGED units \/ U!BeginEnsure(p)
  BY <1>2 DEF BuildEnds
<1>3. ASSUME NEW p \in Invocation,
             \/ StartHandoffDown(p) \/ ContainerEnds(p) \/ UnitEnds(p) \/ Compile(p)
             \/ CompileFails(p) \/ ArtifactEnds(p) \/ HandOffUp(p) \/ HandOffDown(p)
             \/ HandOffMissing(p) \/ Exec(p) \/ ContainerStep(p)
      PROVE  UNCHANGED units
  BY <1>3 DEF StartHandoffDown, ContainerEnds, UnitEnds, Compile, CompileFails, ArtifactEnds,
              HandOffUp, HandOffDown, HandOffMissing, Exec, ContainerStep
<1>4. CASE ServiceRestarts \/ Edit \/ Respec \/ Clean \/ UNCHANGED vars
  BY <1>4 DEF ServiceRestarts, Edit, Respec, Clean, vars
<1> QED BY <1>1, <1>2, <1>3, <1>4
        DEF Next, Begin, Proceed, StartRemove, UnitStep, DaemonRestarts, Exits

\* Until two commands overlap on the unit, one that is there is there alone.
LEMMA SoloUnitStep ==
    ASSUME TypeInv, ~overlap => SoloUnit, [Next]_vars, ~overlap'
    PROVE  ~overlap /\ SoloUnit /\ SoloUnit'
<1>1. U!TypeOK /\ \A p \in Invocation : Control(p)
  BY DEF TypeInv
<1>2. CASE UNCHANGED units
  BY <1>2 DEF units, SoloUnit
<1>3. ASSUME NEW p \in Invocation, U!BeginEnsure(p) \/ U!BeginRemove(p)
      PROVE  ~overlap /\ SoloUnit'
  <2>1. \E o, d, s : U!Begin(p, o, d, s)
    BY <1>3 DEF U!BeginEnsure, U!BeginRemove
  <2>2. ~overlap /\ U!Alone(p)
    BY <2>1, Zenon DEF U!Begin
  <2>3. \A q \in Invocation \ {p} : upc'[q] = "idle"
    BY <1>1, <2>1, <2>2 DEF U!Begin, U!Alone, U!TypeOK
  <2> QED BY <2>2, <2>3 DEF SoloUnit
<1>4. ASSUME NEW p \in Invocation, U!Proceed(p), UNCHANGED cli PROVE ~overlap /\ SoloUnit'
  <2>1. upc[p] # "idle" /\ \A q \in Invocation \ {p} : upc'[q] = upc[q]
    BY <1>1, <1>4, UnitControl DEF Control, cli
  <2>2. UNCHANGED overlap
    BY <1>4 DEF U!Proceed, U!Abort, U!Install, U!Clean, U!Reload, U!EnableNow, U!EnableFails,
                U!BootoutOld, U!Bootstrap, U!BootstrapFails, U!Disable, U!BootoutRemoved,
                U!Delete, U!Forget, U!Goto, U!Finish, U!history
  <2> QED BY <2>1, <2>2 DEF SoloUnit
<1>5. ASSUME NEW p \in Invocation, Kill(p) PROVE ~overlap /\ SoloUnit'
  BY <1>1, <1>5 DEF Kill, U!TypeOK, SoloUnit
<1>6. CASE Reboot \/ U!ManagerRestart \/ U!DaemonExit
  BY <1>6 DEF Reboot, U!HostReboots, U!ManagerRestart, U!DaemonExit, U!history, SoloUnit
<1> QED BY <1>2, <1>3, <1>4, <1>5, <1>6, UnitSteps

\* What has failed, and what has been declared, is not forgotten.
LEMMA CountersStep ==
    ASSUME TypeInv, [Next]_vars, faults' = 0, respecs' = 0
    PROVE  faults = 0 /\ respecs = 0 /\ UNCHANGED spec
<1>1. faults \in Nat /\ respecs \in Nat
  BY DEF TypeInv, CliTyped, C!TypeOK
<1>2. CASE Respec
  BY <1>1, <1>2 DEF Respec, bounds
<1>3. ASSUME NEW p \in Invocation, ContainerStep(p) PROVE UNCHANGED <<faults, respecs, spec>>
  <2>1. UNCHANGED <<respecs, spec>>
    BY <1>3 DEF ContainerStep, declared
  <2>2. UNCHANGED faults \/ faults' = faults + 1
    BY <1>3 DEF ContainerStep, C!Step, C!Build, C!BuildFails, C!RemoveOld, C!Launch,
                C!LaunchConflicts, C!LaunchFails, C!OneShot, C!Stop, C!Fault
  <2> QED BY <1>1, <2>1, <2>2
<1>4. ASSUME NEW p \in Invocation, UnitStep(p) PROVE UNCHANGED <<faults, respecs, spec>>
  BY <1>1, <1>4 DEF UnitStep, declared, U!Proceed, U!Abort, U!Install, U!Clean, U!Reload,
                    U!EnableNow, U!EnableFails, U!BootoutOld, U!Bootout, U!Bootstrap,
                    U!BootstrapFails, U!Disable, U!BootoutRemoved, U!Delete, U!Forget, U!Fault,
                    U!bounds
<1>5. ASSUME NEW p \in Invocation, NEW c \in Commands, StartContainer(p, c) \/ StartNative(p, c)
      PROVE  UNCHANGED <<faults, respecs, spec>>
  BY <1>5 DEF StartContainer, C!BeginStop, C!BeginBuild, C!Start, StartNative, Start, declared,
              bounds
<1>6. ASSUME NEW p \in Invocation, StartHandoffDown(p) \/ StartRemove(p)
      PROVE  UNCHANGED <<faults, respecs, spec>>
  BY <1>6 DEF StartHandoffDown, StartRemove, U!BeginRemove, U!Begin, U!bounds, Start, declared,
              bounds
<1>7. ASSUME NEW p \in Invocation, Compile(p) \/ BuildEnds(p)
      PROVE  UNCHANGED <<faults, respecs, spec>>
  BY <1>7 DEF Compile, BuildEnds, C!BeginBuild, C!Start, U!BeginEnsure, U!Begin, U!bounds,
              Goto, Finish, declared, bounds
<1>8. ASSUME NEW p \in Invocation, ContainerEnds(p) \/ CompileFails(p) \/ ArtifactEnds(p)
                                   \/ HandOffUp(p) \/ HandOffDown(p) \/ HandOffMissing(p)
                                   \/ Exec(p) \/ UnitEnds(p) \/ Kill(p)
      PROVE  UNCHANGED <<faults, respecs, spec>>
  BY <1>8 DEF ContainerEnds, CompileFails, ArtifactEnds, HandOffUp, HandOffDown, HandOffMissing,
              Exec, UnitEnds, Kill, Goto, Finish, declared, bounds
<1>9. CASE Reboot \/ ServiceRestarts \/ DaemonRestarts \/ Exits
  BY <1>9 DEF Reboot, ServiceRestarts, C!DockerRestart, DaemonRestarts, U!ManagerRestart, Exits,
              C!ServiceExit, U!DaemonExit, U!bounds, declared, bounds
<1>10. CASE Edit \/ Clean \/ UNCHANGED vars
  BY <1>10 DEF Edit, C!Edit, Clean, vars, declared, bounds
<1> QED BY <1>1, <1>2, <1>3, <1>4, <1>5, <1>6, <1>7, <1>8, <1>9, <1>10 DEF Next, Begin, Proceed

LEMMA DeclaredStep ==
    ASSUME TypeInv, UNCHANGED spec, DeclaredInv, [Next]_vars
    PROVE  DeclaredInv'
<1>1. /\ CliTyped /\ C!TypeOK /\ U!TypeOK /\ \A p \in Invocation : Control(p)
  BY DEF TypeInv
<1> USE <1>1 DEF CliTyped, C!TypeOK, U!TypeOK, Control, Linked, Dispatched, UnitStage,
                 HostModel, Model, Commands, Start, Goto, Finish, declared, programs, cli, DeclaredInv, Gone
<1>2. ASSUME NEW p \in Invocation, NEW c \in Commands, StartContainer(p, c) PROVE DeclaredInv'
  BY <1>2 DEF StartContainer, C!BeginBuild, C!BeginStop, C!Start, C!host, units
<1>3. ASSUME NEW p \in Invocation, NEW c \in Commands, StartNative(p, c) PROVE DeclaredInv'
  BY <1>3 DEF StartNative, containers, units
<1>4. ASSUME NEW p \in Invocation, StartHandoffDown(p) PROVE DeclaredInv'
  BY <1>4 DEF StartHandoffDown, containers, units
<1>5. ASSUME NEW p \in Invocation, StartRemove(p) PROVE DeclaredInv'
  BY <1>5 DEF StartRemove, U!BeginRemove, U!Begin, U!host, U!manager, containers
<1>6. ASSUME NEW p \in Invocation, ContainerEnds(p) \/ UnitEnds(p) PROVE DeclaredInv'
  BY <1>6 DEF ContainerEnds, UnitEnds, containers, units
<1>7. ASSUME NEW p \in Invocation, Compile(p) PROVE DeclaredInv'
  BY <1>7 DEF Compile, C!BeginBuild, C!Start, C!host, containers, units
<1>8. ASSUME NEW p \in Invocation, CompileFails(p) \/ ArtifactEnds(p) PROVE DeclaredInv'
  BY <1>8 DEF CompileFails, ArtifactEnds, containers, units
<1>9. ASSUME NEW p \in Invocation, BuildEnds(p) PROVE DeclaredInv'
  BY <1>9 DEF BuildEnds, U!BeginEnsure, U!Begin, U!host, U!manager, containers, units
<1>10. ASSUME NEW p \in Invocation, HandOffUp(p) \/ HandOffDown(p) \/ HandOffMissing(p)
       PROVE  DeclaredInv'
  BY <1>10 DEF HandOffUp, HandOffDown, HandOffMissing, containers, units
<1>11. ASSUME NEW p \in Invocation, Exec(p) PROVE DeclaredInv'
  BY <1>11 DEF Exec, containers, units
<1>12. ASSUME NEW p \in Invocation, ContainerStep(p) PROVE DeclaredInv'
  <2>1. CASE model[p] \in HostModel
    <3>1. cop[p] = "build"
      BY <1>12, <2>1, ContainerControl DEF ContainerStep
    <3>2. UNCHANGED container
      BY <1>12, <3>1 DEF ContainerStep, C!Step, C!Build, C!BuildFails, C!RemoveOld, C!Launch,
                         C!LaunchConflicts, C!LaunchFails, C!OneShot, C!Stop, C!host
    <3> QED BY <1>12, <3>2 DEF ContainerStep, units
  <2>2. CASE model[p] \notin HostModel
    BY <1>12, <2>2 DEF ContainerStep, units
  <2> QED BY <2>1, <2>2
<1>13. ASSUME NEW p \in Invocation, UnitStep(p) PROVE DeclaredInv'
  <2>1. model[p] = "host-daemon"
    BY <1>13, UnitControl DEF UnitStep
  <2> QED BY <1>13, <2>1 DEF UnitStep, containers
<1>14. ASSUME NEW p \in Invocation, Kill(p) PROVE DeclaredInv'
  BY <1>14 DEF Kill
<1>15. CASE Reboot
  BY <1>15 DEF Reboot, C!HostReboots, C!Running, U!HostReboots, U!StartsAtBoot
<1>16. CASE ServiceRestarts \/ DaemonRestarts
  BY <1>16 DEF ServiceRestarts, C!DockerRestart, DaemonRestarts, U!ManagerRestart, containers, units
<1>17. CASE Exits \/ Edit
  BY <1>17 DEF Exits, C!ServiceExit, C!Running, U!DaemonExit, Edit, C!Edit, containers, units
<1>18. CASE Respec \/ Clean \/ UNCHANGED vars
  BY <1>18 DEF Respec, Clean, vars, containers, units
<1> QED BY <1>2, <1>3, <1>4, <1>5, <1>6, <1>7, <1>8, <1>9, <1>10, <1>11, <1>12, <1>13,
           <1>14, <1>15, <1>16, <1>17, <1>18 DEF Next, Begin, Proceed

LEMMA StoppableStep ==
    ASSUME TypeInv, SoloUnit, faults = 0, UNCHANGED faults, StoppableInv, [Next]_vars
    PROVE  StoppableInv'
<1>1. U!TypeOK /\ \A p \in Invocation : Control(p)
  BY DEF TypeInv
<1> USE <1>1 DEF U!TypeOK, Control, UnitStage, StoppableInv
<1>2. CASE UNCHANGED units
  BY <1>2 DEF units
<1>3. ASSUME NEW p \in Invocation, U!BeginEnsure(p) PROVE StoppableInv'
  BY <1>3 DEF U!BeginEnsure, U!Begin, U!host, U!manager
<1>4. ASSUME NEW p \in Invocation, U!BeginRemove(p) PROVE StoppableInv'
  BY <1>4 DEF U!BeginRemove, U!Begin, U!host, U!manager
<1>5. ASSUME NEW p \in Invocation, U!Proceed(p), UNCHANGED cli PROVE StoppableInv'
  <2>1. \A q \in Invocation \ {p} : upc[q] = "idle" /\ upc'[q] = "idle"
    BY <1>5, UnitControl DEF SoloUnit, cli
  <2> USE <1>5, <2>1, NoneAssumption
      DEF cli, U!host, U!manager, U!Goto, U!Finish, U!Fault, U!Maybe, U!Step
  <2>2. CASE U!Abort(p) \/ U!EnableFails(p) \/ U!BootstrapFails(p)
    BY <2>2 DEF U!Abort, U!EnableFails, U!BootstrapFails
  <2>3. CASE U!Install(p) \/ U!Clean(p) \/ U!Reload(p)
    BY <2>3 DEF U!Install, U!Clean, U!Reload
  <2>4. CASE U!EnableNow(p) \/ U!Bootstrap(p)
    BY <2>4 DEF U!EnableNow, U!Bootstrap
  <2>5. CASE U!BootoutOld(p)
    BY <2>5 DEF U!BootoutOld, U!Bootout, U!Stopped
  <2>6. CASE U!Disable(p)
    BY <2>6 DEF U!Disable
  <2>7. CASE U!BootoutRemoved(p)
    BY <2>7 DEF U!BootoutRemoved, U!Bootout, U!Stopped
  <2>8. CASE U!Delete(p) \/ U!Forget(p)
    BY <2>8 DEF U!Delete, U!Forget
  <2> QED BY <2>2, <2>3, <2>4, <2>5, <2>6, <2>7, <2>8 DEF U!Proceed
<1>6. ASSUME NEW p \in Invocation, Kill(p) PROVE StoppableInv'
  BY <1>6 DEF Kill
<1>7. CASE Reboot
  BY <1>7 DEF Reboot, U!HostReboots, U!StartsAtBoot
<1>8. CASE U!ManagerRestart \/ U!DaemonExit
  BY <1>8 DEF U!ManagerRestart, U!DaemonExit
<1> QED BY <1>2, <1>3, <1>4, <1>5, <1>6, <1>7, <1>8, UnitSteps

LEMMA DownDoneStep ==
    ASSUME NEW p \in Invocation, TypeInv, AloneInv, alone'[p], faults = 0, UNCHANGED faults,
           DeclaredInv, StoppableInv, alone[p] => DownDoneInv(p), [Next]_vars
    PROVE  DownDoneInv(p)'
<1>1. /\ CliTyped /\ C!TypeOK /\ U!TypeOK /\ Control(p)
  BY DEF TypeInv
<1> USE <1>1 DEF CliTyped, C!TypeOK, U!TypeOK, Control, Linked, Dispatched, UnitStage,
                 HostModel, Model, Commands, Start, Goto, Finish, declared, programs, cli,
                 DownDoneInv, ContainerOver, UnitOver, Done, Gone
<1>2. ASSUME NEW c \in Commands, StartContainer(p, c) PROVE DownDoneInv(p)'
  BY <1>2 DEF StartContainer, C!BeginBuild, C!BeginStop, C!Start, C!host, units
<1>3. ASSUME NEW c \in Commands, StartNative(p, c) PROVE DownDoneInv(p)'
  BY <1>3 DEF StartNative, containers, units
<1>4. CASE StartHandoffDown(p)
  BY <1>4 DEF StartHandoffDown, containers, units
<1>5. CASE StartRemove(p)
  BY <1>5 DEF StartRemove, U!BeginRemove, U!Begin, U!host, U!manager, containers
<1>6. CASE alone[p] /\ ContainerEnds(p)
  BY <1>6 DEF ContainerEnds, DeclaredInv, containers, units
<1>7. CASE alone[p] /\ UnitEnds(p)
  BY <1>7 DEF UnitEnds, DeclaredInv, containers, units
<1>8. CASE alone[p] /\ Compile(p)
  BY <1>8 DEF Compile, C!BeginBuild, C!Start, C!host, containers, units
<1>9. CASE alone[p] /\ (CompileFails(p) \/ ArtifactEnds(p))
  BY <1>9 DEF CompileFails, ArtifactEnds, containers, units
<1>10. CASE alone[p] /\ BuildEnds(p)
  BY <1>10 DEF BuildEnds, U!BeginEnsure, U!Begin, U!host, U!manager, containers, units
<1>11. CASE alone[p] /\ (HandOffUp(p) \/ HandOffDown(p) \/ HandOffMissing(p))
  BY <1>11 DEF HandOffUp, HandOffDown, HandOffMissing, DeclaredInv, containers, units
<1>12. CASE alone[p] /\ Exec(p)
  BY <1>12 DEF Exec, containers, units
<1>13. CASE alone[p] /\ ContainerStep(p)
  <2> USE <1>13 DEF ContainerStep, C!host, C!Fault, units
  <2>1. CASE C!Build(p)
    BY <2>1 DEF C!Build, C!AfterBuild, C!Goto, C!Finish
  <2>2. CASE C!BuildFails(p) \/ C!RemoveOld(p)
    BY <2>2 DEF C!BuildFails, C!RemoveOld, C!Goto, C!Finish
  <2>3. CASE C!Launch(p) \/ C!LaunchConflicts(p) \/ C!LaunchFails(p)
    BY <2>3 DEF C!Launch, C!LaunchConflicts, C!LaunchFails, C!Finish
  <2>4. CASE C!OneShot(p) \/ C!Stop(p)
    BY <2>4 DEF C!OneShot, C!Stop, C!Finish
  <2> QED BY <2>1, <2>2, <2>3, <2>4 DEF C!Step
<1>14. CASE alone[p] /\ UnitStep(p)
  <2> USE <1>14 DEF UnitStep, U!host, U!manager, U!Goto, U!Finish, U!Fault, U!Maybe, U!Step,
                    StoppableInv, containers
  <2>1. CASE U!Abort(p) \/ U!EnableFails(p) \/ U!BootstrapFails(p)
    BY <2>1 DEF U!Abort, U!EnableFails, U!BootstrapFails
  <2>2. CASE U!Install(p) \/ U!Clean(p) \/ U!Reload(p) \/ U!BootoutOld(p)
    BY <2>2 DEF U!Install, U!Clean, U!Reload, U!BootoutOld
  <2>3. CASE U!EnableNow(p) \/ U!Bootstrap(p)
    BY <2>3 DEF U!EnableNow, U!Bootstrap
  <2>4. CASE U!Disable(p) \/ U!BootoutRemoved(p)
    BY <2>4 DEF U!Disable, U!BootoutRemoved
  <2>5. CASE U!Delete(p)
    BY <2>5 DEF U!Delete
  <2>6. CASE U!Forget(p)
    BY <2>6 DEF U!Forget
  <2> QED BY <2>1, <2>2, <2>3, <2>4, <2>5, <2>6 DEF U!Proceed
<1>15. CASE alone[p] /\ Kill(p)
  BY <1>15 DEF Kill
<1>16. CASE alone[p] /\ Reboot
  BY <1>16 DEF Reboot, C!HostReboots, C!Running, U!HostReboots, U!StartsAtBoot
<1>17. CASE alone[p] /\ (ServiceRestarts \/ DaemonRestarts)
  BY <1>17 DEF ServiceRestarts, C!DockerRestart, DaemonRestarts, U!ManagerRestart, containers, units
<1>18. CASE alone[p] /\ (Exits \/ Edit)
  BY <1>18 DEF Exits, C!ServiceExit, C!Running, U!DaemonExit, Edit, C!Edit, containers, units
<1>19. CASE alone[p] /\ (Respec \/ Clean \/ UNCHANGED vars)
  BY <1>19 DEF Respec, Clean, vars, containers, units
<1> QED BY <1>2, <1>3, <1>4, <1>5, <1>6, <1>7, <1>8, <1>9, <1>10, <1>11, <1>12, <1>13,
           <1>14, <1>15, <1>16, <1>17, <1>18, <1>19, SoloNext

\* Any number of invocations: as long as the specification stays what it is,
\* no command is refused and no two overlap on the unit, a `cluster down` that
\* nothing overlapped and that reports success leaves nothing running,
\* whichever the model and whatever failed to build, overlapped on the
\* containers or was killed before it.
THEOREM DownUndoesWhatIsUp == Spec => []DownUndoesUp
<1> DEFINE Inv == AloneInv /\ DownInv
<1>1. Init => Inv
  <2> SUFFICES ASSUME Init PROVE DownInv
    BY AloneInit
  <2> QED BY DEF Init, C!Init, U!Init, DownInv, DeclaredInv, SoloUnit, StoppableInv, DownDoneInv,
                 ContainerOver, UnitOver, Done, Gone
<1>2. TypeInv /\ Inv /\ [Next]_vars => Inv'
  <2> SUFFICES ASSUME TypeInv, AloneInv, DownInv, [Next]_vars,
                      faults' = 0, respecs' = 0, ~overlap'
               PROVE  /\ DeclaredInv' /\ SoloUnit' /\ StoppableInv'
                      /\ \A p \in Invocation : alone'[p] => DownDoneInv(p)'
    BY AloneStep DEF DownInv
  <2>1. faults = 0 /\ respecs = 0 /\ UNCHANGED spec
    BY CountersStep
  <2>2. ~overlap /\ SoloUnit /\ SoloUnit'
    BY <2>1, SoloUnitStep DEF DownInv
  <2>3. DeclaredInv /\ StoppableInv /\ \A p \in Invocation : alone[p] => DownDoneInv(p)
    BY <2>1, <2>2 DEF DownInv
  <2>4. DeclaredInv' /\ StoppableInv'
    BY <2>1, <2>2, <2>3, DeclaredStep, StoppableStep
  <2>5. ASSUME NEW p \in Invocation, alone'[p] PROVE DownDoneInv(p)'
    BY <2>1, <2>3, <2>5, DownDoneStep
  <2> QED BY <2>2, <2>4, <2>5
<1>3. TypeInv /\ Inv => DownUndoesUp
  <2>1. TypeInv => (live # None => active = "active")
    BY DEF TypeInv, U!TypeOK
  <2> QED BY <2>1 DEF DownUndoesUp, DownInv, DownDoneInv, Gone
<1> QED BY <1>1, <1>2, <1>3, TypeInvInit, TypeInvStep, PTL DEF Spec

-----------------------------------------------------------------------------
(* What a build that fails leaves.                                         *)

\* The command is building, and has deployed nothing yet.
Building(p) == stage[p] \in {"compile", "artifact"} \/ cpc[p] = "building"

\* What can run is what could, and the binary once it is compiled.
Compiled(p) == IF stage[p] = "artifact" THEN {built[p]} ELSE {}

BeforeInv(p) == Building(p) =>
    /\ Deployed = before[p].deployed
    /\ Runnable \subseteq before[p].runnable \cup Compiled(p)

\* Nothing is deployed while a command that is alone builds: the service and the daemon
\* may only exit and come back.
LEMMA BuildingDeploysNothing ==
    ASSUME NEW p \in Invocation, TypeInv, AloneInv, alone'[p], Building(p),
           [Next]_vars, UNCHANGED crashes
    PROVE  Deployed' = Deployed
<1>1. /\ C!TypeOK /\ Control(p) /\ crashes \in Nat
  BY DEF TypeInv, U!TypeOK
<1> USE <1>1 DEF C!TypeOK, Control, Linked, Dispatched, HostModel, Building, Deployed, programs
<1>2. CASE StartHandoffDown(p) \/ StartRemove(p)
  BY <1>2 DEF StartHandoffDown, StartRemove, Start
<1>3. ASSUME NEW c \in Commands, StartContainer(p, c) \/ StartNative(p, c)
      PROVE  Deployed' = Deployed
  BY <1>3 DEF StartContainer, StartNative, Start
<1>4. CASE alone[p] /\ ContainerStep(p)
  <2>1. UNCHANGED container
    BY <1>4 DEF ContainerStep, C!Step, C!Build, C!BuildFails, C!RemoveOld, C!Launch,
                C!LaunchConflicts, C!LaunchFails, C!OneShot, C!Stop, C!host
  <2> QED BY <1>4, <2>1 DEF ContainerStep, units
<1>5. CASE alone[p] /\ Compile(p)
  BY <1>5 DEF Compile, C!BeginBuild, C!host, containers, units
<1>6. CASE alone[p] /\ (ContainerEnds(p) \/ CompileFails(p) \/ ArtifactEnds(p))
  BY <1>6 DEF ContainerEnds, CompileFails, ArtifactEnds, containers, units
<1>7. CASE alone[p] /\ (BuildEnds(p) \/ HandOffUp(p) \/ HandOffDown(p) \/ HandOffMissing(p)
                     \/ Exec(p) \/ UnitEnds(p))
  BY <1>7 DEF BuildEnds, HandOffUp, HandOffDown, HandOffMissing, Exec, UnitEnds
<1>8. CASE alone[p] /\ UnitStep(p)
  BY <1>8, UnitControl DEF UnitStep, TypeInv, cli
<1>9. CASE alone[p] /\ (Kill(p) \/ Reboot)
  BY <1>9 DEF Kill, Reboot
<1>10. CASE alone[p] /\ (Exits \/ ServiceRestarts)
  <2>1. CASE container = None
    BY <1>10, <2>1 DEF Exits, C!ServiceExit, C!Running, U!DaemonExit, ServiceRestarts,
                       C!DockerRestart, containers, units
  <2>2. CASE container # None
    <3>1. container' \in C!Container /\ container'.src = container.src
      BY <1>10, <2>2 DEF Exits, C!ServiceExit, C!Running, U!DaemonExit, ServiceRestarts,
                         C!DockerRestart, C!Container, containers
    <3>2. container' # None
      BY <3>1, NoneAssumption
    <3>3. UNCHANGED <<native, file, active>>
      BY <1>10 DEF Exits, U!DaemonExit, ServiceRestarts, units
    <3> QED BY <2>2, <3>1, <3>2, <3>3
  <2> QED BY <2>1, <2>2
<1>11. CASE alone[p] /\ (DaemonRestarts \/ Edit)
  BY <1>11 DEF DaemonRestarts, U!ManagerRestart, Edit, C!Edit, containers, units
<1>12. CASE alone[p] /\ (Respec \/ Clean \/ UNCHANGED vars)
  BY <1>12 DEF Respec, Clean, vars, containers, units
<1> QED BY <1>2, <1>3, <1>4, <1>5, <1>6, <1>7, <1>8, <1>9, <1>10, <1>11, <1>12, SoloNext

\* Only a compilation adds to what can run: the daemon executes what is there.
LEMMA RunnableStep ==
    ASSUME NEW p \in Invocation, TypeInv, AloneInv, alone'[p], [Next]_vars
    PROVE  \/ Runnable' \subseteq Runnable
           \/ stage[p] = "compile" /\ Compile(p) /\ Runnable' \subseteq Runnable \cup {built[p]}
<1> USE DEF Runnable, Start, Goto, Finish, programs
<1>1. CASE StartHandoffDown(p) \/ StartRemove(p)
  BY <1>1 DEF StartHandoffDown, StartRemove
<1>2. ASSUME NEW c \in Commands, StartContainer(p, c) \/ StartNative(p, c)
      PROVE  Runnable' \subseteq Runnable
  BY <1>2 DEF StartContainer, StartNative
<1>3. CASE Compile(p)
  BY <1>3 DEF Compile
<1>4. CASE ContainerStep(p) \/ ContainerEnds(p) \/ CompileFails(p) \/ ArtifactEnds(p)
  BY <1>4 DEF ContainerStep, ContainerEnds, CompileFails, ArtifactEnds
<1>5. CASE BuildEnds(p) \/ HandOffUp(p) \/ HandOffDown(p) \/ HandOffMissing(p) \/ Exec(p)
  BY <1>5 DEF BuildEnds, HandOffUp, HandOffDown, HandOffMissing, Exec
<1>6. CASE UnitStep(p) \/ UnitEnds(p) \/ Kill(p)
  BY <1>6 DEF UnitStep, UnitEnds, Kill, DaemonExecutes
<1>7. CASE Edit \/ Respec \/ Clean \/ UNCHANGED vars
  BY <1>7 DEF Edit, Respec, Clean, vars
<1>8. CASE Reboot \/ Exits \/ ServiceRestarts \/ DaemonRestarts
  BY <1>8 DEF Reboot, Exits, ServiceRestarts, DaemonRestarts, DaemonExecutes
<1> QED BY <1>1, <1>2, <1>3, <1>4, <1>5, <1>6, <1>7, <1>8, SoloNext

LEMMA BeforeStep ==
    ASSUME NEW p \in Invocation, TypeInv, AloneInv, alone'[p],
           alone[p] => BeforeInv(p), [Next]_vars
    PROVE  BeforeInv(p)'
<1>1. /\ CliTyped /\ C!TypeOK /\ Control(p)
  BY DEF TypeInv
<1> USE <1>1 DEF CliTyped, C!TypeOK, Control, Linked, Dispatched, HostModel,
                 Start, Goto, Finish, programs, cli, Building
<1>2. ASSUME NEW c \in Commands, StartContainer(p, c) PROVE BeforeInv(p)'
  <2>1. c = "down" => ~Building(p)'
    BY <1>2 DEF StartContainer, C!BeginStop, C!Start
  <2>2. c # "down" => before'[p] = Found /\ Deployed' = Deployed /\ Runnable' = Runnable
    BY <1>2 DEF StartContainer, C!BeginBuild, C!Start, C!host, units, Deployed, Runnable
  <2> QED BY <2>1, <2>2 DEF BeforeInv, Found
<1>3. ASSUME NEW c \in Commands, StartNative(p, c) PROVE BeforeInv(p)'
  <2>1. before'[p] = Found /\ Deployed' = Deployed /\ Runnable' = Runnable
    BY <1>3 DEF StartNative, containers, units, Deployed, Runnable
  <2> QED BY <2>1 DEF BeforeInv, Found
<1>4. CASE StartHandoffDown(p) \/ StartRemove(p)
  BY <1>4 DEF StartHandoffDown, StartRemove, containers, BeforeInv
<1>5. CASE alone[p] /\ Kill(p)
  BY <1>5 DEF Kill, BeforeInv
<1>6. CASE alone[p] /\ Reboot
  BY <1>6 DEF Reboot, C!HostReboots, BeforeInv
<1>7. ASSUME alone[p], UNCHANGED crashes,
             Building(p)' => /\ Building(p) /\ stage'[p] = stage[p]
                             /\ before'[p] = before[p] /\ built'[p] = built[p]
      PROVE  BeforeInv(p)'
  <2> SUFFICES ASSUME Building(p)' PROVE BeforeInv(p)'
    BY DEF BeforeInv
  <2>1. Deployed' = Deployed
    BY <1>7, BuildingDeploysNothing
  <2>2. stage[p] = "compile" => ~Compile(p)
    BY <1>7 DEF Compile
  <2>3. Runnable' \subseteq Runnable
    BY <2>2, RunnableStep
  <2>4. Compiled(p)' = Compiled(p)
    BY <1>7 DEF Compiled
  <2> QED BY <1>7, <2>1, <2>3, <2>4 DEF BeforeInv
<1>8. CASE alone[p] /\ ContainerStep(p)
  BY <1>7, <1>8, ContainerControl DEF ContainerStep
<1>9. CASE alone[p] /\ UnitStep(p)
  <2>1. ~Building(p)'
    BY <1>9, UnitControl DEF UnitStep, TypeInv, containers
  <2> QED BY <2>1 DEF BeforeInv
<1>10. CASE alone[p] /\ Compile(p)
  <2>1. CASE HasArtifact
    <3>1. Building(p) /\ stage'[p] = "artifact" /\ before'[p] = before[p] /\ UNCHANGED built
      BY <1>10, <2>1 DEF Compile
    <3>2. Deployed' = Deployed
      BY <1>10, <3>1, BuildingDeploysNothing DEF Compile
    <3>3. Runnable' \subseteq Runnable \cup {built[p]}
      BY RunnableStep
    <3>4. Compiled(p) = {} /\ Compiled(p)' = {built[p]}
      BY <1>10, <3>1 DEF Compile, Compiled
    <3> QED BY <1>10, <3>1, <3>2, <3>3, <3>4 DEF BeforeInv
  <2>2. CASE ~HasArtifact
    BY <1>10, <2>2 DEF Compile, containers, BeforeInv
  <2> QED BY <2>1, <2>2
<1>11. CASE alone[p] /\ (ContainerEnds(p) \/ UnitEnds(p) \/ ArtifactEnds(p) \/ CompileFails(p))
  <2>1. ~Building(p)'
    BY <1>11 DEF ContainerEnds, UnitEnds, ArtifactEnds, CompileFails, containers
  <2> QED BY <2>1 DEF BeforeInv
<1>12. CASE alone[p] /\ BuildEnds(p)
  BY <1>12 DEF BuildEnds, containers, BeforeInv
<1>13. CASE alone[p] /\ (HandOffUp(p) \/ HandOffDown(p) \/ HandOffMissing(p) \/ Exec(p))
  BY <1>13 DEF HandOffUp, HandOffDown, HandOffMissing, Exec, containers, BeforeInv
<1>14. CASE alone[p] /\ (Exits \/ ServiceRestarts \/ DaemonRestarts)
  BY <1>7, <1>14 DEF Exits, C!ServiceExit, U!DaemonExit, U!bounds, ServiceRestarts,
                     C!DockerRestart, DaemonRestarts, U!ManagerRestart, containers, bounds
<1>15. CASE alone[p] /\ (Edit \/ Respec \/ Clean \/ UNCHANGED vars)
  BY <1>7, <1>15 DEF Edit, C!Edit, Respec, Clean, vars, containers, bounds
<1> QED BY <1>2, <1>3, <1>4, <1>5, <1>6, <1>8, <1>9, <1>10, <1>11, <1>12, <1>13, <1>14,
           <1>15, SoloNext

\* The step in which the build fails is not the beginning of another command.
LEMMA BuildFailsAlone ==
    ASSUME TypeInv, [Next]_vars, NEW p \in Invocation, BuildFails(p)
    PROVE  UNCHANGED alone
<1>1. CASE CompileFails(p) \/ ArtifactEnds(p)
  BY <1>1 DEF CompileFails, ArtifactEnds, Goto, Finish
<1>2. CASE C!BuildFails(p)
  <2>1. cpc \in [Invocation -> {"idle", "building", "rm", "run", "oneshot", "stop"}]
    BY DEF TypeInv, C!TypeOK
  <2>2. cpc[p] = "building" /\ cpc'[p] = "idle"
    BY <1>2, <2>1 DEF C!BuildFails, C!Finish
  <2>3. ASSUME NEW q \in Invocation, Begin(q) PROVE FALSE
    BY <2>1, <2>2, <2>3 DEF Begin, StartContainer, StartNative, StartHandoffDown, StartRemove,
                            C!BeginBuild, C!BeginStop, C!Start, containers
  <2>4. ASSUME NEW q \in Invocation, Proceed(q) \/ Kill(q) PROVE UNCHANGED alone
    BY <2>4, BusyProceeds
  <2>5. CASE \/ Edit \/ Respec \/ Clean \/ Reboot \/ Exits \/ ServiceRestarts \/ DaemonRestarts
             \/ UNCHANGED vars
    BY <2>5 DEF Edit, Respec, Clean, Reboot, Exits, ServiceRestarts, DaemonRestarts, vars, cli
  <2> QED BY <2>3, <2>4, <2>5 DEF Next
<1> QED BY <1>1, <1>2 DEF BuildFails

\* Any number of invocations: a command that nothing overlapped and whose
\* build fails leaves container, handed-off cluster and unit as they were when
\* it was dispatched, and adds nothing to what can run but a host binary whose
\* counterpart failed to build.
THEOREM FailedBuildDeploysNothing == Spec => BuildFailureDeploysNothing
<1> DEFINE Inv == AloneInv /\ \A p \in Invocation : alone[p] => BeforeInv(p)
<1>1. Init => Inv
  BY AloneInit DEF Init, C!Init, BeforeInv, Building
<1>2. TypeInv /\ Inv /\ [Next]_vars => Inv'
  <2> SUFFICES ASSUME TypeInv, Inv, [Next]_vars, NEW p \in Invocation, alone'[p]
               PROVE  BeforeInv(p)'
    BY AloneStep
  <2> QED BY BeforeStep
<1>3. TypeInv /\ Inv /\ [Next]_vars
        => [\A p \in Invocation : BuildFails(p) /\ alone[p] => DeploysNothing(p)]_vars
  <2> SUFFICES ASSUME TypeInv, Inv, [Next]_vars, NEW p \in Invocation, BuildFails(p), alone[p]
               PROVE  DeploysNothing(p)
    OBVIOUS
  <2>1. Building(p) /\ UNCHANGED crashes
    BY DEF BuildFails, C!BuildFails, CompileFails, ArtifactEnds, Building, bounds
  <2>2. alone'[p]
    BY <2>1, BuildFailsAlone
  <2>3. ~Compile(p)
    <3>1. Linked(p) /\ stage \in [Invocation -> {"idle", "container", "compile", "artifact",
                                                 "built", "handoff", "unit", "exec"}]
      BY DEF TypeInv, CliTyped, Control
    <3>2. CASE C!BuildFails(p) \/ ArtifactEnds(p)
      BY <3>1, <3>2 DEF C!BuildFails, ArtifactEnds, Compile, Linked
    <3>3. CASE CompileFails(p)
      BY <3>1, <3>3 DEF CompileFails, Compile, Goto, Finish
    <3> QED BY <3>2, <3>3 DEF BuildFails
  <2>4. Deployed' = Deployed
    BY <2>1, <2>2, BuildingDeploysNothing
  <2>5. Runnable' \subseteq Runnable
    BY <2>2, <2>3, RunnableStep
  <2> QED BY <2>1, <2>4, <2>5 DEF BeforeInv, Compiled, DeploysNothing
<1> QED BY <1>1, <1>2, <1>3, TypeInvInit, TypeInvStep, PTL
        DEF Spec, BuildFailureDeploysNothing
=============================================================================
