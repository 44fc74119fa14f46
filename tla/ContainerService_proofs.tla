----------------------- MODULE ContainerService_proofs -----------------------
(***************************************************************************)
(* What holds of ContainerService for any number of invocations, edits and *)
(* faults.                                                                 *)
(***************************************************************************)
EXTENDS ContainerService, TLAPS

LEMMA TypeInit == Init => TypeOK
<1> SUFFICES ASSUME Init PROVE TypeOK
  OBVIOUS
<1>1. lone \in [Invocation -> BOOLEAN] /\ kept \in BOOLEAN
  BY Zenon DEF Init
<1> QED BY <1>1, NoneAssumption DEF Init, TypeOK, Command

LEMMA TypeStep == TypeOK /\ [Next]_vars => TypeOK'
<1> SUFFICES ASSUME TypeOK, [Next]_vars PROVE TypeOK'
  OBVIOUS
<1> USE DEF TypeOK, Command, Image, Container, host
<1>1. ASSUME NEW p \in Invocation, NEW o \in Command, BeginBuild(p, o) PROVE TypeOK'
  BY <1>1 DEF BeginBuild, Start
<1>2. ASSUME NEW p \in Invocation, BeginStop(p) PROVE TypeOK'
  BY <1>2 DEF BeginStop, Start
<1>3. ASSUME NEW p \in Invocation, Build(p) PROVE TypeOK'
  <2>1. image' = [src |-> ctx[p], by |-> op[p]] /\ image' \in Image /\ image' # None
    BY <1>3, NoneAssumption DEF Build
  <2> QED BY <1>3, <2>1 DEF Build, AfterBuild, Goto, Finish
<1>4. ASSUME NEW p \in Invocation, BuildFails(p) PROVE TypeOK'
  BY <1>4 DEF BuildFails, Finish
<1>5. ASSUME NEW p \in Invocation, RemoveOld(p) PROVE TypeOK'
  BY <1>5 DEF RemoveOld, Goto, Fault
<1>6. ASSUME NEW p \in Invocation, Launch(p) PROVE TypeOK'
  <2>1. image \in Image
    BY <1>6 DEF Launch
  <2>2. Fresh(image.src, "running") \in Container
    BY <2>1 DEF Fresh
  <2> QED BY <1>6, <2>2 DEF Launch, Finish
<1>7. ASSUME NEW p \in Invocation, LaunchConflicts(p) PROVE TypeOK'
  BY <1>7 DEF LaunchConflicts, Finish
<1>8. ASSUME NEW p \in Invocation, LaunchFails(p) PROVE TypeOK'
  <2>1. image \in Image
    BY <1>8 DEF LaunchFails
  <2>2. Fresh(image.src, "created") \in Container
    BY <2>1 DEF Fresh
  <2> QED BY <1>8, <2>2 DEF LaunchFails, Finish, Fault
<1>9. ASSUME NEW p \in Invocation, OneShot(p) PROVE TypeOK'
  BY <1>9 DEF OneShot, Finish
<1>10. ASSUME NEW p \in Invocation, Stop(p) PROVE TypeOK'
  BY <1>10 DEF Stop, Finish, Fault
<1>11. ASSUME NEW p \in Invocation, Kill(p) PROVE TypeOK'
  BY <1>11 DEF Kill, Finish, Fault
<1>12. CASE Edit
  BY <1>12 DEF Edit
<1>13. CASE ServiceExit
  BY <1>13 DEF ServiceExit, Running
<1>14. CASE DockerRestart
  BY <1>14 DEF DockerRestart
<1>15. CASE Reboot
  BY <1>15 DEF Reboot, HostReboots, Running, Fault
<1>16. CASE UNCHANGED vars
  BY <1>16 DEF vars
<1> QED BY <1>1, <1>2, <1>3, <1>4, <1>5, <1>6, <1>7, <1>8, <1>9, <1>10, <1>11, <1>12,
           <1>13, <1>14, <1>15, <1>16 DEF Next, Begin, Step

\* Every reachable state is well typed; an invocation past its build has an
\* image to work with.
THEOREM TypeCorrect == Spec => []TypeOK
BY TypeInit, TypeStep, PTL DEF Spec

-----------------------------------------------------------------------------
(* The tag and the container under any interleaving.                       *)

LEMMA StaleStep ==
    TypeOK /\ StaleHasRedeployer /\ [Next]_vars => StaleHasRedeployer'
<1> SUFFICES ASSUME TypeOK, StaleHasRedeployer, [Next]_vars,
                    faults' = 0, container' # None, image'.by = "up",
                    container'.src # image'.src
             PROVE  \E q \in Invocation : pc'[q] = "rm"
  BY DEF StaleHasRedeployer
<1> USE DEF TypeOK, host
\* The invocation that was to redeploy still is, unless it has just done it.
<1> DEFINE Redeploying == \E q \in Invocation : pc'[q] = "rm"
<1>1. ASSUME NEW p \in Invocation, NEW o \in Command, BeginBuild(p, o)
      PROVE Redeploying
  BY <1>1 DEF BeginBuild, Start, StaleHasRedeployer
<1>2. ASSUME NEW p \in Invocation, BeginStop(p) PROVE Redeploying
  BY <1>2 DEF BeginStop, Start, StaleHasRedeployer
<1>3. ASSUME NEW p \in Invocation, Build(p) PROVE Redeploying
  <2>1. op[p] = "up"
    BY <1>3 DEF Build
  <2> QED BY <1>3, <2>1 DEF Build, AfterBuild, Goto
<1>4. ASSUME NEW p \in Invocation, BuildFails(p) PROVE Redeploying
  BY <1>4 DEF BuildFails, Finish, StaleHasRedeployer
<1>5. ASSUME NEW p \in Invocation, RemoveOld(p) PROVE FALSE
  BY <1>5 DEF RemoveOld, Fault
<1>6. ASSUME NEW p \in Invocation, Launch(p) PROVE FALSE
  BY <1>6 DEF Launch, Fresh
<1>7. ASSUME NEW p \in Invocation, LaunchConflicts(p) PROVE Redeploying
  BY <1>7 DEF LaunchConflicts, Finish, StaleHasRedeployer
<1>8. ASSUME NEW p \in Invocation, LaunchFails(p) PROVE FALSE
  BY <1>8 DEF LaunchFails, Fault
<1>9. ASSUME NEW p \in Invocation, OneShot(p) PROVE Redeploying
  BY <1>9 DEF OneShot, Finish, StaleHasRedeployer
<1>10. ASSUME NEW p \in Invocation, Stop(p) PROVE FALSE
  BY <1>10 DEF Stop, Fault
<1>11. ASSUME NEW p \in Invocation, Kill(p) PROVE FALSE
  BY <1>11 DEF Kill, Fault
<1>12. CASE Edit
  BY <1>12 DEF Edit, StaleHasRedeployer
<1>13. CASE ServiceExit
  BY <1>13 DEF ServiceExit, Running, StaleHasRedeployer, Container
<1>14. CASE DockerRestart
  BY <1>14 DEF DockerRestart, StaleHasRedeployer, Container
<1>15. ASSUME Reboot PROVE FALSE
  BY <1>15 DEF Reboot, HostReboots, Fault
<1>16. CASE UNCHANGED vars
  BY <1>16 DEF vars, StaleHasRedeployer
<1> QED BY <1>1, <1>2, <1>3, <1>4, <1>5, <1>6, <1>7, <1>8, <1>9, <1>10, <1>11, <1>12,
           <1>13, <1>14, <1>15, <1>16 DEF Next, Begin, Step

\* Any number of invocations: a service left behind its image by `cluster up`
\* is about to be replaced (start_service).
THEOREM StaleIsRedeployed == Spec => []StaleHasRedeployer
<1>1. Init => StaleHasRedeployer
  BY DEF Init, StaleHasRedeployer
<1> QED BY <1>1, TypeInit, TypeStep, StaleStep, PTL DEF Spec

-----------------------------------------------------------------------------
(* Concurrent and failing commands between two `cluster down`.             *)

\* Since the launch no down has begun, and none was on its way then.
UpsInv == UpsKeepTheService /\ (kept => \A p \in Invocation : pc[p] # "stop")

LEMMA UpsStep == TypeOK /\ UpsInv /\ [Next]_vars => UpsInv'
<1> SUFFICES ASSUME TypeOK, UpsInv, [Next]_vars PROVE UpsInv'
  OBVIOUS
<1> USE DEF TypeOK, UpsInv, UpsKeepTheService, host
<1>1. ASSUME NEW p \in Invocation, NEW o \in Command, BeginBuild(p, o) PROVE UpsInv'
  BY <1>1 DEF BeginBuild, Start
<1>2. ASSUME NEW p \in Invocation, BeginStop(p) PROVE UpsInv'
  BY <1>2 DEF BeginStop, Start
<1>3. ASSUME NEW p \in Invocation, Build(p) PROVE UpsInv'
  BY <1>3 DEF Build, AfterBuild, Goto, Finish
<1>4. ASSUME NEW p \in Invocation, BuildFails(p) PROVE UpsInv'
  BY <1>4 DEF BuildFails, Finish
<1>5. ASSUME NEW p \in Invocation, RemoveOld(p) PROVE UpsInv'
  BY <1>5 DEF RemoveOld, Goto, Fault
<1>6. ASSUME NEW p \in Invocation, Launch(p) PROVE UpsInv'
  <2>1. container' \in Container
    BY <1>6 DEF Launch, Fresh, Container, Image
  <2>2. container' # None
    BY <2>1, NoneAssumption
  <2> QED BY <1>6, <2>2 DEF Launch, Finish
<1>7. ASSUME NEW p \in Invocation, LaunchConflicts(p) PROVE UpsInv'
  BY <1>7 DEF LaunchConflicts, Finish
<1>8. ASSUME NEW p \in Invocation, LaunchFails(p) PROVE UpsInv'
  BY <1>8 DEF LaunchFails, Finish, Fault
<1>9. ASSUME NEW p \in Invocation, OneShot(p) PROVE UpsInv'
  BY <1>9 DEF OneShot, Finish
<1>10. ASSUME NEW p \in Invocation, Stop(p) PROVE UpsInv'
  BY <1>10 DEF Stop, Finish
<1>11. ASSUME NEW p \in Invocation, Kill(p) PROVE UpsInv'
  BY <1>11 DEF Kill, Finish, Fault
<1>12. CASE Edit
  BY <1>12 DEF Edit
<1>13. CASE ServiceExit
  BY <1>13, NoneAssumption DEF ServiceExit, Running, Container
<1>14. CASE DockerRestart
  BY <1>14, NoneAssumption DEF DockerRestart, Container
<1>15. CASE Reboot
  BY <1>15 DEF Reboot, HostReboots, Fault
<1>16. CASE UNCHANGED vars
  BY <1>16 DEF vars
<1> QED BY <1>1, <1>2, <1>3, <1>4, <1>5, <1>6, <1>7, <1>8, <1>9, <1>10, <1>11, <1>12,
           <1>13, <1>14, <1>15, <1>16 DEF Next, Begin, Step

\* Any number of concurrent commands: the project that was brought up keeps
\* its container until a `cluster down`, or an invocation is about to create it.
THEOREM UpsNeverLoseTheService == Spec => []UpsKeepTheService
<1>1. Init => UpsInv
  BY DEF Init, UpsInv, UpsKeepTheService
<1>2. UpsInv => UpsKeepTheService
  BY DEF UpsInv
<1> QED BY <1>1, <1>2, TypeInit, TypeStep, UpsStep, PTL DEF Spec

-----------------------------------------------------------------------------
(* An invocation that no other overlaps.                                   *)

\* It is the only one, and past its build the tag names what it built.
Owns(p) == lone[p] =>
    /\ \A q \in Invocation \ {p} : pc[q] = "idle"
    /\ pc[p] \in {"rm", "run"} => image.src = ctx[p]

LoneInv == UpOkRunsItsSource /\ \A p \in Invocation : Owns(p)

LEMMA LoneStep == TypeOK /\ LoneInv /\ [Next]_vars => LoneInv'
<1> SUFFICES ASSUME TypeOK, LoneInv, [Next]_vars PROVE LoneInv'
  OBVIOUS
<1> USE DEF TypeOK, LoneInv, Owns, UpOkRunsItsSource, UpOk, host
\* A step of p ends the claims of the others, or there are no others.
<1>1. ASSUME NEW p \in Invocation, NEW o \in Command, BeginBuild(p, o) PROVE LoneInv'
  BY <1>1 DEF BeginBuild, Start
<1>2. ASSUME NEW p \in Invocation, BeginStop(p) PROVE LoneInv'
  BY <1>2 DEF BeginStop, Start
<1>3. ASSUME NEW p \in Invocation, Build(p) PROVE LoneInv'
  BY <1>3 DEF Build, AfterBuild, Goto, Finish
<1>4. ASSUME NEW p \in Invocation, BuildFails(p) PROVE LoneInv'
  BY <1>4 DEF BuildFails, Finish
<1>5. ASSUME NEW p \in Invocation, RemoveOld(p) PROVE LoneInv'
  BY <1>5 DEF RemoveOld, Goto
<1>6. ASSUME NEW p \in Invocation, Launch(p) PROVE LoneInv'
  <2>1. container' \in Container /\ container'.restart /\ (lone[p] => container'.src = ctx[p])
    BY <1>6 DEF Launch, Fresh, Container, Image
  <2>2. container' # None
    BY <2>1, NoneAssumption
  <2> QED BY <1>6, <2>1, <2>2 DEF Launch, Finish
<1>7. ASSUME NEW p \in Invocation, LaunchConflicts(p) PROVE LoneInv'
  BY <1>7 DEF LaunchConflicts, Finish
<1>8. ASSUME NEW p \in Invocation, LaunchFails(p) PROVE LoneInv'
  BY <1>8 DEF LaunchFails, Finish
<1>9. ASSUME NEW p \in Invocation, OneShot(p) PROVE LoneInv'
  BY <1>9 DEF OneShot, Finish
<1>10. ASSUME NEW p \in Invocation, Stop(p) PROVE LoneInv'
  BY <1>10 DEF Stop, Finish
<1>11. ASSUME NEW p \in Invocation, Kill(p) PROVE LoneInv'
  BY <1>11 DEF Kill, Finish
<1>12. CASE Edit
  BY <1>12 DEF Edit
<1>13. CASE ServiceExit
  <2>1. container' \in Container /\ container'.src = container.src
                               /\ container'.restart = container.restart
    BY <1>13 DEF ServiceExit, Running, Container
  <2> QED BY <1>13, <2>1, NoneAssumption DEF ServiceExit
<1>14. CASE DockerRestart
  <2>1. container' \in Container /\ container'.src = container.src
                               /\ container'.restart = container.restart
    BY <1>14 DEF DockerRestart, Container
  <2> QED BY <1>14, <2>1, NoneAssumption DEF DockerRestart
<1>15. CASE Reboot
  <2>1. \/ container = None
        \/ /\ container' \in Container
           /\ container'.src = container.src
           /\ container'.restart = container.restart
    BY <1>15 DEF Reboot, HostReboots, Running, Container
  <2> QED BY <1>15, <2>1, NoneAssumption DEF Reboot, HostReboots
<1>16. CASE UNCHANGED vars
  BY <1>16 DEF vars
<1> QED BY <1>1, <1>2, <1>3, <1>4, <1>5, <1>6, <1>7, <1>8, <1>9, <1>10, <1>11, <1>12,
           <1>13, <1>14, <1>15, <1>16 DEF Next, Begin, Step

\* Whatever overlapped, failed or was killed before: a `cluster up` that no
\* other command overlaps and that reports success runs the source it was given.
THEOREM UpOkIsCurrent == Spec => []UpOkRunsItsSource
<1>1. Init => LoneInv
  BY DEF Init, LoneInv, Owns, UpOkRunsItsSource, UpOk
<1>2. LoneInv => UpOkRunsItsSource
  BY DEF LoneInv
<1> QED BY <1>1, <1>2, LoneStep, TypeInit, TypeStep, PTL DEF Spec

-----------------------------------------------------------------------------
(* ContainerService implements Deployment.                                 *)

tag == IF image = None THEN None ELSE image.src
deployed == IF container = None THEN None ELSE container.src

LEMMA DeploymentStep ==
    TypeOK /\ TypeOK' /\ [Next]_vars => [Deployed!Next]_<<tag, deployed>>
<1> SUFFICES ASSUME TypeOK, TypeOK', [Next]_vars
             PROVE  [Deployed!Next]_<<tag, deployed>>
  OBVIOUS
<1> USE DEF tag, deployed
<1>1. tag' \in Deployed!Maybe
  BY DEF TypeOK, Image, Deployed!Maybe
<1>2. deployed' = deployed \/ deployed' = None \/ deployed' = tag'
  <2> USE DEF TypeOK, Container, Image, host
  <2>1. ASSUME NEW p \in Invocation, Begin(p) PROVE deployed' = deployed
    BY <2>1 DEF Begin, BeginBuild, BeginStop
  <2>2. ASSUME NEW p \in Invocation, Build(p) \/ BuildFails(p) PROVE deployed' = deployed
    BY <2>2 DEF Build, BuildFails
  <2>3. ASSUME NEW p \in Invocation, RemoveOld(p) \/ Stop(p)
        PROVE deployed' \in {deployed, None}
    BY <2>3 DEF RemoveOld, Stop
  <2>4. ASSUME NEW p \in Invocation, Launch(p) \/ LaunchFails(p)
        PROVE deployed' \in {None, tag'}
    <3>1. image # None /\ image' = image
      BY <2>4 DEF Launch, LaunchFails
    <3>2. container' = None \/ container'.src = image.src
      <4>1. \A st : Fresh(image.src, st).src = image.src
        BY DEF Fresh
      <4> HIDE DEF TypeOK, Container
      <4> QED BY <2>4, <4>1 DEF Launch, LaunchFails
    <3> QED BY <3>1, <3>2
  <2>5. ASSUME NEW p \in Invocation, LaunchConflicts(p) \/ OneShot(p) \/ Kill(p)
        PROVE deployed' = deployed
    BY <2>5 DEF LaunchConflicts, OneShot, Kill
  <2>6. CASE Edit
    BY <2>6 DEF Edit
  <2>7. CASE ServiceExit
    BY <2>7, NoneAssumption DEF ServiceExit, Running
  <2>8. CASE DockerRestart
    BY <2>8, NoneAssumption DEF DockerRestart
  <2>9. CASE Reboot
    BY <2>9, NoneAssumption DEF Reboot, HostReboots, Running
  <2>10. CASE UNCHANGED vars
    BY <2>10 DEF vars
  <2> QED BY <2>1, <2>2, <2>3, <2>4, <2>5, <2>6, <2>7, <2>8, <2>9, <2>10 DEF Next, Step
<1> QED BY <1>1, <1>2
        DEF Deployed!Next, Deployed!Keep, Deployed!Retire, Deployed!Launch

\* What is deployed only changes to nothing or to what the tag names.
THEOREM Implements == Spec => ImplementsDeployment
<1>1. Init => Deployed!Init
  BY DEF Init, Deployed!Init
<1> QED BY <1>1, DeploymentStep, TypeInit, TypeStep, PTL
        DEF Spec, ImplementsDeployment, Deployed!Spec, tag, deployed
=============================================================================
