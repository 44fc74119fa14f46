---------------------------- MODULE Units_proofs ----------------------------
(***************************************************************************)
(* What holds of Units for any number of invocations, definitions, faults  *)
(* and crashes.                                                            *)
(***************************************************************************)
EXTENDS Units, TLAPS

LEMMA TypeInit == Init => TypeOK
<1> SUFFICES ASSUME Init PROVE TypeOK
  OBVIOUS
<1>1. lone \in [Invocation -> BOOLEAN] /\ overlap \in BOOLEAN
  BY Zenon DEF Init
<1> QED BY <1>1 DEF Init, TypeOK, StepOfSystem, Maybe, Step

LEMMA TypeStep == TypeOK /\ [Next]_vars => TypeOK'
<1> SUFFICES ASSUME TypeOK, [Next]_vars PROVE TypeOK'
  OBVIOUS
<1> USE NoneAssumption
    DEF TypeOK, StepOfSystem, Maybe, Step, host, manager, bounds, history, Goto, Finish, Fault, Crash
<1>1. ASSUME NEW p \in Invocation, BeginEnsure(p) PROVE TypeOK'
  BY <1>1 DEF BeginEnsure, Begin
<1>2. ASSUME NEW p \in Invocation, BeginRemove(p) PROVE TypeOK'
  BY <1>2 DEF BeginRemove, Begin
<1>3. ASSUME NEW p \in Invocation, Abort(p) PROVE TypeOK'
  BY <1>3 DEF Abort
<1>4. ASSUME NEW p \in Invocation, Install(p) PROVE TypeOK'
  BY <1>4 DEF Install
<1>5. ASSUME NEW p \in Invocation, Clean(p) PROVE TypeOK'
  BY <1>5 DEF Clean
<1>6. ASSUME NEW p \in Invocation, Reload(p) PROVE TypeOK'
  BY <1>6 DEF Reload
<1>7. ASSUME NEW p \in Invocation, EnableNow(p) PROVE TypeOK'
  BY <1>7 DEF EnableNow
<1>8. ASSUME NEW p \in Invocation, EnableFails(p) PROVE TypeOK'
  BY <1>8 DEF EnableFails
<1>9. ASSUME NEW p \in Invocation, BootoutOld(p) PROVE TypeOK'
  BY <1>9 DEF BootoutOld, Bootout, Stopped
<1>10. ASSUME NEW p \in Invocation, Bootstrap(p) PROVE TypeOK'
  BY <1>10 DEF Bootstrap
<1>11. ASSUME NEW p \in Invocation, BootstrapFails(p) PROVE TypeOK'
  BY <1>11 DEF BootstrapFails
<1>12. ASSUME NEW p \in Invocation, Disable(p) PROVE TypeOK'
  BY <1>12 DEF Disable
<1>13. ASSUME NEW p \in Invocation, BootoutRemoved(p) PROVE TypeOK'
  BY <1>13 DEF BootoutRemoved, Bootout, Stopped
<1>14. ASSUME NEW p \in Invocation, Delete(p) PROVE TypeOK'
  BY <1>14 DEF Delete
<1>15. ASSUME NEW p \in Invocation, Forget(p) PROVE TypeOK'
  BY <1>15 DEF Forget
<1>16. ASSUME NEW p \in Invocation, Kill(p) PROVE TypeOK'
  BY <1>16 DEF Kill
<1>17. CASE DaemonExit
  BY <1>17 DEF DaemonExit
<1>18. CASE ManagerRestart
  BY <1>18 DEF ManagerRestart
<1>19. CASE Reboot
  BY <1>19 DEF Reboot, HostReboots, StartsAtBoot
<1>20. CASE UNCHANGED vars
  BY <1>20 DEF vars
<1> QED BY <1>1, <1>2, <1>3, <1>4, <1>5, <1>6, <1>7, <1>8, <1>9, <1>10, <1>11, <1>12,
           <1>13, <1>14, <1>15, <1>16, <1>17, <1>18, <1>19, <1>20 DEF Next, Proceed

\* Every reachable state is well typed, the manager keeps no daemon running
\* that it does not count as active, and launchd keeps up what it has loaded.
THEOREM TypeCorrect == Spec => []TypeOK
BY TypeInit, TypeStep, PTL DEF Spec

-----------------------------------------------------------------------------
(* Invocations that do not overlap.                                        *)

\* The unit file is there before the daemon is, and as long as it may be.
Guarded(p) ==
    (~overlap /\ faults = 0) =>
        /\ pc[p] # "idle" => Alone(p)
        /\ pc[p] \in {"clean", "reload", "enable", "bootout", "bootstrap"} => file # None
        /\ pc[p] = "delete" => active = "inactive"

OrphanInv ==
    /\ NoOrphan
    /\ \A p \in Invocation : Guarded(p)

LEMMA OrphanStep == TypeOK /\ OrphanInv /\ [Next]_vars => OrphanInv'
<1> SUFFICES ASSUME TypeOK, OrphanInv, [Next]_vars PROVE OrphanInv'
  OBVIOUS
<1> USE NoneAssumption
    DEF Alone, TypeOK, Maybe, OrphanInv, Guarded, StepOfSystem, NoOrphan,
        host, manager, bounds, history, Goto, Finish, Fault, Crash
<1>1. ASSUME NEW p \in Invocation, BeginEnsure(p) PROVE OrphanInv'
  <2>1. PICK d \in Definition : Begin(p, "ensure", d, "install")
    BY <1>1 DEF BeginEnsure
  <2> QED BY <2>1 DEF Begin
<1>2. ASSUME NEW p \in Invocation, BeginRemove(p) PROVE OrphanInv'
  BY <1>2 DEF BeginRemove, Begin
<1>3. ASSUME NEW p \in Invocation, Abort(p) PROVE OrphanInv'
  BY <1>3 DEF Abort
<1>4. ASSUME NEW p \in Invocation, Install(p) PROVE OrphanInv'
  BY <1>4 DEF Install
<1>5. ASSUME NEW p \in Invocation, Clean(p) PROVE OrphanInv'
  BY <1>5 DEF Clean
<1>6. ASSUME NEW p \in Invocation, Reload(p) PROVE OrphanInv'
  BY <1>6 DEF Reload
<1>7. ASSUME NEW p \in Invocation, EnableNow(p) PROVE OrphanInv'
  BY <1>7 DEF EnableNow
<1>8. ASSUME NEW p \in Invocation, EnableFails(p) PROVE OrphanInv'
  BY <1>8 DEF EnableFails
<1>9. ASSUME NEW p \in Invocation, BootoutOld(p) PROVE OrphanInv'
  BY <1>9 DEF BootoutOld, Bootout, Stopped
<1>10. ASSUME NEW p \in Invocation, Bootstrap(p) PROVE OrphanInv'
  BY <1>10 DEF Bootstrap
<1>11. ASSUME NEW p \in Invocation, BootstrapFails(p) PROVE OrphanInv'
  BY <1>11 DEF BootstrapFails
<1>12. ASSUME NEW p \in Invocation, Disable(p) PROVE OrphanInv'
  BY <1>12 DEF Disable
<1>13. ASSUME NEW p \in Invocation, BootoutRemoved(p) PROVE OrphanInv'
  BY <1>13 DEF BootoutRemoved, Bootout, Stopped
<1>14. ASSUME NEW p \in Invocation, Delete(p) PROVE OrphanInv'
  BY <1>14 DEF Delete
<1>15. ASSUME NEW p \in Invocation, Forget(p) PROVE OrphanInv'
  BY <1>15 DEF Forget
<1>16. ASSUME NEW p \in Invocation, Kill(p) PROVE OrphanInv'
  BY <1>16 DEF Kill
<1>17. CASE DaemonExit
  BY <1>17 DEF DaemonExit
<1>18. CASE ManagerRestart
  BY <1>18 DEF ManagerRestart
<1>19. CASE Reboot
  BY <1>19 DEF Reboot, HostReboots, StartsAtBoot
<1>20. CASE UNCHANGED vars
  BY <1>20 DEF vars
<1> QED BY <1>1, <1>2, <1>3, <1>4, <1>5, <1>6, <1>7, <1>8, <1>9, <1>10, <1>11, <1>12,
           <1>13, <1>14, <1>15, <1>16, <1>17, <1>18, <1>19, <1>20 DEF Next, Proceed

\* Unless invocations overlapped or an ignored command failed, no daemon
\* outlives the unit file that is needed to stop it, wherever invocations are
\* killed.
THEOREM NeverOrphaned == Spec => []NoOrphan
<1>1. Init => OrphanInv
  BY DEF Init, OrphanInv, NoOrphan, Guarded
<1>2. OrphanInv => NoOrphan
  BY DEF OrphanInv
<1> QED BY <1>1, <1>2, TypeInit, TypeStep, OrphanStep, PTL DEF Spec

-----------------------------------------------------------------------------
(* The unit file and the manager's definition under any interleaving.      *)

LEMMA ReloadStep ==
    TypeOK /\ StaleDefinitionHasReloader /\ OrphanInv /\ [Next]_vars
        => StaleDefinitionHasReloader'
<1> SUFFICES ASSUME TypeOK, StaleDefinitionHasReloader, OrphanInv, [Next]_vars PROVE StaleDefinitionHasReloader'
  OBVIOUS
<1> USE NoneAssumption
    DEF Alone, TypeOK, Maybe, StepOfSystem, StaleDefinitionHasReloader,
        host, manager, bounds, history, Goto, Finish, Fault, Crash
<1>0. ASSUME NEW p \in Invocation, faults = 0, ~overlap
      PROVE  /\ pc[p] = "bootout" => file # None
             /\ pc[p] = "delete" => active = "inactive"
  BY <1>0 DEF OrphanInv, Guarded
<1>1. ASSUME NEW p \in Invocation, BeginEnsure(p) PROVE StaleDefinitionHasReloader'
  BY <1>1 DEF BeginEnsure, Begin
<1>2. ASSUME NEW p \in Invocation, BeginRemove(p) PROVE StaleDefinitionHasReloader'
  BY <1>2 DEF BeginRemove, Begin
<1>3. ASSUME NEW p \in Invocation, Abort(p) PROVE StaleDefinitionHasReloader'
  BY <1>3 DEF Abort
<1>4. ASSUME NEW p \in Invocation, Install(p) PROVE StaleDefinitionHasReloader'
  BY <1>4 DEF Install
<1>5. ASSUME NEW p \in Invocation, Clean(p) PROVE StaleDefinitionHasReloader'
  BY <1>5 DEF Clean
<1>6. ASSUME NEW p \in Invocation, Reload(p) PROVE StaleDefinitionHasReloader'
  BY <1>6 DEF Reload
<1>7. ASSUME NEW p \in Invocation, EnableNow(p) PROVE StaleDefinitionHasReloader'
  BY <1>7 DEF EnableNow
<1>8. ASSUME NEW p \in Invocation, EnableFails(p) PROVE StaleDefinitionHasReloader'
  BY <1>8 DEF EnableFails
<1>9. ASSUME NEW p \in Invocation, BootoutOld(p) PROVE StaleDefinitionHasReloader'
  BY <1>0, <1>9 DEF BootoutOld, Bootout, Stopped
<1>10. ASSUME NEW p \in Invocation, Bootstrap(p) PROVE StaleDefinitionHasReloader'
  BY <1>10 DEF Bootstrap
<1>11. ASSUME NEW p \in Invocation, BootstrapFails(p) PROVE StaleDefinitionHasReloader'
  BY <1>11 DEF BootstrapFails
<1>12. ASSUME NEW p \in Invocation, Disable(p) PROVE StaleDefinitionHasReloader'
  BY <1>12 DEF Disable
<1>13. ASSUME NEW p \in Invocation, BootoutRemoved(p) PROVE StaleDefinitionHasReloader'
  BY <1>13 DEF BootoutRemoved, Bootout, Stopped
<1>14. ASSUME NEW p \in Invocation, Delete(p) PROVE StaleDefinitionHasReloader'
  BY <1>0, <1>14 DEF Delete
<1>15. ASSUME NEW p \in Invocation, Forget(p) PROVE StaleDefinitionHasReloader'
  BY <1>15 DEF Forget
<1>16. ASSUME NEW p \in Invocation, Kill(p) PROVE StaleDefinitionHasReloader'
  BY <1>16 DEF Kill
<1>17. CASE DaemonExit
  BY <1>17 DEF DaemonExit
<1>18. CASE ManagerRestart
  BY <1>18 DEF ManagerRestart
<1>19. CASE Reboot
  BY <1>19 DEF Reboot, HostReboots, StartsAtBoot
<1>20. CASE UNCHANGED vars
  BY <1>20 DEF vars
<1> QED BY <1>1, <1>2, <1>3, <1>4, <1>5, <1>6, <1>7, <1>8, <1>9, <1>10, <1>11, <1>12,
           <1>13, <1>14, <1>15, <1>16, <1>17, <1>18, <1>19, <1>20 DEF Next, Proceed

\* Any number of invocations, on either system: where the unit file and the
\* manager differ an invocation is about to make them agree, but for the file
\* that an overlapping down deleted on launchd.
THEOREM StaleIsReloaded == Spec => []StaleDefinitionHasReloader
<1>1. Init => StaleDefinitionHasReloader /\ OrphanInv
  BY DEF Init, StaleDefinitionHasReloader, OrphanInv, NoOrphan, Guarded
<1> QED BY <1>1, TypeInit, TypeStep, OrphanStep, ReloadStep, PTL DEF Spec

-----------------------------------------------------------------------------
(* An ensure that nothing overlaps, in whatever state it finds the host.   *)

\* It is the only one, and what it has done so far is still there.
Ensuring(p) == lone[p] =>
    /\ Alone(p)
    /\ pc[p] \in {"clean", "reload", "enable", "bootout", "bootstrap"} =>
          op[p] = "ensure" /\ file = want[p]
    /\ pc[p] \in {"install", "bootout"} => op[p] = "ensure"
    /\ pc[p] \in {"disable", "delete", "forget"} => op[p] = "remove"

DurableInv ==
    /\ EnsureOkIsDurable
    /\ \A p \in Invocation : Ensuring(p)

LEMMA DurableStep == TypeOK /\ DurableInv /\ [Next]_vars => DurableInv'
<1> SUFFICES ASSUME TypeOK, DurableInv, [Next]_vars PROVE DurableInv'
  OBVIOUS
<1> USE NoneAssumption
    DEF Alone, TypeOK, Maybe, DurableInv, Ensuring, StepOfSystem, EnsureOkIsDurable, Done,
        host, manager, bounds, history, Goto, Finish, Fault, Crash
<1>1. ASSUME NEW p \in Invocation, BeginEnsure(p) PROVE DurableInv'
  <2>1. PICK d \in Definition : Begin(p, "ensure", d, "install")
    BY <1>1 DEF BeginEnsure
  <2> QED BY <2>1 DEF Begin
<1>2. ASSUME NEW p \in Invocation, BeginRemove(p) PROVE DurableInv'
  BY <1>2 DEF BeginRemove, Begin
<1>3. ASSUME NEW p \in Invocation, Abort(p) PROVE DurableInv'
  BY <1>3 DEF Abort
<1>4. ASSUME NEW p \in Invocation, Install(p) PROVE DurableInv'
  BY <1>4 DEF Install
<1>5. ASSUME NEW p \in Invocation, Clean(p) PROVE DurableInv'
  BY <1>5 DEF Clean
<1>6. ASSUME NEW p \in Invocation, Reload(p) PROVE DurableInv'
  BY <1>6 DEF Reload
<1>7. ASSUME NEW p \in Invocation, EnableNow(p) PROVE DurableInv'
  BY <1>7 DEF EnableNow
<1>8. ASSUME NEW p \in Invocation, EnableFails(p) PROVE DurableInv'
  BY <1>8 DEF EnableFails
<1>9. ASSUME NEW p \in Invocation, BootoutOld(p) PROVE DurableInv'
  BY <1>9 DEF BootoutOld, Bootout, Stopped
<1>10. ASSUME NEW p \in Invocation, Bootstrap(p) PROVE DurableInv'
  BY <1>10 DEF Bootstrap
<1>11. ASSUME NEW p \in Invocation, BootstrapFails(p) PROVE DurableInv'
  BY <1>11 DEF BootstrapFails
<1>12. ASSUME NEW p \in Invocation, Disable(p) PROVE DurableInv'
  BY <1>12 DEF Disable
<1>13. ASSUME NEW p \in Invocation, BootoutRemoved(p) PROVE DurableInv'
  BY <1>13 DEF BootoutRemoved, Bootout, Stopped
<1>14. ASSUME NEW p \in Invocation, Delete(p) PROVE DurableInv'
  BY <1>14 DEF Delete
<1>15. ASSUME NEW p \in Invocation, Forget(p) PROVE DurableInv'
  BY <1>15 DEF Forget
<1>16. ASSUME NEW p \in Invocation, Kill(p) PROVE DurableInv'
  BY <1>16 DEF Kill
<1>17. CASE DaemonExit
  BY <1>17 DEF DaemonExit
<1>18. CASE ManagerRestart
  BY <1>18 DEF ManagerRestart
<1>19. CASE Reboot
  BY <1>19 DEF Reboot, HostReboots, StartsAtBoot
<1>20. CASE UNCHANGED vars
  BY <1>20 DEF vars
<1> QED BY <1>1, <1>2, <1>3, <1>4, <1>5, <1>6, <1>7, <1>8, <1>9, <1>10, <1>11, <1>12,
           <1>13, <1>14, <1>15, <1>16, <1>17, <1>18, <1>19, <1>20 DEF Next, Proceed

\* For any number of invocations, faults and crashes: what an ensure that
\* nothing overlaps reports is so, and stays so until the next invocation.
THEOREM EnsureOkLasts == Spec => []EnsureOkIsDurable
<1>1. Init => DurableInv
  BY DEF Init, DurableInv, EnsureOkIsDurable, Done, Ensuring, Alone
<1>2. DurableInv => EnsureOkIsDurable
  BY DEF DurableInv
<1> QED BY <1>1, <1>2, TypeInit, TypeStep, DurableStep, PTL DEF Spec

-----------------------------------------------------------------------------
(* Units implements Deployment.                                            *)

LEMMA DeploymentStep ==
    TypeOK /\ TypeOK' /\ [Next]_vars => [Deployed!Next]_<<loaded, live>>
<1> SUFFICES ASSUME TypeOK, TypeOK', [Next]_vars
             PROVE  [Deployed!Next]_<<loaded, live>>
  OBVIOUS
<1>1. loaded' \in Deployed!Maybe
  BY DEF TypeOK, Maybe, Deployed!Maybe
<1>2. live' = live \/ live' = None \/ live' = loaded'
  <2> USE DEF TypeOK, host, manager
  <2>1. ASSUME NEW p \in Invocation, BeginEnsure(p) \/ BeginRemove(p) PROVE live' = live
    BY <2>1 DEF BeginEnsure, BeginRemove, Begin
  <2>2. ASSUME NEW p \in Invocation, Abort(p) \/ Install(p) \/ Clean(p) \/ Reload(p)
                                     \/ Delete(p) \/ Forget(p) \/ Kill(p)
        PROVE live' = live
    BY <2>2 DEF Abort, Install, Clean, Reload, Delete, Forget, Kill
  <2>3. ASSUME NEW p \in Invocation, EnableNow(p) \/ EnableFails(p) \/ Disable(p)
        PROVE live' \in {live, None, loaded'}
    BY <2>3 DEF EnableNow, EnableFails, Disable
  <2>4. ASSUME NEW p \in Invocation, BootoutOld(p) \/ BootoutRemoved(p)
                                     \/ Bootstrap(p) \/ BootstrapFails(p)
        PROVE live' \in {live, None, loaded'}
    BY <2>4 DEF BootoutOld, BootoutRemoved, Bootout, Stopped, Bootstrap, BootstrapFails
  <2>5. CASE DaemonExit
    BY <2>5 DEF DaemonExit
  <2>6. CASE ManagerRestart
    BY <2>6 DEF ManagerRestart
  <2>7. CASE Reboot
    BY <2>7 DEF Reboot, HostReboots
  <2>8. CASE UNCHANGED vars
    BY <2>8 DEF vars
  <2> QED BY <2>1, <2>2, <2>3, <2>4, <2>5, <2>6, <2>7, <2>8 DEF Next, Proceed
<1> QED BY <1>1, <1>2
        DEF Deployed!Next, Deployed!Keep, Deployed!Retire, Deployed!Launch

\* The daemon only ever changes to nothing or to what the manager goes by.
THEOREM Implements == Spec => ImplementsDeployment
<1>1. Init => Deployed!Init
  BY DEF Init, Deployed!Init
<1> QED BY <1>1, DeploymentStep, TypeInit, TypeStep, PTL
        DEF Spec, ImplementsDeployment, Deployed!Spec
=============================================================================
