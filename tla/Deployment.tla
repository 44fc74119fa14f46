----------------------------- MODULE Deployment -----------------------------
(***************************************************************************)
(* What `hostbootstrap cluster up` and `cluster down` promise about the    *)
(* one long-running thing a project owns on a host, whatever keeps it: at  *)
(* any time some version is declared to the supervisor (the docker tag,    *)
(* the unit the service manager has loaded), and the version that is       *)
(* deployed only ever changes to nothing or to the declared one.  A        *)
(* version that was replaced never comes back by itself.                   *)
(*                                                                         *)
(* ContainerService and Units implement it.                                *)
(***************************************************************************)
CONSTANTS Version,   \* what can be deployed
          None       \* not a version

VARIABLES declared,  \* the version a (re)start would take, or None
          live       \* the version deployed, or None

Maybe == Version \cup {None}

Init == declared = None /\ live = None

\* What is deployed stays as it is.
Keep == live' = live

\* What is deployed stops, for good or until the next Launch.
Retire == live' = None

\* The declared version is deployed, in place of another one or of none.
Launch == live' = declared'

\* Any of them may come with a new declaration.
Next == declared' \in Maybe /\ (Keep \/ Retire \/ Launch)

Spec == Init /\ [][Next]_<<declared, live>>
=============================================================================
