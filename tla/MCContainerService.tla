------------------------ MODULE MCContainerService ------------------------
(* ContainerService for TLC: invocations are interchangeable, and source   *)
(* versions are the naturals up to MaxEdits.                                *)
EXTENDS ContainerService, TLC

Interchangeable == Permutations(Invocation)
=============================================================================
