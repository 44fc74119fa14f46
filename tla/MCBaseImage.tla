---------------------------- MODULE MCBaseImage ----------------------------
(* BaseImage for TLC: two processes on one host, and one more host.       *)
EXTENDS BaseImage, TLC

CONSTANTS p1, p2, h1, h2

MCHostOf == (p1 :> h1) @@ (p2 :> h1)
MCArchOf == (h1 :> "amd64") @@ (h2 :> "amd64")
MCCuda == {<<12, 9, 1>>, <<12, 10, 0>>, <<13, 0, 0>>}
MCManifests == {Arch, {"arm64"}}
MCRegistries ==
    {<<[version |-> None, archs |-> Arch]>>,
     <<[version |-> <<12, 9, 1>>, archs |-> Arch],
       [version |-> None, archs |-> Arch],
       [version |-> <<12, 10, 0>>, archs |-> Arch]>>}
Symmetry == Permutations(Process)
=============================================================================
