------------------------------ MODULE MCUnits ------------------------------
(* Units for TLC: invocations and definitions are interchangeable.         *)
EXTENDS Units, TLC

Interchangeable == Permutations(Invocation) \cup Permutations(Definition)
=============================================================================
