------------------------------ MODULE MCDoctor ------------------------------
(* Doctor for TLC: hosts with all the facts that their checks look at.      *)
EXTENDS Doctor

Anywhere == {"sudo", "nopasswd", "docker", "dockerd"}
MCSystems ==
    {[name |-> "Linux", machine |-> "amd64",
      facts |-> Anywhere \cup {"root", "ubuntu", "marker", "nvidia-smi", "gpu", "runtime"}],
     [name |-> "Darwin", machine |-> "arm64",
      facts |-> Anywhere \cup {"xcode", "brew", "colima", "tart", "ghcup"}],
     [name |-> "Darwin", machine |-> "amd64", facts |-> {}],
     [name |-> "Linux", machine |-> "riscv", facts |-> {"marker"}],
     [name |-> "Windows", machine |-> "amd64", facts |-> {}]}
=============================================================================
