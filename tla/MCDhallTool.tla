---------------------------- MODULE MCDhallTool ----------------------------
(* DhallTool for TLC: processes and inodes are interchangeable.            *)
EXTENDS DhallTool, TLC

Interchangeable == Permutations(Process) \cup Permutations(Inode)
=============================================================================
