----------------------------- MODULE MCProcess -----------------------------
(* Process for TLC: the sizes are those of the .cfg.                       *)
EXTENDS Process
=============================================================================
