------------------------------- MODULE Process -------------------------------
(***************************************************************************)
(* process.run: every docker, systemctl, launchctl and cabal command of    *)
(* the CLI goes through it.  The child writes to two pipes of bounded      *)
(* capacity; the event loop moves what is in them to the buffers of two    *)
(* StreamReaders; two coroutines, gathered, take lines off the buffers     *)
(* until end of file; then run waits for the child.                        *)
(*                                                                         *)
(* Output is characters and newlines.  The child may leave behind a        *)
(* descendant that inherits both pipes.                                    *)
(***************************************************************************)
EXTENDS Naturals, SequencesExt

CONSTANTS
    Capacity,   \* of a pipe
    Limit,      \* longest line a StreamReader hands out (64 KiB)
    MaxOutput   \* bound: characters written to both streams

ASSUME SizesAssumption == Capacity \in Nat \ {0} /\ Limit \in Nat \ {0} /\ MaxOutput \in Nat

Stream == {"stdout", "stderr"}
Output == Seq({"char", "newline"})
Writer == {"child", "descendant"}

VARIABLES
    writers,  \* processes that hold the write ends
    writing,  \* what a writer is blocked in: a stream, or "none"
    pipe,     \* in the kernel
    buffer,   \* in the StreamReaders
    lines,    \* captured: the lines, joined
    drain,    \* the two coroutines
    caller,   \* run itself
    wrote     \* history: everything written

vars == <<writers, writing, pipe, buffer, lines, drain, caller, wrote>>

TypeOK ==
    /\ writers \subseteq Writer
    /\ writing \in [Writer -> Stream \cup {"none"}]
    /\ {pipe, buffer, lines, wrote} \subseteq [Stream -> Output]
    /\ drain \in [Stream -> {"reading", "done", "failed"}]
    /\ caller \in {"spawning", "gathering", "waiting", "returned", "raised"}
    /\ \A s \in Stream : Len(pipe[s]) <= Capacity
    /\ caller \in {"waiting", "returned"} => drain = [s \in Stream |-> "done"]

Init ==
    /\ writers = {}
    /\ writing = [w \in Writer |-> "none"]
    /\ pipe = [s \in Stream |-> <<>>]
    /\ buffer = [s \in Stream |-> <<>>]
    /\ lines = [s \in Stream |-> <<>>]
    /\ drain = [s \in Stream |-> "reading"]
    /\ caller = "spawning"
    /\ wrote = [s \in Stream |-> <<>>]

-----------------------------------------------------------------------------
(* The child and its descendant.                                           *)

Spawn ==
    /\ caller = "spawning"
    /\ \/ caller' = "gathering" /\ writers' = {"child"}
       \/ caller' = "raised" /\ UNCHANGED writers     \* no such executable
    /\ UNCHANGED <<writing, pipe, buffer, lines, drain, wrote>>

Fork ==
    /\ "child" \in writers /\ writing["child"] = "none"
    /\ writers' = writers \cup {"descendant"}
    /\ UNCHANGED <<writing, pipe, buffer, lines, drain, caller, wrote>>

BeginWrite(w, s) ==
    /\ w \in writers /\ writing[w] = "none"
    /\ Len(wrote["stdout"]) + Len(wrote["stderr"]) < MaxOutput
    /\ writing' = [writing EXCEPT ![w] = s]
    /\ UNCHANGED <<writers, pipe, buffer, lines, drain, caller, wrote>>

\* A write to a full pipe blocks.
Write(w, s, c) ==
    /\ writing[w] = s /\ Len(pipe[s]) < Capacity
    /\ writing' = [writing EXCEPT ![w] = "none"]
    /\ pipe' = [pipe EXCEPT ![s] = Append(@, c)]
    /\ wrote' = [wrote EXCEPT ![s] = Append(@, c)]
    /\ UNCHANGED <<writers, buffer, lines, drain, caller>>

Exit(w) ==
    /\ w \in writers /\ writing[w] = "none"
    /\ writers' = writers \ {w}
    /\ UNCHANGED <<writing, pipe, buffer, lines, drain, caller, wrote>>

-----------------------------------------------------------------------------
(* The event loop and the coroutines.                                      *)

Alive == caller \in {"gathering", "waiting"}

\* The transport stops reading a pipe when its buffer is over twice the limit.
Feed(s) ==
    /\ Alive /\ pipe[s] # <<>> /\ Len(buffer[s]) <= 2 * Limit
    /\ buffer' = [buffer EXCEPT ![s] = @ \o pipe[s]]
    /\ pipe' = [pipe EXCEPT ![s] = <<>>]
    /\ UNCHANGED <<writers, writing, lines, drain, caller, wrote>>

Eof(s) == writers = {} /\ pipe[s] = <<>>

\* Where the first line of the buffer ends; past its end if nowhere.
LineEnd(s) ==
    IF Contains(buffer[s], "newline")
    THEN SelectInSeq(buffer[s], LAMBDA c : c = "newline")
    ELSE Len(buffer[s]) + 1

\* Mutant: stderr is drained once stdout is.
ReadingInTurn(s) ==
    /\ caller = "gathering" /\ drain[s] = "reading"
    /\ s = "stderr" => drain["stdout"] = "done"

Reading(s) == caller = "gathering" /\ drain[s] = "reading"

ReadLine(s) ==
    /\ Reading(s)
    /\ LineEnd(s) <= Len(buffer[s]) /\ LineEnd(s) - 1 <= Limit
    /\ lines' = [lines EXCEPT ![s] = @ \o SubSeq(buffer[s], 1, LineEnd(s))]
    /\ buffer' = [buffer EXCEPT ![s] = SubSeq(@, LineEnd(s) + 1, Len(@))]
    /\ UNCHANGED <<writers, writing, pipe, drain, caller, wrote>>

\* Mutant: what follows the last newline is not a line.
ReadWholeLinesOnly(s) ==
    /\ Reading(s) /\ Eof(s)
    /\ LineEnd(s) > Len(buffer[s]) /\ Len(buffer[s]) <= Limit
    /\ drain' = [drain EXCEPT ![s] = "done"]
    /\ UNCHANGED <<writers, writing, pipe, buffer, lines, caller, wrote>>

\* End of file: what is left is the last line, then readline returns b"".
ReadLast(s) ==
    /\ Reading(s) /\ Eof(s)
    /\ LineEnd(s) > Len(buffer[s]) /\ Len(buffer[s]) <= Limit
    /\ lines' = [lines EXCEPT ![s] = @ \o buffer[s]]
    /\ buffer' = [buffer EXCEPT ![s] = <<>>]
    /\ drain' = [drain EXCEPT ![s] = "done"]
    /\ UNCHANGED <<writers, writing, pipe, caller, wrote>>

\* readline: a line over the limit is dropped and ValueError raised.
Overrun(s) ==
    /\ Reading(s)
    /\ LineEnd(s) - 1 > Limit
    /\ drain' = [drain EXCEPT ![s] = "failed"]
    /\ UNCHANGED <<writers, writing, pipe, buffer, lines, caller, wrote>>

\* Mutant: the first stream to end ends the gathering.
GatherFirst ==
    /\ caller = "gathering"
    /\ \E s \in Stream : drain[s] = "done"
    /\ caller' = "waiting"
    /\ UNCHANGED <<writers, writing, pipe, buffer, lines, drain, wrote>>

Gather ==
    /\ caller = "gathering"
    /\ \A s \in Stream : drain[s] = "done"
    /\ caller' = "waiting"
    /\ UNCHANGED <<writers, writing, pipe, buffer, lines, drain, wrote>>

\* gather passes the first exception on; the child is left to itself.
GatherRaises ==
    /\ caller = "gathering"
    /\ \E s \in Stream : drain[s] = "failed"
    /\ caller' = "raised"
    /\ UNCHANGED <<writers, writing, pipe, buffer, lines, drain, wrote>>

Wait ==
    /\ caller = "waiting" /\ "child" \notin writers
    /\ caller' = "returned"
    /\ UNCHANGED <<writers, writing, pipe, buffer, lines, drain, wrote>>

-----------------------------------------------------------------------------
Loop ==
    \/ \E s \in Stream : Feed(s) \/ ReadLine(s) \/ ReadLast(s) \/ Overrun(s)
    \/ Gather \/ GatherRaises \/ Wait

WriteAny(w) == \E s \in Stream, c \in {"char", "newline"} : Write(w, s, c)

Next ==
    \/ Spawn \/ Fork \/ Loop
    \/ \E w \in Writer : WriteAny(w) \/ Exit(w) \/ \E s \in Stream : BeginWrite(w, s)

Spec == Init /\ [][Next]_vars

\* The event loop runs, and no command of the CLI runs for ever.
FairSpec ==
    /\ Spec
    /\ WF_vars(Spawn) /\ WF_vars(Loop)
    /\ \A w \in Writer : WF_vars(WriteAny(w)) /\ WF_vars(Exit(w))

-----------------------------------------------------------------------------
(* Properties.                                                             *)

\* A result holds all that the child, and whatever it left behind, wrote to
\* each stream, in order, the unterminated last line included (lines 47-54).
NothingLost ==
    caller = "returned" => lines = wrote

\* run always ends: with both pipes drained at once no amount of output on
\* one stream can block the child for good (gather, lines 89-92).
RunEnds == <>(caller \in {"returned", "raised"})

\* process.py, docstring of run: "Run *cmd* asynchronously, streaming output
\* and capturing the result."  For a command that could be started.
RunCaptures == \A s \in Stream : drain[s] # "failed"
=============================================================================
