------------------------------ MODULE RunStates ------------------------------
(***************************************************************************)
(* The vocabulary shared by every module: the lifecycle states of a run,   *)
(* the sentinels a worker may put in its heartbeat file, and the heartbeat *)
(* file itself, reduced to what the engine reads from it: nothing yet,     *)
(* some line, or the first terminal sentinel of its tail.                  *)
(***************************************************************************)
EXTENDS Integers

Terminal == {"completed", "failed", "auth_or_launch_failed", "abandoned"}

InFlight == {"claimed", "running", "stalled"}

RunState == {"queued"} \cup InFlight \cup Terminal

TerminalHb == {"COMPLETED", "FAILED", "ABANDONED"}

\* "none": no line; "beat": STARTING or IN_PROGRESS lines only.
Heartbeat == {"none", "beat"} \cup TerminalHb

\* Appending a line.  The scan of the tail takes the FIRST terminal sentinel,
\* so once one is there no later line changes what the engine sees.
AppendLine(hb, line) == IF hb \in TerminalHb THEN hb ELSE line

\* The terminal_status of a result file, and the state it stands for.
Verdict == TerminalHb \cup {"AUTH_OR_LAUNCH_FAILED"}

\* Mutant: a worker that gave up is taken for one that finished.
ReapedStateFailedOnly(sentinel) == IF sentinel = "FAILED" THEN "failed" ELSE "completed"

\* Mutant: the sentinel is stored as it stands.
ReapedStateRaw(sentinel) == sentinel

\* Where a run goes when its worker's sentinel is reaped.
ReapedState(sentinel) == IF sentinel = "COMPLETED" THEN "completed" ELSE "failed"
=============================================================================
