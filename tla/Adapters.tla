------------------------------- MODULE Adapters -------------------------------
(***************************************************************************)
(* The adapters that turn any command into an arunner job: `heartbeat.py   *)
(* wrap` (mode command) runs a command as its child and reports its exit   *)
(* code, `heartbeat.py tail` (mode log) watches a log for markers, for a   *)
(* sentinel file and for the end of a process.  One claimed run: the       *)
(* ticker spawns its adapter and records a PID in the claim lock, the      *)
(* adapter tells the heartbeat file about the process, and ticks read the  *)
(* heartbeat and then ask whether the recorded PID is alive.               *)
(*                                                                         *)
(* Time passes in units well above the tail's 50 ms poll and only while    *)
(* the adapter has nothing due: a scheduler that starves it is left out.   *)
(* A log is the sequence of its complete marker lines; half a line is      *)
(* buffered until its newline, and other lines only change the label.      *)
(* Retries, stall reclaim and the pool are TickEngine's.                   *)
(***************************************************************************)
EXTENDS RunStates, Sequences, FiniteSets

CONSTANTS
    Jobs,       \* what the plan may ask for
    MaxLines,   \* how many marker lines the process may write
    KeepAlive,  \* keepalive_seconds
    Stall,      \* stall_threshold_minutes
    Grace,      \* launch_grace_minutes
    MaxKills,   \* how often an adapter may be killed
    MaxFaults   \* how often a file operation may raise OSError

\* wrap watches its child; tail its child, another PID, or the log alone.
Marker == {"good", "bad"}

Job == [adapter: {"wrap"}, watches: {"child"}, markers: {{}}, sentinel: {FALSE}]
         \cup [adapter: {"tail"}, watches: {"child", "pid", "log"},
               markers: SUBSET Marker, sentinel: BOOLEAN]

\* check_plan bounds the keepalive interval by the launch grace, and relates neither
\* to the stall threshold.
ASSUME AdapterAssumption ==
    /\ Jobs \subseteq Job
    /\ MaxLines \in Nat /\ MaxKills \in Nat /\ MaxFaults \in Nat
    /\ KeepAlive \in Nat \ {0} /\ Stall \in Nat /\ Grace \in Nat

VARIABLES
    job,        \* the job of this run
    process,    \* the process the adapter watches
    log, flag,  \* its log, and whether it has touched the sentinel file
    adapter,    \* what the adapter is about to do
    heard,      \* how many lines of the log the adapter has read
    primed,     \* whether the first poll is behind it
    verdict,    \* the terminal it has decided on
    heartbeat,  \* the heartbeat file
    quiet,      \* time since its last line, or since the claim
    lock, temp, \* the PID in the claim lock and in its .lock.tmp
    ticker, seen,  \* what the ticker is about to do, what it has read
    run,        \* the state of the run
    kills, faults

watched == <<process, log, flag>>
reader  == <<heard, primed, verdict>>
beats   == <<heartbeat, quiet>>
locks   == <<lock, temp>>
engine  == <<ticker, seen, run>>
budget  == <<kills, faults>>
vars    == <<job, watched, adapter, reader, beats, locks, engine, budget>>
------------------------------------------------------------------------------
AgeCap == LET Larger(a, b) == IF a > b THEN a ELSE b
          IN  Larger(Larger(Stall, Grace), KeepAlive) + 1

Pid == {"none", "adapter", "process"}

Unseen == [any |-> FALSE, age |-> 0]

TypeOK ==
    /\ job \in Jobs
    /\ process \in [state: {"unborn", "running", "exited", "gone"}, code: {"none", "ok", "bad"}]
    /\ log \in Seq(Marker) /\ flag \in BOOLEAN
    /\ adapter \in {"unborn", "starting", "launching", "locking", "publishing", "scanning",
                    "looking", "probing", "greeting", "beating", "resting", "ending", "gone"}
    /\ heard \in 0..Len(log) /\ primed \in BOOLEAN
    /\ verdict \in {"none", "COMPLETED", "FAILED"}
    /\ heartbeat \in Heartbeat /\ quiet \in 0..AgeCap
    /\ lock \in Pid /\ temp \in Pid
    /\ ticker \in {"spawning", "writing", "publishing", "reading", "judging"}
    /\ seen \in [any: BOOLEAN, age: 0..AgeCap]
    /\ run \in RunState
    /\ kills \in 0..MaxKills /\ faults \in 0..MaxFaults

\* A process that is not the adapter's child may have begun long ago.
Init ==
    /\ job \in Jobs
    /\ process = [state |-> IF job.watches = "child" THEN "unborn" ELSE "running",
                  code |-> "none"]
    /\ log = <<>> /\ flag = FALSE
    /\ adapter = "unborn" /\ heard = 0 /\ primed = FALSE /\ verdict = "none"
    /\ heartbeat = "none" /\ quiet = 0
    /\ lock = "none" /\ temp = "none"
    /\ ticker = "spawning" /\ seen = Unseen /\ run = "claimed"
    /\ kills = MaxKills /\ faults = MaxFaults
------------------------------------------------------------------------------
(* The process *)

WriteLine(m) ==
    /\ process.state = "running" /\ Len(log) < MaxLines
    /\ log' = Append(log, m)
    /\ UNCHANGED <<job, process, flag, adapter, reader, beats, locks, engine, budget>>

TouchSentinel ==
    /\ process.state = "running" /\ job.sentinel /\ flag' = TRUE
    /\ UNCHANGED <<job, process, log, adapter, reader, beats, locks, engine, budget>>

\* A child stays a zombie, alive to a signal-0 probe, while its parent lives and
\* has not collected it.
Exit(code) ==
    /\ process.state = "running"
    /\ process' = [code |-> code,
                   state |-> IF job.watches = "child" /\ adapter # "gone" THEN "exited"
                                                                          ELSE "gone"]
    /\ UNCHANGED <<job, log, flag, adapter, reader, beats, locks, engine, budget>>
------------------------------------------------------------------------------
(* The adapter *)

Collected == IF process.state = "exited" THEN [process EXCEPT !.state = "gone"] ELSE process

Say(line) == heartbeat' = AppendLine(heartbeat, line) /\ quiet' = 0

\* An OSError: the adapter ends without another word (E6); its child does not.
Collapse ==
    /\ faults > 0 /\ faults' = faults - 1
    /\ adapter' = "gone" /\ process' = Collected
    /\ UNCHANGED <<job, log, flag, reader, beats, engine, kills>>

EmitStarting ==
    /\ adapter = "starting" /\ Say("beat") /\ adapter' = "launching"
    /\ UNCHANGED <<job, watched, reader, locks, engine, budget>>

HasSignal == job.watches # "log" \/ job.markers # {} \/ job.sentinel

AfterLaunch == IF job.adapter = "wrap" THEN "greeting"
               ELSE IF job.watches = "log" THEN "scanning" ELSE "locking"

\* Without any signal of doneness the tail gives up (exit 64).
Launch ==
    /\ adapter = "launching"
    /\ process' = IF job.watches = "child" THEN [process EXCEPT !.state = "running"] ELSE process
    /\ adapter' = IF HasSignal THEN AfterLaunch ELSE "gone"
    /\ UNCHANGED <<job, log, flag, reader, beats, locks, engine, budget>>

LaunchFails ==
    /\ adapter = "launching" /\ job.watches = "child"
    /\ Say("FAILED") /\ adapter' = "gone"
    /\ UNCHANGED <<job, watched, reader, locks, engine, budget>>

\* _record_pid_in_lock, through the temporary name the ticker uses too.
WriteTemp ==
    /\ adapter = "locking" /\ temp' = "process" /\ adapter' = "publishing"
    /\ UNCHANGED <<job, watched, reader, beats, lock, engine, budget>>

\* Best effort: a temporary file that is no longer there is no error.
PublishTemp ==
    /\ adapter = "publishing" /\ adapter' = "scanning"
    /\ lock' = IF temp = "none" THEN lock ELSE temp
    /\ temp' = "none"
    /\ UNCHANGED <<job, watched, reader, beats, engine, budget>>

RecordFails ==
    /\ adapter \in {"locking", "publishing"} /\ adapter' = "scanning"
    /\ faults > 0 /\ faults' = faults - 1
    /\ UNCHANGED <<job, watched, reader, beats, locks, engine, kills>>

\* Mutant: a keepalive only goes out when there is output to show.
DueOnOutput == quiet >= KeepAlive /\ heard < Len(log)

Due == quiet >= KeepAlive

\* The verdict of a poll; that of the first poll, which primes the activity
\* matcher, is dropped.
Conclude(v) ==
    /\ primed' = TRUE
    /\ verdict' = IF primed THEN v ELSE "none"
    /\ adapter' = IF ~primed THEN "greeting"
                  ELSE IF v # "none" THEN "ending"
                  ELSE IF Due THEN "beating" ELSE "resting"

\* The new lines that carry a marker of the job; the first of them decides.
Marked == {i \in heard + 1 .. Len(log) : log[i] \in job.markers}

Decisive == CHOOSE i \in Marked : \A j \in Marked : i <= j

ScanLog ==
    /\ adapter = "scanning"
    /\ heard' = Len(log)
    /\ IF Marked = {}
       THEN adapter' = "looking" /\ UNCHANGED <<primed, verdict>>
       ELSE Conclude(IF log[Decisive] = "good" THEN "COMPLETED" ELSE "FAILED")
    /\ UNCHANGED <<job, watched, beats, locks, engine, budget>>

LookForSentinel ==
    /\ adapter = "looking"
    /\ IF flag THEN Conclude("COMPLETED")
               ELSE adapter' = "probing" /\ UNCHANGED <<primed, verdict>>
    /\ UNCHANGED <<job, watched, heard, beats, locks, engine, budget>>

\* Mutant: the exit code is passed on as it is.
RawVerdict(code) == code

ExitVerdict(code) == IF code = "ok" THEN "COMPLETED" ELSE "FAILED"

\* Mutant: any end is a clean one.
EndIsClean == IF job.watches = "log" \/ process.state = "running" THEN "none" ELSE "COMPLETED"

\* A clean end is presumed of a process whose exit code cannot be had.
EndVerdict ==
    IF job.watches = "log" \/ process.state = "running" THEN "none"
    ELSE IF job.watches = "child" THEN ExitVerdict(process.code) ELSE "COMPLETED"

ProbeProcess ==
    /\ adapter = "probing"
    /\ Conclude(EndVerdict) /\ process' = Collected
    /\ UNCHANGED <<job, log, flag, heard, beats, locks, engine, budget>>

Greet ==
    /\ adapter = "greeting" /\ Say("beat")
    /\ adapter' = IF job.adapter = "wrap" THEN "resting" ELSE "scanning"
    /\ UNCHANGED <<job, watched, reader, locks, engine, budget>>

Beat ==
    /\ \/ adapter = "beating"
       \/ adapter = "resting" /\ job.adapter = "wrap" /\ Due
    /\ Say("beat") /\ adapter' = "resting"
    /\ UNCHANGED <<job, watched, reader, locks, engine, budget>>

Poll ==
    /\ adapter = "resting" /\ job.adapter = "tail" /\ adapter' = "scanning"
    /\ UNCHANGED <<job, watched, reader, beats, locks, engine, budget>>

\* Mutant: nobody catches the timeout of the wait.
WaitUncaught ==
    /\ adapter = "resting" /\ job.adapter = "wrap" /\ (process.state = "exited" \/ Due)
    /\ IF process.state = "exited"
       THEN verdict' = ExitVerdict(process.code) /\ adapter' = "ending"
       ELSE adapter' = "gone" /\ UNCHANGED verdict
    /\ process' = Collected
    /\ UNCHANGED <<job, log, flag, heard, primed, beats, locks, engine, budget>>

\* proc.wait returns: the exit code alone decides.
Wait ==
    /\ adapter = "resting" /\ job.adapter = "wrap" /\ process.state = "exited"
    /\ verdict' = ExitVerdict(process.code) /\ process' = Collected
    /\ adapter' = "ending"
    /\ UNCHANGED <<job, log, flag, heard, primed, beats, locks, engine, budget>>

EmitTerminal ==
    /\ adapter = "ending" /\ Say(verdict) /\ adapter' = "gone"
    /\ process' = Collected
    /\ UNCHANGED <<job, log, flag, reader, locks, engine, budget>>

\* The steps that append a line, and wrap's opening of its capture file.
AdapterFault ==
    /\ \/ adapter \in {"starting", "greeting", "beating", "ending"}
       \/ adapter = "resting" /\ job.adapter = "wrap" /\ Due
       \/ adapter = "launching" /\ job.watches = "child"
    /\ Collapse /\ UNCHANGED locks

Kill ==
    /\ adapter \notin {"unborn", "gone"} /\ kills > 0 /\ kills' = kills - 1
    /\ adapter' = "gone" /\ process' = Collected
    /\ UNCHANGED <<job, log, flag, reader, beats, locks, engine, faults>>
------------------------------------------------------------------------------
(* The ticker and the engine *)

Open == run \notin Terminal

Spawn ==
    /\ ticker = "spawning" /\ adapter' = "starting" /\ ticker' = "writing"
    /\ UNCHANGED <<job, watched, reader, beats, locks, seen, run, budget>>

\* _fail_entry
FailEntry ==
    /\ Say("FAILED") /\ ticker' = "reading"
    /\ UNCHANGED <<job, watched, adapter, reader, locks, seen, run, kills>>

SpawnFails == ticker = "spawning" /\ FailEntry /\ UNCHANGED faults

\* _record_pid
RecordPid ==
    /\ ticker = "writing" /\ temp' = "adapter" /\ ticker' = "publishing"
    /\ UNCHANGED <<job, watched, adapter, reader, beats, lock, seen, run, budget>>

PublishPid ==
    /\ ticker = "publishing" /\ temp # "none"
    /\ lock' = temp /\ temp' = "none" /\ ticker' = "reading"
    /\ UNCHANGED <<job, watched, adapter, reader, beats, seen, run, budget>>

\* The tail has published the shared temporary file: FileNotFoundError.
PublishFindsNothing ==
    /\ ticker = "publishing" /\ temp = "none"
    /\ FailEntry /\ UNCHANGED faults

\* Not even the FAILED line can be written, which _fail_entry ignores.
FailEntryFails ==
    /\ ticker = "spawning" \/ (ticker = "publishing" /\ temp = "none")
    /\ faults > 0 /\ faults' = faults - 1 /\ ticker' = "reading"
    /\ UNCHANGED <<job, watched, adapter, reader, beats, locks, seen, run, kills>>

RecordPidFails ==
    /\ ticker \in {"writing", "publishing"}
    /\ faults > 0 /\ faults' = faults - 1 /\ FailEntry

ReadHeartbeat ==
    /\ ticker = "reading" /\ Open /\ heartbeat \notin TerminalHb
    /\ seen' = [any |-> heartbeat # "none", age |-> quiet] /\ ticker' = "judging"
    /\ UNCHANGED <<job, watched, adapter, reader, beats, locks, run, budget>>

Reap ==
    /\ ticker = "reading" /\ Open /\ heartbeat \in TerminalHb
    /\ run' = ReapedState(heartbeat)
    /\ UNCHANGED <<job, watched, adapter, reader, beats, locks, ticker, seen, budget>>

\* Mutant: whoever has ever run is alive.
OnceBorn(pid) == IF pid = "adapter" THEN adapter # "unborn" ELSE process.state # "unborn"

Alive(pid) == IF pid = "adapter" THEN adapter # "gone" ELSE process.state # "gone"

Judgement ==
    IF lock # "none" /\ ~Alive(lock) THEN "failed"
    ELSE IF ~seen.any THEN IF seen.age > Grace THEN "auth_or_launch_failed" ELSE run
    ELSE IF seen.age > Stall THEN "stalled" ELSE "running"

Judge ==
    /\ ticker = "judging" /\ run' = Judgement
    /\ ticker' = "reading" /\ seen' = Unseen
    /\ UNCHANGED <<job, watched, adapter, reader, beats, locks, budget>>
------------------------------------------------------------------------------
Idle ==
    \/ adapter \in {"unborn", "gone"}
    \/ adapter = "resting" /\ ~Due /\ ~(job.adapter = "wrap" /\ process.state = "exited")

Pass ==
    /\ ticker = "reading" /\ Open /\ Idle /\ quiet < AgeCap /\ quiet' = quiet + 1
    /\ UNCHANGED <<job, watched, adapter, reader, heartbeat, locks, engine, budget>>

ProcessStep == \/ \E m \in Marker : WriteLine(m)
               \/ TouchSentinel \/ \E code \in {"ok", "bad"} : Exit(code)

AdapterStep ==
    \/ EmitStarting \/ Launch \/ LaunchFails
    \/ WriteTemp \/ PublishTemp \/ RecordFails
    \/ ScanLog \/ LookForSentinel \/ ProbeProcess
    \/ Greet \/ Beat \/ Poll \/ Wait \/ EmitTerminal \/ AdapterFault

TickerStep ==
    \/ Spawn \/ SpawnFails \/ RecordPid \/ PublishPid \/ PublishFindsNothing
    \/ RecordPidFails \/ FailEntryFails
    \/ ReadHeartbeat \/ Reap \/ Judge

Next == ProcessStep \/ AdapterStep \/ Kill \/ TickerStep \/ Pass

Spec == Init /\ [][Next]_vars

\* Processes are scheduled, ticks recur, and the process ends one day.  Time passes
\* between two ticks and not within one: hence the strong fairness.
Fairness ==
    /\ WF_vars(AdapterStep) /\ WF_vars(TickerStep) /\ SF_vars(Pass)
    /\ WF_vars(\E code \in {"ok", "bad"} : Exit(code))

FairSpec == Spec /\ Fairness
------------------------------------------------------------------------------
(* Properties *)

Over == process.state \in {"exited", "gone"}

Says(m) == m \in job.markers /\ m \in {log[i] : i \in DOMAIN log}

Earned(v) ==
    IF v = "COMPLETED"
    THEN \/ job.watches = "child" /\ Over /\ process.code = "ok"
         \/ job.watches = "pid" /\ Over
         \/ Says("good") \/ flag
    ELSE \/ job.watches = "child" /\ Over /\ process.code = "bad"
         \/ Says("bad")

\* The adapter decides nothing its job has not shown, by its exit, a marker or the
\* sentinel file; and no run is completed on anything else than the adapter's word.
VerdictIsEarned ==
    /\ verdict # "none" => Earned(verdict)
    /\ run = "completed" => verdict = "COMPLETED"

\* FR-40: "a long-running quiet command never false-trips LAUNCH-FAIL or STALLED": the
\* first word of a living adapter reaches the engine in time, and so do its keepalives
\* where the plan asks for them at least once in a stall threshold.
QuietNeverStalls ==
    /\ run = "auth_or_launch_failed" => adapter \in {"unborn", "gone"}
    /\ KeepAlive <= Stall /\ run = "stalled" => adapter \in {"unborn", "gone"}

\* A wrapped command has ended, or never began, when its run is failed, so that a
\* retry does not run beside it; unless its adapter was killed or met an OSError.
FailedCommandIsOver ==
    /\ job.adapter = "wrap" /\ run = "failed"
    /\ kills = MaxKills /\ faults = MaxFaults
    => process.state # "running"

\* Every run whose adapter watches a process ends once that process has, also when
\* the adapter is killed or falls silent: the PID in the lock is the backstop.
RunEnds == job.watches # "log" ~> run \in Terminal

\* A failure marker the process writes before it ends decides against its clean exit.
FailureMarkerDecides ==
    job.watches = "child" /\ job.markers = {"bad"} /\ ~job.sentinel /\ run = "completed"
        => ~Says("bad")
=============================================================================
