# A verification of arunner

arunner runs a batch of agent and shell jobs from a directory of files. Nothing
of it stays in memory between two *ticks*: a tick loads `harness_status.json`,
applies what the operator and chats have left in the run directory, looks at
the heartbeat file of every job, decides, writes the status back and hands out
the jobs to launch. This directory holds TLA+ models of that engine, the TLC
runs that check them and TLAPS proofs of the most important invariants.

Source paths are below `src/arunner/`; `tick.py`, `ticker.py`, `heartbeat.py`
are in `src/arunner/engine/`.

## 1. The system

| component | state it keeps | operations | what makes it correct |
|---|---|---|---|
| tick engine (`tick.py`, `tick`, `_advance`, `_dispatch`) | `harness_status.json`: per run a state, attempts, claim time; `queue/`, `claimed/`, `results/` | reap a sentinel, fail a dead PID, fail a launch, mark stalled or running, reclaim, requeue, claim | a run ends once, its result precedes its state, nothing runs twice, the pool is respected, every run ends |
| heartbeat protocol (`heartbeat.py`, `_hb_observe`) | one append-only file per run | append STARTING / IN_PROGRESS / a terminal line; scan the tail | the first sentinel decides |
| retry and reclaim (`_maybe_retry`, `_requeue_for_retry`, `_reclaim_stalled`) | `attempts`, `retry_not_before` | clear an attempt's files and queue again | at most `max_attempts` launches |
| done_check (`_done_check_satisfied`) | `done_checked` | skip a job whose target is complete | a skip is recorded like a completion |
| control files (`_apply_controls`) | `PAUSE RESUME POOL CANCEL CADENCE POLL-NOW STOP` at the root | consumed at the start of a tick | CANCEL never revives a run, PAUSE stops dispatch only |
| ticker (`ticker.py`) | PIDs in `claimed/*.lock` | spawn the dispatch list, record PIDs, fail what cannot be spawned | spawns what was persisted, once |
| multi-step jobs (`_advance_multistep`, `_advance_judge`, `_apply_gate_outcome`) | `step_index`, `gate_pending`, step `result.json`, `gate.json` | advance a step, ask a judge, obey a gate | order, once, gates fail closed, slot kept |
| intake (`_absorb_incoming`, `_drain_inbox`, `_emit_ready_results`; `cli.py` `add`, `msg`) | `incoming/`, `inbox/`, `.processed`, `outbox/`, `plan.json` | append jobs, acknowledge, report results | idempotent, append-only numbers, true answers |
| summary (`_write_summary`) | `SUMMARY.md`, `summary.json` | written when the batch becomes done | tells the final states |
| continuation verdict and journal (`_continuation`, `_halt_reason`) | `continuation`, `journal.ndjson` | CONTINUE or HALT with a reason | `HALT:stalled` only for what the tick could not give up, done only when all is over |
| cadence (`_effective_interval`, `_next_cadence`, `_ctl_poll_now`) | `tick_interval_override`, `last_tick_wall` | minutes to the next tick, the jump threshold | a pace of its own making is never taken for a sleep, POLL-NOW is answered |
| tick lock (`_TickLock`) and the hosts around it (agent session, `ticker.py` loop, `--once` from cron) | `.tick.lock`, each host's dispatch list | lock, tick, launch, sleep | the ticks of all hosts are one sequence; nothing is launched twice; a safety tick ends what a dead session leaves |
| heartbeat adapters (`heartbeat.py` `wrap`, `tail`) | a child process, a log file | turn an exit status or a log line into heartbeat lines | an earned verdict, keepalives in time, a PID that shows a dead run |
| in-context queue (`incontext.py`) | an instruction folder | take the next instruction | none lost, none twice |
| plan check, jobs shorthand, status table, command line, terminal UI, demo worker | none | pure functions or display | - |

The engine never waits for a worker and never kills one; the two communicate
through files only. The hard behaviours are therefore

- a tick that dies between any two of its writes, and the next tick that has
  only the files to go by;
- workers that beat, report, hang or die between two reads of the same tick,
  and workers of an earlier attempt that live on;
- timeouts (launch grace, hard cap, stall, reclaim, backoff) whose ages a
  sleeping machine inflates;
- an `OSError` in the middle of a transition, which `tick` catches and goes on
  to persist whatever is in memory;
- files from other processes that appear half-written, twice or late;
- an adapter, its process, the ticker and the tick, which share a heartbeat, a
  log and a claim lock without any lock between them;
- several hosts that tick one run directory, of which one launches after it gave
  the lock back and another drops what it cannot launch.

## 2. Modules

    RunStates        states of a run, heartbeat contents       (extended by all)
    JobLifecycle     what a job promises: the abstract specification
    TickEngine       one tick over single-prompt jobs; implements JobLifecycle
    TickEngineProofs theorems about TickEngine
    TickEngineVerdicts  more of them: what done, completed and paused mean, and results
    TickEngineWorkers  one worker at a time, JobLifecycle implemented, tokens and pool
    Pipeline         multi-step jobs, gates and judges
    PipelineTurns    what advancing a run may write, for the proofs
    PipelineProofs   theorems about Pipeline
    Intake           live additions, messages and their answers
    IntakeProofs     theorems about Intake
    Adapters         wrap and tail between a command and its heartbeat
    AdaptersProofs   theorems about Adapters
    Hosts            several hosts, the tick lock, cadence and verdict
    HostsProofs      theorems about Hosts
    MC*              instances for TLC

**RunStates.** The seven states of a run, the three sentinels, and a heartbeat
file reduced to what `_hb_observe` and `_terminal_status_of` read of it:
nothing, some line, or the first terminal sentinel.

**JobLifecycle** is the promise seen by one job: it is queued, claimed, heard,
silent, finished, or queued again, with at most `Budget` attempts; a terminal
state is final. `TickEngine` instantiates it for every run with the *persisted*
state (`JobsFollowLifecycle`).

**TickEngine.** A tick is a sequence of atomic steps, and everything outside
interleaves with them: `CancelRun`/`ApplyControls`, then for every open run
`Observe` (the heartbeat is read) and one settling action (the decision is taken
on what was read, the PID is asked for now), then for every queued run a probe,
a claim or a pass, then `Persist`, then the spawning of the dispatch list. `pc`
and `cur` hold the place, `mem` the status in memory, `status` what is on disk.
The files of a run are a record `[queue, claimed, lock, result, hb, hbAge]`.

What a step does to these files is a *trail*, the sequence of contents they go
through. A step that completes leaves the last; a crash leaves any of them and
drops `mem`; an escaping `OSError` leaves any of the first few, keeps `mem`,
drops the dispatch list and goes straight to `Persist` (the `except` clause of
`tick`); an `OSError` that the code swallows, as it does where it removes a file or
requeues, leaves what that one write was to change and the step goes on
(`Complete`). So `_move_to_results`, `_synthesize_failure`, `_requeue_for_retry`
and the claim are each one action and still can be cut at every write.

| action | code |
|---|---|
| `CancelRun`, `ApplyControls` | `_apply_controls`, `_ctl_*` |
| `Observe` | `_hb_observe`, `_terminal_status_of` as called by `_advance` |
| `ReapTerminal`, `FailDeadPid`, `FailLaunch`, `ReclaimStalled`, `MarkStalled`, `MarkRunning`, `LeaveAlone` | the branches of `_advance`, in order |
| `PassOver`, `ProbeUnsatisfied`, `ProbeSatisfied`, `Claim` | the body of `_dispatch` |
| `Persist`, `CrashAfterSummary` | the end of `tick` |
| `LaunchSubagent`, `LoseSubagent` | the orchestrator, which may never launch |
| `SpawnShell`, `RecordPid`, `SpawnFails`, `RecordPidFails` | `_spawn_dispatches`, `_record_pid`, `_fail_entry` |
| `Beat`, `Report`, `WriteOutput`, `Hang`, `Exit` | a worker |
| `WriteControl`, `Pass`, `Crash` | operator, clock, death of the ticking process |

**Pipeline** has the same shape for multi-step jobs, with the files of a run
being its heartbeats (one for each step and each judge), step results,
`gate.json` files and entry result. A gate outcome is the number of the step the
run goes on at: `Stop` for halt and internal_error, the next step for
continue and behaviour flags, a later one for a skip.

**Intake** has a tick absorb `incoming/`, drain `inbox/`, work, answer and
persist, in that order and file by file, against senders that create a file
first and fill it later. Runs are open or over; `Work` lets any open run end,
which is what TickEngine and Pipeline do in detail.

**Adapters** follows one claimed run of a job in mode `command` or `log` with
five actors: the process, its adapter (`wrap` or `tail`), the ticker that spawns
the adapter, the tick that reads what comes of it, and the clock. `adapter` says
which statement of `_cmd_wrap` or `_cmd_tail` comes next:

| action | code |
|---|---|
| `EmitStarting`, `Launch`, `LaunchFails` | the head of `_cmd_wrap`, `_cmd_tail` |
| `WriteTemp`, `PublishTemp`, `RecordFails` | `_record_pid_in_lock` |
| `ScanLog`, `LookForSentinel`, `ProbeProcess` | the three looks of `_TailWatcher.poll`, with the process running on in between |
| `Greet`, `Beat`, `Poll`, `Wait` | `_Keepalive`, the two loops |
| `EmitTerminal`, `AdapterFault`, `Kill` | the last line; an OSError, after which the adapter is silent; a kill |
| `Spawn`, `RecordPid`, `PublishPid`, `PublishFindsNothing`, `SpawnFails`, `RecordPidFails`, `FailEntryFails` | `_spawn_dispatches`, `_record_pid`, `_fail_entry` |
| `ReadHeartbeat`, `Reap`, `Judge` | the branches of `_advance` for one run without retries |
| `WriteLine`, `TouchSentinel`, `Exit` | the process |

An exited child is a zombie (`exited`) until its adapter collects it or ends,
and `_pid_alive` takes a zombie for alive. The claim lock and its temporary file
`job-NNNNN.lock.tmp`, whose name ticker and tail share, hold one PID each.
TickEngine has the retries that Adapters leaves out, and Adapters the worker
that TickEngine takes as given.

**Hosts** takes the tick as the others model it and asks who calls it, and when.
Three hosts share a run directory: the agent session, the ticker's loop, and a
cron entry that runs `ticker --once`, the safety tick of FR-26a. A tick is cut
where another process can come in between:

| action | code |
|---|---|
| `Begin`, `BeginUnlocked`, `Skip` | `_TickLock.__enter__`, the absorbing of `incoming/`, the reading of the status; `_locked_skip_output` |
| `Work` | `tick` up to the write: controls, `_advance`, `_dispatch`, done, `_next_cadence`, `_halt_reason` |
| `Persist` | the write of the status; the end of the command an agent runs gives its lock back here |
| `Launch` | the agent's launches, after the unlock; `_spawn_dispatches`, under the lock; each drops what only the other can launch |
| `Rest`, `StopTick` | what a host does with done, stop, the verdict and the minutes it was told |
| `Die`, `Resume` | the death of a host inside its turn (the system frees its lock); the operator starting it again |
| `Give`, `Clear` | control files, blockers, a staged job |
| `Beat`, `Report`, `FallSilent`, `Pass`, `MachineSleeps` | workers and clock |

`mem[h]` is the status a tick works on, `status` what is on disk; without the
lock two of them overwrite each other, as in the code. Jobs have one attempt and
one prompt, since TickEngine and Pipeline have the rest; `Advanced` gives the
state `_advance` takes a run to, decided branch by branch in the code's order.

## 3. Properties and runs

Every run is exhaustive for its constants. Ages are counted in units that need
only tell "not past the threshold" from "past it", so thresholds are 0 and 1 and
ages saturate at 2 (`AgeCap`), which loses nothing because the engine only
compares them. Most hazards need one run of a kind and one fault; the runs that
concern the pool have two jobs and one slot. In `adapters` a keepalive is due
after 2 units and a run is stalled past 2, the tightest case in which the
keepalive still comes in time; with an interval above the threshold the property
says nothing of stalled runs (section 4). In `drain` the output of every job can be
measured, in `pipeline` that of one job of two, so that the one is reclaimed and the
other held.

| run | instance | shows |
|---|---|---|
| `crash` | 1 shell job, done_check, 2 attempts, backoff, 1 crash, 1 OSError (escaping or swallowed), 2 PAUSE or RESUME files at any moment | `TerminalHasResult`, `LaunchesCounted`, `CompletedIsEarned`, `SummaryTrue`, `OneWorkerAtATime`, `TerminalForever`, `PausedUntilResume` |
| `calm` | shell job with 2 attempts, subagent job with a done_check, one CANCEL or POOL file at any moment, no crash | `ResultMatchesState`, `TokenMatchesState`, `JobsFollowLifecycle`, `PoolRespected` |
| `drain` | shell and subagent job, 1 slot, workers hang and die, gaps up to 5 with a jump threshold of 4 | `DrainsUnlessAlwaysAsleep` (liveness) |
| `pipeline` | jobs of 3 and 1 steps, 1 slot, a shell gate that may stop, continue or skip, a judge, output of one job measurable, 1 crash | `StepsInOrder`, `NothingRunsTwice`, `EntryResultIsTrue`, `SlotsAreKept`, `FailClosed`, `EveryJobEnds` (liveness) |
| `intake` | a staged file, an order for two jobs, a CANCEL message, 1 crash, 1 message sent twice | `NothingAppliedTwice`, `RunsMatchPlan`, `RunsAreNotRenumbered`, `ResultsAreTrue`, `AppliedOrdersLand`, `EverythingIsAnswered` (liveness) |
| `adapters` | a wrapped command; tails over a child, another process, a log; 2 marker lines, a sentinel file, 1 kill, 1 OSError | `VerdictIsEarned`, `QuietNeverStalls`, `FailedCommandIsOver`, `RunEnds` (liveness) |
| `hosts` | 7 deployments, below | `LaunchedOnce`, `NothingIsUndone`, `JumpsAreSleeps`, `DoneMeansOver`, `StalledIsWedged`, `PollNowIsAnswered`, `SafetyTickRescues` (the last two liveness) |

A *deployment* says which hosts there are, which jobs are shell and measurable,
and what may happen: orders, each once, deaths of a host, sleeps of the machine,
opens of the lock file that fail. The run starts in any of those of `MCHosts`,
each with what its question needs: a session with a safety tick, a STOP and a
death (`WithSafetyTick`); a ticker alone with CADENCE and POLL-NOW (`LonePace`) or
PAUSE, RESUME and POLL-NOW (`LonePause`); a session alone with two jobs, a POOL and
a sleep (`LoneSession`) or with a blocker (`Blocked`); a ticker and a cron entry with
a job that joins late (`LateJob`) or a lock that once does not open (`BrokenLock`). All of
them at once would multiply to far more states and no new meeting of two faults
that one property is about.

Each of these properties has a mutant, an operator in the module (commented
"Mutant") that stands for a plausible bug in the code; with it in place TLC
finds the property violated. `PausedUntilResume` has two, one for each of its halves:
a dispatch that does not ask for the pause, and a pause that ends with its file.

Why the bounds are enough: an attempt beyond the second meets the same files
as the second, since a requeue leaves a run as `init_run` did but for its count;
a second crash starts from a state the first could have left; more jobs than
slots plus one only wait longer. They are small-scope arguments, not proofs; for
the properties of section 5 the bounds are gone altogether.

### Fairness

`TickEngine` and `Pipeline`: ticks recur and finish (`WF(TickStep)`; cron, the
ticker or an orchestrator calls `tick` again and again, and a tick never
blocks), time passes between them (`SF(Pass)`), and a worker does not work for
ever: it reports, dies or falls silent, and may stay silent for ever. Nothing is
assumed of the operator, nor that any worker ever reports. `Pipeline` adds that
the output of a silent step, where it can be measured, is at some point seen stale
(`SF(Reclaim(r))` for the runs in `Measurable`, the condition under which the code
reclaims). Where there is no output area or no file in it the code holds the step for
ever, so nothing is assumed there, and `EveryJobEnds` names such a step as an exception
beside the judge that never answers. `Hosts`: a host that is due begins its
tick whenever the lock is often enough free (`SF(Begin(h))`: another host's tick
may come first, but not always at the very moment this one asks), its tick goes on
until it sleeps (`WF` of its steps; `Die` may still end it), a worker reports or falls
silent, and time passes (`SF(Pass)`). A loop ticks when its minutes are over. Cron
fires at any moment of its choice, at the latest at 3 times the cadence after the
last tick, which is how README.md:234 installs it; an entry slower than the jump
threshold of 4 would suppress every stall. `Intake`: ticks recur, and a sender that
has created a file writes it. That a run ends is not assumed, since section 4 shows
one that does not: `EverythingIsAnswered` asks for the result of an order unless one
of its jobs stays open for ever. `Adapters`: the processes are scheduled, the watched
process ends one day, and time passes between two ticks (`SF(Pass)`, since every
tick that begins disables it again).

## 4. Where code and documents disagree

Five runs expect a violation. Each states one property a document or comment
claims.

- `requeue_crash` (`EveryRunEnds`): `_requeue_for_retry` undoes an attempt's
  files before the status is written. If the process dies in between, the record
  says running, the heartbeat is empty and the lock gone; no branch of
  `_advance` applies, and the run keeps its slot for ever.
- `hung_subagent` (`EveryRunEnds`): a subagent that hangs in a target whose
  output cannot be measured is never ended. The comment names the hard cap as
  backstop, but the cap asks for an empty heartbeat and the engine wrote STARTING.
- `torn_add` (`StagedJobsLand`): a tick that lists a staged file before it is
  written takes it for malformed and removes it.
- `marker_lost` (`FailureMarkerDecides`): the tail's first poll primes the
  activity matcher and its verdict is dropped, but it has consumed the log. A
  child that wrote its failure marker before and exits cleanly completes the run.
  So does one that writes the marker between the reading of the log and the
  probe of the process.
- `safety_tick` (`SubagentsAreLaunched`): a `ticker --once` that ticks before the
  session does has the engine claim the queued subagent jobs, write STARTING for
  them and persist that; then it drops them, as it launches shell workers only. The
  session finds them claimed and never launches them: they are given up as
  abandoned, or stay stalled where output cannot be measured. README.md:235
  calls safety ticks "cycle-only no-ops" and docs/VALIDATION.md:88 says that they
  "can't dispatch subagent entries".

Two more disagreements can be seen in the models but have no run. A judge given up
past the hard cap may answer after the tick died having written `gate.json`;
`_advance_judge` then writes the file anew and the failed run goes on, although
its docstring says "Verdict computed at most once, persisted, never recomputed"
(Pipeline, `JudgeAnswers` after a crash in `JudgeGivenUp`). And a job that joins a
done batch and ends in the tick that absorbs it is missing from SUMMARY, since
the persisted `done` never falls (Intake, `SummaryOf`).

Further behaviours that no document rules out, each a change of constants away:

- The heartbeat is read before the PID is asked for: a shell worker that reports
  COMPLETED and exits in between is failed or retried (1 shell job, no crash; state
  and result disagree with the worker's last word).
- A reclaimed subagent that still lives writes into the heartbeat its queued
  retry shares, and the retry becomes running without a claim, outside the pool:
  `PoolRespected` with 2 measurable subagent jobs, `MaxAttempts <- FirstTwice`,
  `Backoff = 1`.
- STARTING is written before the claim is persisted: with 1 subagent job and
  `MaxCrashes = 1` a queued run becomes stalled without ever being dispatched.
- A crash after a result was written and before the state: a late sentinel makes
  state and result differ (`ResultMatchesState` with `MaxCrashes = 1`).
- A requeue swallows the OSError that keeps the old result file in place. As a result is
  written once, the end of the next attempt leaves it: a job that its done_check then
  completes has a result that says FAILED (`ResultMatchesState` with `MaxFaults = 1`
  and no crash).
- `check_plan` compares the keepalive interval with the launch grace and not with the
  stall threshold. With a grace of 60 minutes, a threshold of 5 and `keepalive_seconds`
  of 600 a plan passes and a quiet command is called stalled, although
  docs/REQUIREMENTS.md:390 has the adapter beat "at ≤ ⅓ of `stall_threshold_minutes`"
  (the stalled part of `QuietNeverStalls` without its condition, with `KeepAlive = 3`).
- A tail's child that is alive may be failed: the tail publishes the temporary
  lock file the ticker is about to publish, the ticker takes the missing file for
  a failed spawn (`PublishFindsNothing`), and a retry would run beside the child.
  `FailedCommandIsOver` is therefore stated for wrap.
- PAUSE is consumed before the status is persisted, so a crash loses the order.
- An `OSError` while the PID of a live worker is recorded is taken for a failed
  spawn, and the retry runs beside it (`NothingDoubleRuns` of TickEngine with 1
  shell job, two attempts and `MaxFaults = 1`), although README.md:43 says "nothing
  double-runs". `OneWorkerAtATime` is the weaker property that holds.
- `HALT:stalled` is given from the stall threshold on, while reclaim comes at its
  own, later one: a session that yields on the verdict leaves a run that a later
  tick would have ended. `StalledIsWedged` says what does hold.
- A STOP tick writes nothing, so a session that ends citing `HALT:stop` cites a
  verdict that is not in the journal.
- An `idle_tick_multiplier` above the jump factor of 4 makes an idle batch's own pace
  look like a sleep on every tick (`JumpsAreSleeps` with `IdleFactor = 5`), as does a
  safety tick slower than the threshold, or a CADENCE that a second host lowers
  while the first still sleeps by the old one.
- An agent session drops shell jobs as a ticker drops subagent jobs.
- A job that joins after the loop's last tick waits until somebody starts it again.

## 5. Proofs

`TickEngineProofs` proves, for every number of jobs, every mix of kinds, every
threshold, pool size and fault budget:

- `TypeCorrect`: `Spec => []TypeOK`.
- `ResultsAreDurable`: `Spec => []TerminalHasResult`. A run the persisted status
  calls terminal has its result file, wherever crashes and OSErrors fall.
- `LaunchesAreCounted`: `Spec => []LaunchesCounted`. Every worker ever launched
  was counted in the persisted status first, and `max_attempts` bounds the count.
- `TerminalStatesAreForever`: `Spec => TerminalForever`.

None of these is inductive alone. The inductive invariant is

    IInv == TypeOK /\ StatesInv /\ AttemptsInv

`StatesInv` speaks of the memory of the running tick as well as of the disk. A
run terminal in `status` has the same state in `mem`, and a run terminal in
`mem` already has its result, which is what `Persist` needs. The phases `advance`
and `settle` only hold a current run that is not terminal, and `dispatch` one
that is queued. That is what the loop guards of `_advance` and `_dispatch` give
and what a requeue, the one operation that removes a result, depends on.

`AttemptsInv` orders the three counts of every run: launches are at most the
persisted attempts, those at most the attempts in memory, those at most
`max_attempts`. A queued run has an attempt left, and a run whose launch the tick
still owes (`Owed`) has launched strictly less often than it was counted. It also
says that memory equals disk between ticks and once the tick has persisted, and
that no dispatch list outlives a tick.

The proof has one step per action of `Next` and one lemma for each shared
helper (`Perform`, `Die`, `Abort`, the loop operators), so an action's step only
says what its trail and its new record look like. The assumptions are
`PlanAssumption`, `TimeAssumption` and `FaultAssumption` of TickEngine, which TLC
evaluates in every run of that module.

`TickEngineVerdicts` goes on from that invariant:

- `SummaryIsTrue`: `Spec => []SummaryTrue`. `SummaryInv` says of a persisted done
  that every run is terminal and listed; a crash after the summary leaves a status
  from which the next tick writes the same one.
- `PauseHolds`: `Spec => PausedUntilResume`. `PausedInv` keeps the attempts of
  a paused tick at those of the disk, and no paused tick reaches the dispatch loop. That
  a pause ends by a RESUME file only is a second fact, about what each step leaves of
  the pause on disk and in memory: a crash brings back the one on disk.
- `CompletionIsEarned`: `Spec => []CompletedIsEarned`. `EarnedInv` follows the word
  COMPLETED from a worker through the heartbeat file and what the tick read of it to
  the record; the engine's own writes add none (`Silent`, one lemma for each trail),
  and a worker that has spoken is no longer at work, so its word is never taken back.
- `ResultsTellTheState`: where `MaxCrashes = 0` and `MaxFaults = 0`, `Spec =>
  []ResultMatchesState`, whatever is measured, reclaimed, retried or cancelled. `ToldInv`
  says it of the memory of the tick at each of its steps. The proof goes by one lemma
  about a step, `Footprint`: it acts on one run at most, and ends it with a result that
  tells so, returns it to `queue/` without one, turns it with its heartbeat, starts it
  in a free slot, records a PID, or leaves its state and its books (job file, lock,
  result) alone. The next theorems about tokens and pool use the same lemma.

Both hypotheses are needed: a crash, or an OSError that escapes, between a result and its
state leaves a result that a late sentinel then contradicts, and an OSError that is
swallowed may leave the result of an earlier attempt (section 4).

`TickEngineWorkers` proves, for every value of the constants:

- `NothingRunsBesideItself`: `Spec => []OneWorkerAtATime`. `Lone` says of a run what
  the engine reads before it launches again: only its last worker may be at work, a
  recorded PID is that worker's, a terminal line means that nobody is at work, and
  while a launch may still come, of the disk, of memory or of the dispatch list,
  there is neither worker nor PID nor line. It is claimed of runs whose output
  cannot be measured, and until an OSError has been met: a reclaimed worker may live on.
- `EngineImplementsLifecycle`: where `Calm` (no crashes, no OSErrors, nothing
  measurable), `Spec => JobsFollowLifecycle`. The persisted status skips what happens
  within a tick, so `LifeInv` says that a record in memory is one turn away from the
  one on disk (`TakesTurn`: a step of the lifecycle, or advance and claim as one), and
  untouched until the loop of `_advance` reaches it; that a queued run has no heartbeat
  line, so that it is never taken for running, needs `Lone` again.
- `TokensFollowTheState`: where `Calm`, `Spec => []TokenMatchesState`. `FiledInv` says
  it of the memory of the tick at every step, not only between ticks, and of the
  dispatch list that what is on it is still claimed, so that a PID is recorded in a
  lock that is there.
- `PoolIsRespected`: where `Calm`, `Spec => PoolRespected`. By the footprint of a step a
  run in flight is added by a claim alone, into a free slot; `PoolInv` adds that a
  tick has added none while POOL may still change the pool. The counts come from the
  library's theorems about finite sets.

None of the three conditions of `Calm` can be dropped from these three theorems: with two
jobs TLC refutes each of the properties once one crash, one OSError or measured output is
allowed. A crash after STARTING, a live worker whose PID could not be recorded, or one
that was reclaimed and lives on, all leave a queued run with a heartbeat, which the
engine then turns to running or stalled without a claim (section 4).

`AdaptersProofs` proves, for every set of jobs, log length, interval, threshold
and number of kills and OSErrors (assumption: `AdapterAssumption`, which the
`adapters` run evaluates):

- `AdapterTypeCorrect`: `Spec => []TypeOK`.
- `VerdictsAreEarned`: `Spec => []VerdictIsEarned`. An adapter decides nothing
  its job has not shown, and a run is completed on its word alone.
- `WrappedCommandsAreOver`: `Spec => []FailedCommandIsOver`.
- `QuietCommandsNeverStall`: `Spec => []QuietNeverStalls`. However quiet its command, the
  run of a living adapter is not given up as never launched, and where the keepalive
  interval is at most the stall threshold it is not stalled. That condition is part of
  the property and no assumption of the module, because `check_plan` does not ask for it.

The first needs three facts beyond types. `ProcessInv`: a process that is over
has an exit code, and a child does not run before its adapter's launch step, so
that a probe never meets an unborn one. `VerdictInv`: a verdict is the adapter's
last word, and a COMPLETED heartbeat and a completed run both rest on it.
`EvidenceStays`: exit codes, log lines and the sentinel file do not go away, so
what was earned stays earned. That the deciding line is one of the marked ones
is the minimum principle of the natural numbers (`DecisiveIsMarked`). `WrappedCommandsAreOver`
adds `CommandInv`: as long as nothing was killed and no OSError fell, a
wrapped command ends before its adapter and the lock only ever holds the
adapter's PID, so the engine cannot find it dead any sooner. `QuietCommandsNeverStall`
adds `BeatInv`: a living adapter has written since it started, and within its keepalive
interval, also in what a tick has read and not yet judged; kills and OSErrors end the
adapter and are no exception to be made.

`HostsProofs` proves, for every set of deployments, thresholds and paces
(assumptions: `DeploymentAssumption` and `NumberAssumption`, which the `hosts` run
evaluates):

- `HostsTypeCorrect`: `Spec => []TypeOK`.
- `LaunchesAreSingle`: `Spec => []LaunchedOnce`, and `NoLostUpdate`: `Spec =>
  NothingIsUndone`. As long as the lock file opens, the ticks of all hosts are one
  sequence, though the agent launches outside of it.
- `DoneFlagIsTrue`: `Spec => []DoneMeansOver`.
- `HaltStalledIsEarned`: `Spec => StalledIsWedged`.
- `LoneLoopsTellSleeps`: where `PaceIsNoJump`, `Spec => []JumpsAreSleeps`. `PaceIsNoJump`
  says that an interval, the plan's or the one of CADENCE, times the idle multiplier is
  no more than the jump threshold of that interval. It holds for every multiplier up to
  the jump factor 4 (`ModestIdleIsNoJump`), so for the default 1 of `tick.py`; section 4
  has a multiplier of 5.

The first two theorems about the lock rest on `LockedInv`, which is assumed of no
run that has met an unopenable lock file. `LockInv`: who is inside a tick holds
the lock. `MemInv`: what a tick has read is what is on disk, and what it is about to
write takes no end back and queues nothing. `OwedInv`: a job on a dispatch list was
never launched, and the status says that it was claimed, or the tick on whose list
it is will say so before it launches. That covers the agent, whose list outlives its
lock: another host's tick reads a status in which the job is no longer queued.
`StagedInv`: a staged job is not in the status, so absorbing it undoes nothing. The
next two theorems add `StallInv`, a stalled run has said something, and `DoneInv`,
which carries the done flag through the gap between decision and write. The last one
stands on `LoneInv` alone: of the only host of a run directory, the time since its last
tick and the rest of its pause are together no jump at the pace that tick has written,
so that neither POLL-NOW nor a CADENCE that comes meanwhile makes one of them.

`IntakeProofs` proves, for every set of staged files and messages, every number of
jobs they bring, and every number of crashes and resends (assumption:
`IntakeAssumption`, which the `intake` run evaluates), every safety property of
Intake but the one `torn_add` refutes:

- `IntakeTypeCorrect`: `Spec => []TypeOK`.
- `InputsOnce`: `Spec => []NothingAppliedTwice`.
- `RunsHaveTheirJobs`: `Spec => []RunsMatchPlan`, and `NumbersStay`: `Spec =>
  RunsAreNotRenumbered`.
- `ResultsAreRight`: `Spec => []ResultsAreTrue`, and `AppliedOrdersAreKept`: `Spec =>
  []AppliedOrdersLand`.

The first four rest on what a tick holds in memory. `PlanInv`: it extends the plan on
disk, and is that plan once written. `RunsInv`: every run, in memory or on disk, has
its job and the scaffold made for it; a crash between the two writes, or before them,
only leaves plan or scaffolds ahead. `OnceInv`: a staged file has jobs in the plan
only once it is gone, an order only once its id is in the ledger, and the order about
to be applied has none. `SizeInv`: an input is in the plan with all its jobs or with
none. On that base stands `OInv` for the two theorems about orders: an order is
waited for with all its jobs (`PendingInv`), what a result says was true when it was
written and stays so (`ResultInv`), and until a tick dies an applied order is waited
for, in memory or on disk, or has its result (`AckInv`).

`PipelineProofs` proves, for every set of runs, steps, gates, judges and skips and
every number of slots, crashes and silent workers (assumptions:
`PipelineAssumption`, `AgeAssumption`, and `ForwardAssumption`, that skips go
forward; the `pipeline` run evaluates them), every safety property of Pipeline:

- `PipelineTypeCorrect`: `Spec => []TypeOK`.
- `StepsGoInOrder`: `Spec => []StepsInOrder`, and `StepsRunOnce`: `Spec =>
  []NothingRunsTwice`.
- `JudgesFailClosed`: `Spec => []FailClosed`.
- `EntryResultsAreTrue`: `Spec => []EntryResultIsTrue`.
- `PoolNeverOverfull`: `Spec => []SlotsAreKept`.

None of them is inductive, because a crash leaves the files of a run ahead of the
record on disk. `IInv` therefore says of each run what is so for its files whatever
the record (`FilesIn`, `OrderIn`, `WorkersIn`), and `RecIn` says of a record, on
disk and in memory alike, that the path behind its step is done, that what has run
is behind it or is its own phase, and that the results it rests on exist. The files
only grow (`Grows`): a COMPLETED heartbeat, a skip, a passing gate and the entry
result never change, so the stale record a crash brings back still fits them.
`PipelineTurns` proves this for everything that advances a run at once: `Turned`
is what a turn may have written when the tick goes on or dies, at any of its
writes. `PoolInv` counts the runs that hold a slot, in memory and on disk.

So every type invariant, safety invariant and action property of the passing runs is
a theorem. Only model-checked is liveness, which is beyond the proof system as it
needs fairness, hence ENABLED: `DrainsUnlessAlwaysAsleep`, `EverythingIsAnswered`,
`EveryJobEnds`, `RunEnds`, `PollNowIsAnswered` and `SafetyTickRescues`.

## 6. What is abstracted or left out

- Ages replace clocks, and time passes between ticks only: a tick is short
  against every threshold. Ages nobody compares any more stop growing.
- The heartbeat tail is never longer than `TAIL_LINES` after a sentinel; PIDs are
  not reused; a heartbeat whose `stat` fails is one the next tick looks at.
- TickEngine: an OSError meets one write of a step, not several, and does not fall in
  the same step as a crash; a removal that a step tries twice fails twice. A control
  file that cannot be removed, and is therefore applied again, is left out.
- One tick at a time in every module but Hosts, which shows that the lock gives it.
- In TickEngine a STOP tick is a stutter, and CADENCE and POLL-NOW choose the time of
  the next tick, which is free there; Hosts has all three.
- ApplyControls consumes the controls after CANCEL in one step; a CANCEL file that
  appears during that step stays for the next tick.
- Hosts: minutes pass while no host ticks; what happens inside `Work` between two
  writes is TickEngine's; the cron entry fires at most once a minute; a multi-step run
  between two steps, which `_halt_reason` does not count as in flight, is left out.
- JobsFollowLifecycle, ResultMatchesState and TokenMatchesState are checked
  without crashes; section 4 says what a crash does to them.
- Pipeline: no log-mode steps (their adapter alone records a PID in a step's
  lock, so for other steps the dead-PID branch of `_advance_multistep` cannot be
  taken), no controls, done_check, clock jump or OSErrors; skips go forward
  (`ForwardAssumption`, which `check_plan` does not enforce: a skip to an earlier,
  completed step loops for ever).
- Intake: runs are open or over; of the control messages only `cancel`; the id of
  a message is the name of its file.
- Adapters: one run and no retry; time passes only while the adapter has nothing
  due, so a machine that starves it is left out; a log is the sequence of its
  marker lines; activity patterns only choose a label. PIDs are not reused.
- Not modelled: the journal, which is only written; the in-context queue, a
  selection from two folders that keeps no state (the work and its recovery are
  the agent's); and, being pure or display only, plan check, jobs shorthand, status
  table, command line, terminal UI and demo worker.

## 7. What could come next

In this order:

1. Log-mode steps in Pipeline, with the PID their adapter records, now that
   Adapters has the adapter itself.
2. A bounded heartbeat tail in RunStates (`TAIL_LINES`), and the recorded
   sentinel that scrolls out of it.
3. Multi-step runs and retries in Hosts, as the verdict sees them.
4. Proofs: what one turn of a run leaves when a tick dies, as one footprint for crashes
   too, so that the theorems under `Calm` could say what remains of them after a crash.

## 8. Running

    tlc -workers 2 -config crash.cfg MCTickEngine.tla
    tlc -workers 2 -config pipeline.cfg MCPipeline.tla
    tlc -workers 2 -config intake.cfg MCIntake.tla
    tlc -workers 2 -config adapters.cfg MCAdapters.tla
    tlc -workers 2 -config hosts.cfg MCHosts.tla
    tlapm TickEngineProofs.tla
    tlapm TickEngineVerdicts.tla
    tlapm TickEngineWorkers.tla
    tlapm AdaptersProofs.tla
    tlapm HostsProofs.tla
    tlapm IntakeProofs.tla
    tlapm PipelineTurns.tla
    tlapm PipelineProofs.tla

`crash`, `drain`, `pipeline` and `intake` take two to three minutes each, `calm` and
`hosts` about one, the others seconds; the proofs take some minutes from nothing.
