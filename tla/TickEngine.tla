------------------------------ MODULE TickEngine ------------------------------
(***************************************************************************)
(* The arunner tick engine for single-prompt jobs: one tick reads the      *)
(* persisted status, applies the control files, advances every run from    *)
(* its heartbeat, dispatches queued runs, persists the status and spawns.  *)
(* Workers, the operator and a crash of the ticking process interleave     *)
(* with the steps of a tick.                                               *)
(*                                                                         *)
(* What is on disk: status (harness_status.json), files (queue/, claimed/, *)
(* results/ and the heartbeat of every run), control, summary.  What a     *)
(* crash loses: mem, pc, cur, seen, dispatch.                              *)
(*                                                                         *)
(* Simplifications.  Time is kept as saturating ages, which is exact since *)
(* the engine only compares ages with thresholds, and passes between ticks *)
(* only: a tick is short against every threshold.  The heartbeat tail is   *)
(* never longer than TAIL_LINES after a sentinel, PIDs are not reused, and *)
(* the display-only fields of a run record are left out.  An OSError at a  *)
(* write escapes or is swallowed as the code has it, one in each step; the *)
(* removal of an applied control file is taken to succeed.                 *)
(***************************************************************************)
EXTENDS RunStates, Sequences, FiniteSets

CONSTANTS
    NumRuns,      \* jobs in the plan; run-NN is the number NN
    Shell,        \* the runs the ticker spawns; the others are subagents
    Measurable,   \* the runs whose output area exists and holds files
    DoneCheck,    \* the runs that declare a done_check
    MaxAttempts,  \* [Runs -> positive integer]: max_attempts of each job
    PoolSize,     \* pool_size of the plan
    Sentinels,    \* the terminal sentinels workers may write
    Stall, ReclaimAfter, Grace, HardCap, Interval, Backoff,  \* thresholds
    AgeCap,       \* ages saturate here, above every threshold
    MaxGap,       \* the longest time between two ticks
    Requests,     \* the control files the operator may write
    PoolValues,   \* the values the operator may write to POOL
    MaxOrders,    \* how many control files the operator may write
    MaxCrashes,   \* how many times the ticking process may die
    MaxFaults     \* how many OSErrors may escape a transition or be swallowed by it

Runs == 1..NumRuns

ASSUME PlanAssumption ==
    /\ NumRuns \in Nat \ {0}
    /\ Shell \subseteq Runs /\ Measurable \subseteq Runs /\ DoneCheck \subseteq Runs
    /\ MaxAttempts \in [Runs -> Nat \ {0}]
    /\ PoolSize \in Nat \ {0} /\ PoolValues \subseteq Nat \ {0}
    /\ Sentinels \subseteq TerminalHb
    /\ Requests \subseteq {"CANCEL", "PAUSE", "RESUME", "POOL"}

ASSUME TimeAssumption ==
    /\ Stall \in Nat /\ ReclaimAfter \in Nat /\ Grace \in Nat /\ HardCap \in Nat
    /\ Interval \in Nat /\ Backoff \in Nat /\ AgeCap \in Nat /\ MaxGap \in Nat
    /\ Stall < AgeCap /\ ReclaimAfter < AgeCap /\ Grace < AgeCap /\ HardCap < AgeCap

ASSUME FaultAssumption == MaxOrders \in Nat /\ MaxCrashes \in Nat /\ MaxFaults \in Nat

VARIABLES
    status,     \* harness_status.json
    mem,        \* the copy of it the running tick mutates; equals status when idle
    files,      \* per run: its job file, claim lock, result file and heartbeat
    outAge,     \* per run: age of the newest file of its output area
    control,    \* the control files at the run-dir root
    summary,    \* per run: its state in summary.json, "none" before that exists
    sinceTick,  \* age of last_tick_wall
    pc, cur,    \* the phase of the tick, and the run it is at
    seen,       \* what the tick has read of the current run's heartbeat
    dispatch,   \* dispatch_list: claimed by this tick, not spawned yet
    worker,     \* per run: the worker processes launched, in order
    crashes, faults  \* how many of each may still happen

disk   == <<files, control, summary>>
tickVars == <<mem, pc, cur, seen, dispatch>>
budget == <<crashes, faults>>
vars   == <<status, files, outAge, control, summary, sinceTick, tickVars, worker, budget>>
------------------------------------------------------------------------------
(* State *)

NoAge  == -1   \* no such timestamp, or an output area that cannot be measured
NoLock == -1   \* no claim lock; 0 is a lock whose pid is null
Age    == 0..AgeCap

JumpFactor == 4
JumpGap    == JumpFactor * (IF Stall > Interval THEN Stall ELSE Interval)

RunRecord == [state: RunState, attempts: Nat, claimAge: Age, backoff: 0..Backoff,
              check: {"unchecked", "checked", "skipped"}]

Status == [run: [Runs -> RunRecord], paused: BOOLEAN, pool: Nat \ {0}, done: BOOLEAN]

RunFiles == [queue: BOOLEAN, claimed: BOOLEAN, lock: Nat \cup {NoLock},
             result: {"none"} \cup Verdict, hb: Heartbeat, hbAge: Age]

Worker == [proc: {"working", "mute", "reported", "gone"}, said: {"none"} \cup TerminalHb]

\* The control files, and how many the operator may still write (left).
Control == [cancel: 0..NumRuns, pause: BOOLEAN, resume: BOOLEAN, pool: Nat, left: Nat]

Unseen == [hb |-> "none", age |-> 0]

NoControl == [cancel |-> 0, pause |-> FALSE, resume |-> FALSE, pool |-> 0, left |-> 0]

TypeOK ==
    /\ status \in Status /\ mem \in Status
    /\ files \in [Runs -> RunFiles]
    /\ outAge \in [Runs -> Age \cup {NoAge}]
    /\ control \in Control
    /\ summary \in [Runs -> {"none"} \cup RunState]
    /\ sinceTick \in Nat \cup {NoAge}
    /\ pc \in {"idle", "control", "advance", "settle", "dispatch", "persist",
               "spawn", "record"}
    /\ cur \in Runs
    /\ seen \in [hb: Heartbeat, age: Age]
    /\ dispatch \subseteq Runs
    /\ worker \in [Runs -> Seq(Worker)]
    /\ crashes \in Nat /\ faults \in Nat

\* init_run: every job queued, its token in queue/, its heartbeat empty.
Init ==
    /\ status = [run |-> [r \in Runs |-> [state |-> "queued", attempts |-> 0, claimAge |-> 0,
                                          backoff |-> 0, check |-> "unchecked"]],
                 paused |-> FALSE, pool |-> PoolSize, done |-> FALSE]
    /\ mem = status
    /\ files = [r \in Runs |-> [queue |-> TRUE, claimed |-> FALSE, lock |-> NoLock,
                                result |-> "none", hb |-> "none", hbAge |-> 0]]
    /\ outAge = [r \in Runs |-> IF r \in Measurable THEN AgeCap ELSE NoAge]
    /\ control = [NoControl EXCEPT !.left = MaxOrders]
    /\ summary = [r \in Runs |-> "none"]
    /\ sinceTick = NoAge
    /\ pc = "idle" /\ cur = 1 /\ seen = Unseen /\ dispatch = {}
    /\ worker = [r \in Runs |-> <<>>]
    /\ crashes = MaxCrashes /\ faults = MaxFaults
------------------------------------------------------------------------------
(* Disk operations on one run, as the trail of contents its files go through. *)
(* A step that completes leaves the last; one that is interrupted, any.       *)

Final(trail) == trail[Len(trail)]

\* Mutant: the lock is left behind.
RecordResultKeepingLock(f, verdict) ==
    IF f.result # "none" THEN <<f>> ELSE <<f, [f EXCEPT !.result = verdict, !.claimed = FALSE]>>

\* A result file is written at most once; only the write that creates it goes
\* on to remove the claimed job file and then the claim lock.
RecordResult(f, verdict) ==
    IF f.result # "none" THEN <<f>>
    ELSE <<f,
           [f EXCEPT !.result = verdict],
           [f EXCEPT !.result = verdict, !.claimed = FALSE],
           [f EXCEPT !.result = verdict, !.claimed = FALSE, !.lock = NoLock]>>

\* The reap of a sentinel goes through the same contents.
MoveToResults(f, sentinel) == RecordResult(f, sentinel)

\* Mutant: a skipped job gets no result file.
SkipDoneUnrecorded(f) == <<f, [f EXCEPT !.queue = FALSE]>>

\* Mutant: the result of a skipped job carries its display marker.
SkipDoneMarked(f) == RecordResult(f, "SKIPPED")

\* A skipped job leaves queue/ as well.
SkipDone(f) ==
    LET trail == RecordResult(f, "COMPLETED")
    IN  Append(trail, [Final(trail) EXCEPT !.queue = FALSE])

\* Mutant: the failed attempt's result stays.
RequeueKeepingResult(f) ==
    <<f, [f EXCEPT !.claimed = FALSE, !.lock = NoLock, !.queue = TRUE, !.hb = "none", !.hbAge = 0]>>

\* Result, claimed leftovers, queue token, heartbeat: in this order.
Requeue(f) ==
    LET cleared == [f EXCEPT !.result = "none", !.claimed = FALSE, !.lock = NoLock]
    IN  <<f,
          [f EXCEPT !.result = "none"],
          [f EXCEPT !.result = "none", !.claimed = FALSE],
          cleared,
          [cleared EXCEPT !.queue = TRUE],
          [cleared EXCEPT !.queue = TRUE, !.hb = "none", !.hbAge = 0]>>

\* queue/ -> claimed/ and a lock without a pid, when the token is there to move.
ClaimToken(f) ==
    IF f.queue /\ ~f.claimed
    THEN <<f, [f EXCEPT !.queue = FALSE, !.claimed = TRUE],
              [f EXCEPT !.queue = FALSE, !.claimed = TRUE, !.lock = 0]>>
    ELSE <<f>>

Heard(f, line) == [f EXCEPT !.hb = AppendLine(@, line), !.hbAge = 0]
------------------------------------------------------------------------------
(* The ends a step of a tick may come to *)

\* i is the first index from `from` on whose run satisfies P.
FirstFrom(from, i, P) == i >= from /\ i \in P /\ \A j \in P : from <= j => i <= j

\* Mutant: terminal runs are advanced like the others.
OpenToo(run) == Runs

Open(run) == {r \in Runs : run[r].state \notin Terminal}

\* Mutant: a paused engine goes on dispatching.
WaitingWhilePaused == {r \in Runs : mem.run[r].state = "queued" /\ mem.run[r].backoff = 0}

\* The runs _dispatch considers; it is not called at all while paused.
Waiting == {r \in Runs : ~mem.paused /\ mem.run[r].state = "queued" /\ mem.run[r].backoff = 0}

GoToPersist == pc' = "persist" /\ cur' = 1

GoToDispatch(waiting) ==
    \/ \E r \in Runs : FirstFrom(1, r, waiting) /\ pc' = "dispatch" /\ cur' = r
    \/ waiting = {} /\ GoToPersist

\* The loop of _advance goes on at index from, then _dispatch starts.
GoToAdvance(from) ==
    \/ \E r \in Runs : FirstFrom(from, r, Open(mem'.run)) /\ pc' = "advance" /\ cur' = r
    \/ (\A r \in Open(mem'.run) : r < from) /\ GoToDispatch(Waiting')

GoOnDispatching ==
    \/ \E r \in Runs : FirstFrom(cur + 1, r, Waiting) /\ pc' = "dispatch" /\ cur' = r
    \/ (\A r \in Waiting : r <= cur) /\ GoToPersist

MoveOn == IF pc = "dispatch" THEN GoOnDispatching ELSE GoToAdvance(cur + 1)

\* The process dies: what it held in memory is lost.
Die ==
    /\ crashes > 0 /\ crashes' = crashes - 1
    /\ mem' = status /\ pc' = "idle" /\ cur' = 1 /\ seen' = Unseen /\ dispatch' = {}
    /\ UNCHANGED faults

\* An OSError reaches the except clause of tick(): the rest of the transitions
\* and the whole dispatch_list are lost, the status is persisted as it is.
Abort(run) ==
    /\ faults > 0 /\ faults' = faults - 1
    /\ mem' = [mem EXCEPT !.run = run]
    /\ pc' = "persist" /\ cur' = 1 /\ seen' = Unseen /\ dispatch' = {}
    /\ UNCHANGED crashes

\* The k-th write of the trail changes something.
Writes(trail, k) == k < Len(trail) /\ trail[k + 1] # trail[k]

\* Removals and the writes of a requeue swallow their OSErrors; the write that
\* creates a result file does not.
Swallows(trail, k) == Writes(trail, k) /\ (trail[k].result = "none" => trail[k + 1].result = "none")

\* What the trail leads to when the k-th write fails and what it was to change stays:
\* a removal that the trail tries twice fails twice.
Without(trail, k) ==
    LET Stays(old, new, last) == IF old = new THEN last ELSE old
        f == trail[k]  g == trail[k + 1]  h == Final(trail)
    IN  [queue |-> Stays(f.queue, g.queue, h.queue),
         claimed |-> Stays(f.claimed, g.claimed, h.claimed),
         lock |-> Stays(f.lock, g.lock, h.lock),
         result |-> Stays(f.result, g.result, h.result),
         hb |-> Stays(f.hb, g.hb, h.hb), hbAge |-> Stays(f.hbAge, g.hbAge, h.hbAge)]

\* The files of r go through trail to its end; an OSError at one of the writes after
\* the first `risky` ones is swallowed.
Complete(r, trail, risky) ==
    \/ files' = [files EXCEPT ![r] = Final(trail)] /\ UNCHANGED budget
    \/ /\ faults > 0 /\ faults' = faults - 1 /\ UNCHANGED crashes
       /\ \E k \in 1..Len(trail) : /\ k > risky /\ Swallows(trail, k)
                                   /\ files' = [files EXCEPT ![r] = Without(trail, k)]

\* The step of the current run that takes its files through trail and leaves rec as
\* its record; an OSError escapes from the first `risky` writes.
Perform(r, trail, risky, rec, list) ==
    /\ \/ /\ Complete(r, trail, risky)
          /\ mem' = [mem EXCEPT !.run[r] = rec]
          /\ dispatch' = list /\ seen' = Unseen /\ MoveOn
       \/ \E k \in 1..Len(trail) : files' = [files EXCEPT ![r] = trail[k]] /\ Die
       \/ \E k \in 1..risky : /\ Writes(trail, k) /\ files' = [files EXCEPT ![r] = trail[k]]
                              /\ Abort(mem.run)
    /\ UNCHANGED <<status, outAge, control, summary, sinceTick, worker>>
------------------------------------------------------------------------------
(* Start of a tick: the status is loaded (mem already equals it when idle),   *)
(* then the control files are applied in their fixed order                   *)

\* claimAge is read of a claimed run only.
Become(r, state) == [mem.run[r] EXCEPT !.state = state, !.claimAge = 0]

Cancellable == control.cancel > 0 /\ mem.run[control.cancel].state \notin Terminal

\* CANCEL on a run that is not terminal.  No try encloses the controls, so a
\* failing write ends the process like a crash does.
CancelRun ==
    /\ pc = "idle" /\ Cancellable
    /\ LET r == control.cancel
           trail == RecordResult(files[r], "ABANDONED")
       IN  \/ /\ Complete(r, trail, 1)
              /\ mem' = [mem EXCEPT !.run[r] = Become(r, "abandoned")]
              /\ control' = [control EXCEPT !.cancel = 0]
              /\ pc' = "control"
              /\ UNCHANGED <<cur, seen, dispatch>>
           \/ /\ \E k \in 1..Len(trail) : files' = [files EXCEPT ![r] = trail[k]]
              /\ Die /\ UNCHANGED control
    /\ UNCHANGED <<status, outAge, summary, sinceTick, worker>>

\* Mutant: a pause lasts as long as the PAUSE file does.
PausedByFile == control.pause /\ ~control.resume

\* PAUSE and RESUME are applied in this order, and the last one wins.
PausedNow == ~control.resume /\ (control.pause \/ mem.paused)

\* The other controls; each file is consumed as its value enters mem.
ApplyControls ==
    /\ \/ pc = "control"
       \/ pc = "idle" /\ ~Cancellable
    /\ mem' = [mem EXCEPT !.paused = PausedNow,
                          !.pool = IF control.pool > 0 THEN control.pool ELSE @]
    /\ control' = [NoControl EXCEPT !.left = control.left,
                                    !.cancel = IF pc = "control" THEN control.cancel ELSE 0]
    /\ GoToAdvance(1)
    /\ UNCHANGED <<status, files, outAge, summary, sinceTick, seen, dispatch, worker, budget>>
------------------------------------------------------------------------------
(* _advance: what the heartbeat says, then what the engine does about it *)

Observe ==
    /\ pc = "advance"
    /\ seen' = [hb |-> files[cur].hb, age |-> files[cur].hbAge]
    /\ pc' = "settle"
    /\ UNCHANGED <<status, disk, outAge, sinceTick, mem, cur, dispatch, worker, budget>>

\* Mutant: any gap longer than the interval counts as a sleep.
SuppressedByInterval == sinceTick >= Interval

Suppressed == sinceTick > JumpGap

Reported == seen.hb \in TerminalHb

\* Mutant: a recorded pid is taken for dead without asking.
PidDeadUnasked(r) == files[r].lock > 0

PidDead(r) == files[r].lock > 0 /\ worker[r][files[r].lock].proc = "gone"

LaunchLimit(r) == IF r \in Shell THEN Grace ELSE HardCap

\* Mutant: the launch grace also runs against a run that is not claimed.
NeverLaunchedAnyState(r) == seen.hb = "none" /\ mem.run[r].claimAge >= LaunchLimit(r)

NeverLaunched(r) ==
    /\ seen.hb = "none" /\ mem.run[r].state = "claimed"
    /\ mem.run[r].claimAge > LaunchLimit(r)

Quiet == seen.hb = "beat" /\ seen.age > Stall /\ ~Suppressed

OutputStale(r) == outAge[r] # NoAge /\ outAge[r] > Stall

Hung(r) == Quiet /\ seen.age > ReclaimAfter /\ OutputStale(r)

\* Mutant: one attempt too many.
RetryableOnceMore(r) == mem.run[r].attempts <= MaxAttempts[r]

Retryable(r) == mem.run[r].attempts < MaxAttempts[r]

Requeued(rec) == [rec EXCEPT !.state = "queued", !.claimAge = 0, !.check = "unchecked",
                             !.backoff = Backoff]

\* A failure that may be retried: the result just recorded is cleared again, and
\* nothing that clears it raises.
FailOrRetry(r, trail, risky) ==
    IF Retryable(r)
    THEN Perform(r, trail \o Requeue(Final(trail)), IF Len(trail) = 1 THEN 0 ELSE risky,
                 Requeued(mem.run[r]), dispatch)
    ELSE Perform(r, trail, risky, Become(r, "failed"), dispatch)

ReapTerminal(r) ==
    /\ pc = "settle" /\ r = cur /\ Reported
    /\ IF ReapedState(seen.hb) = "completed"
       THEN Perform(r, MoveToResults(files[r], seen.hb), 2, Become(r, "completed"), dispatch)
       ELSE FailOrRetry(r, MoveToResults(files[r], seen.hb), 2)

FailDeadPid(r) ==
    /\ pc = "settle" /\ r = cur /\ ~Reported /\ PidDead(r)
    /\ FailOrRetry(r, RecordResult(files[r], "FAILED"), 1)

FailLaunch(r) ==
    /\ pc = "settle" /\ r = cur /\ ~PidDead(r) /\ NeverLaunched(r)
    /\ Perform(r, RecordResult(files[r], "AUTH_OR_LAUNCH_FAILED"), 1,
               Become(r, "auth_or_launch_failed"), dispatch)

ReclaimStalled(r) ==
    /\ pc = "settle" /\ r = cur /\ ~PidDead(r) /\ Hung(r)
    /\ IF Retryable(r)
       THEN Perform(r, Requeue(files[r]), 0, Requeued(mem.run[r]), dispatch)
       ELSE Perform(r, RecordResult(files[r], "ABANDONED"), 1, Become(r, "abandoned"), dispatch)

MarkStalled(r) ==
    /\ pc = "settle" /\ r = cur /\ ~PidDead(r) /\ Quiet /\ ~Hung(r)
    /\ Perform(r, <<files[r]>>, 0, Become(r, "stalled"), dispatch)

MarkRunning(r) ==
    /\ pc = "settle" /\ r = cur /\ ~PidDead(r)
    /\ seen.hb = "beat" /\ ~Quiet /\ mem.run[r].state \in {"claimed", "stalled"}
    /\ Perform(r, <<files[r]>>, 0, Become(r, "running"), dispatch)

LeaveAlone(r) ==
    /\ pc = "settle" /\ r = cur /\ ~PidDead(r)
    /\ \/ seen.hb = "none" /\ ~NeverLaunched(r)
       \/ seen.hb = "beat" /\ ~Quiet /\ mem.run[r].state \notin {"claimed", "stalled"}
    /\ Perform(r, <<files[r]>>, 0, mem.run[r], dispatch)
------------------------------------------------------------------------------
(* _dispatch: queued runs, in the order of their names, while a slot is free *)

Occupied(run) == Cardinality({r \in Runs : run[r].state \in InFlight})

ToProbe(r) == r \in DoneCheck /\ mem.run[r].check = "unchecked"

\* Mutant: the pool is counted once, before the loop.
SlotFreeAtStart == Occupied(status.run) < mem.pool

SlotFree == Occupied(mem.run) < mem.pool

PassOver(r) ==
    /\ pc = "dispatch" /\ r = cur
    /\ ~ToProbe(r) /\ ~SlotFree
    /\ MoveOn
    /\ UNCHANGED <<status, disk, outAge, sinceTick, mem, seen, dispatch, worker, budget>>

ProbeUnsatisfied(r) ==
    /\ pc = "dispatch" /\ r = cur /\ ToProbe(r)
    /\ mem' = [mem EXCEPT !.run[r].check = "checked"]
    /\ UNCHANGED <<status, disk, outAge, sinceTick, pc, cur, seen, dispatch, worker, budget>>

\* An OSError leaves the run queued with its check spent.
ProbeSatisfied(r) ==
    /\ pc = "dispatch" /\ r = cur /\ ToProbe(r)
    /\ \/ Perform(r, SkipDone(files[r]), 0,
                  [mem.run[r] EXCEPT !.state = "completed", !.check = "skipped"], dispatch)
       \/ /\ files[r].result = "none"
          /\ Abort([mem.run EXCEPT ![r].check = "checked"])
          /\ UNCHANGED <<status, disk, outAge, sinceTick, worker>>

Claimed(rec) == [rec EXCEPT !.state = "claimed", !.claimAge = 0,
                            !.attempts = @ + 1, !.backoff = 0]

\* A subagent gets a STARTING line from the engine, a write that may silently
\* fail; a shell worker gets a prompt file, a write whose failure aborts the
\* dispatch after the record has become claimed.
Claim(r) ==
    /\ pc = "dispatch" /\ r = cur /\ ~ToProbe(r) /\ SlotFree
    /\ LET token == ClaimToken(files[r])
           started == Append(token, Heard(Final(token), "beat"))
       IN  \/ Perform(r, token, 2, Claimed(mem.run[r]), dispatch \cup {r})
           \/ /\ r \notin Shell
              /\ Perform(r, started, Len(token) - 1, Claimed(mem.run[r]), dispatch \cup {r})
           \/ /\ r \in Shell
              /\ files' = [files EXCEPT ![r] = Final(token)]
              /\ Abort([mem.run EXCEPT ![r] = Claimed(@)])
              /\ UNCHANGED <<status, outAge, control, summary, sinceTick, worker>>
------------------------------------------------------------------------------
(* Persist and spawn *)

AllTerminal(run) == \A r \in Runs : run[r].state \in Terminal

\* Mutant: SUMMARY is written only when it is missing.
SummaryDueIfMissing == AllTerminal(mem.run) /\ \E r \in Runs : summary[r] = "none"

\* SUMMARY is written on the transition into done, or when it is missing.
SummaryDue ==
    AllTerminal(mem.run) /\ (~mem.done \/ \E r \in Runs : summary[r] = "none")

NewSummary == IF SummaryDue THEN [r \in Runs |-> mem.run[r].state] ELSE summary

Persist ==
    /\ pc = "persist"
    /\ summary' = NewSummary
    /\ status' = [mem EXCEPT !.done = AllTerminal(mem.run)]
    /\ mem' = status'
    /\ sinceTick' = 0
    /\ pc' = IF dispatch = {} THEN "idle" ELSE "spawn"
    /\ UNCHANGED <<files, outAge, control, cur, seen, dispatch, worker, budget>>

\* The summary is written before the status: a crash may fall between them.
CrashAfterSummary ==
    /\ pc = "persist" /\ SummaryDue
    /\ summary' = NewSummary
    /\ Die
    /\ UNCHANGED <<status, files, outAge, control, sinceTick, worker>>

NextToSpawn(r) == pc = "spawn" /\ r \in dispatch /\ \A q \in dispatch : r <= q

Handled(r) ==
    /\ dispatch' = dispatch \ {r}
    /\ pc' = IF dispatch = {r} THEN "idle" ELSE "spawn"
    /\ cur' = 1

Launched(r) == worker' = [worker EXCEPT ![r] = Append(@, [proc |-> "working", said |-> "none"])]

\* The orchestrator launches the subagent of a dispatch entry.
LaunchSubagent(r) ==
    /\ NextToSpawn(r) /\ r \notin Shell
    /\ Launched(r) /\ Handled(r)
    /\ UNCHANGED <<status, disk, outAge, sinceTick, mem, seen, budget>>

\* The ticker skips it, or the orchestrator never launches it.
LoseSubagent(r) ==
    /\ NextToSpawn(r) /\ r \notin Shell
    /\ Handled(r)
    /\ UNCHANGED <<status, disk, outAge, sinceTick, mem, seen, worker, budget>>

SpawnShell(r) ==
    /\ NextToSpawn(r) /\ r \in Shell
    /\ Launched(r)
    /\ pc' = "record" /\ cur' = r
    /\ UNCHANGED <<status, disk, outAge, sinceTick, mem, seen, dispatch, budget>>

\* auth_check or the spawn itself fails: a FAILED line instead of a worker.
SpawnFails(r) ==
    /\ NextToSpawn(r) /\ r \in Shell
    /\ files' = [files EXCEPT ![r] = Heard(@, "FAILED")]
    /\ Handled(r)
    /\ UNCHANGED <<status, outAge, control, summary, sinceTick, mem, seen, worker, budget>>

RecordPid ==
    /\ pc = "record"
    /\ files' = [files EXCEPT ![cur].lock = Len(worker[cur])]
    /\ Handled(cur)
    /\ UNCHANGED <<status, outAge, control, summary, sinceTick, mem, seen, worker, budget>>

\* An OSError while recording the pid is taken for a spawn failure.
RecordPidFails ==
    /\ pc = "record" /\ faults > 0 /\ faults' = faults - 1
    /\ files' = [files EXCEPT ![cur] = Heard(@, "FAILED")]
    /\ Handled(cur)
    /\ UNCHANGED <<status, outAge, control, summary, sinceTick, mem, seen, worker, crashes>>

Crash ==
    /\ pc # "idle"
    /\ Die
    /\ UNCHANGED <<status, disk, outAge, sinceTick, worker>>
------------------------------------------------------------------------------
(* The world outside: workers, the operator, the clock *)

Alive(r, i) == i \in DOMAIN worker[r] /\ worker[r][i].proc = "working"

SetProc(r, i, proc) == worker' = [worker EXCEPT ![r][i].proc = proc]

Beat(r, i) ==
    /\ Alive(r, i)
    /\ files' = [files EXCEPT ![r] = Heard(@, "beat")]
    /\ UNCHANGED <<status, outAge, control, summary, sinceTick, tickVars, worker, budget>>

WriteOutput(r, i) ==
    /\ Alive(r, i) /\ r \in Measurable
    /\ outAge' = [outAge EXCEPT ![r] = 0]
    /\ UNCHANGED <<status, disk, sinceTick, tickVars, worker, budget>>

Report(r, i, sentinel) ==
    /\ Alive(r, i)
    /\ files' = [files EXCEPT ![r] = Heard(@, sentinel)]
    /\ worker' = [worker EXCEPT ![r][i] = [proc |-> "reported", said |-> sentinel]]
    /\ UNCHANGED <<status, outAge, control, summary, sinceTick, tickVars, budget>>

Hang(r, i) ==
    /\ Alive(r, i) /\ SetProc(r, i, "mute")
    /\ UNCHANGED <<status, disk, outAge, sinceTick, tickVars, budget>>

\* The death of a process matters for shell workers only: the engine cannot
\* tell a dead subagent from a hung one.
Exit(r, i) ==
    /\ r \in Shell /\ i \in DOMAIN worker[r] /\ worker[r][i].proc # "gone"
    /\ SetProc(r, i, "gone")
    /\ UNCHANGED <<status, disk, outAge, sinceTick, tickVars, budget>>

WriteControl(name) ==
    /\ name \in Requests /\ control.left > 0
    /\ \/ name = "CANCEL" /\ \E r \in Runs : control' = [control EXCEPT !.cancel = r, !.left = @ - 1]
       \/ name = "PAUSE"  /\ control' = [control EXCEPT !.pause = TRUE, !.left = @ - 1]
       \/ name = "RESUME" /\ control' = [control EXCEPT !.resume = TRUE, !.left = @ - 1]
       \/ name = "POOL"   /\ \E n \in PoolValues : control' = [control EXCEPT !.pool = n, !.left = @ - 1]
    /\ UNCHANGED <<status, files, outAge, summary, sinceTick, tickVars, worker, budget>>

Older(age) == IF age \in 0..(AgeCap - 1) THEN age + 1 ELSE age

\* Timestamps nobody compares any more stop ageing: the claim of a run that is
\* not claimed, a heartbeat that is empty or terminal, the output of a finished run.
AgedRun(rec) ==
    [rec EXCEPT !.claimAge = IF rec.state = "claimed" THEN Older(@) ELSE @,
                !.backoff = IF @ > 0 THEN @ - 1 ELSE 0]

Pass ==
    /\ pc = "idle" /\ sinceTick < MaxGap
    /\ sinceTick' = IF sinceTick = NoAge THEN NoAge ELSE sinceTick + 1
    /\ status' = [status EXCEPT !.run = [r \in Runs |-> AgedRun(status.run[r])]]
    /\ mem' = status'
    /\ files' = [r \in Runs |-> [files[r] EXCEPT !.hbAge = IF files[r].hb = "beat" THEN Older(@) ELSE @]]
    /\ outAge' = [r \in Runs |-> IF status.run[r].state \in Terminal THEN outAge[r]
                                                                     ELSE Older(outAge[r])]
    /\ UNCHANGED <<control, summary, pc, cur, seen, dispatch, worker, budget>>
------------------------------------------------------------------------------
TickStep ==
    \/ CancelRun \/ ApplyControls
    \/ Observe
    \/ \E r \in Runs :
          \/ ReapTerminal(r) \/ FailDeadPid(r) \/ FailLaunch(r) \/ ReclaimStalled(r)
          \/ MarkStalled(r) \/ MarkRunning(r) \/ LeaveAlone(r)
          \/ PassOver(r) \/ ProbeUnsatisfied(r) \/ ProbeSatisfied(r) \/ Claim(r)
          \/ LaunchSubagent(r) \/ LoseSubagent(r) \/ SpawnShell(r) \/ SpawnFails(r)
    \/ Persist \/ RecordPid \/ RecordPidFails

Interrupt == Crash \/ CrashAfterSummary

WorkerStep(r) ==
    \E i \in DOMAIN worker[r] :
        \/ Beat(r, i) \/ WriteOutput(r, i) \/ Hang(r, i) \/ Exit(r, i)
        \/ \E sentinel \in Sentinels : Report(r, i, sentinel)

Next ==
    \/ TickStep \/ Interrupt
    \/ \E r \in Runs : WorkerStep(r)
    \/ \E name \in Requests : WriteControl(name)
    \/ Pass

Spec == Init /\ [][Next]_vars

\* Ticks recur and finish, time passes between them, and no worker works for
\* ever: it reports, dies, or falls silent (and may then stay silent for ever).
Stops(r, i) ==
    Alive(r, i) /\ (Hang(r, i) \/ Exit(r, i) \/ \E s \in Sentinels : Report(r, i, s))

Fairness ==
    /\ WF_vars(TickStep) /\ SF_vars(Pass)
    /\ \A r \in Runs : \A i \in 1..MaxAttempts[r] : WF_vars(Stops(r, i))

FairSpec == Spec /\ Fairness
------------------------------------------------------------------------------
(* Properties *)

\* A terminal state is for ever: no late heartbeat, retry, CANCEL or crash takes
\* a run that harness_status.json once called terminal to another state.
TerminalForever ==
    [][\A r \in Runs : status.run[r].state \in Terminal
                        => status'.run[r].state = status.run[r].state]_vars

\* A run is terminal only once its result file is on disk, wherever a crash
\* or an escaping OSError fell (status is persisted after the results).
TerminalHasResult ==
    \A r \in Runs : status.run[r].state \in Terminal => files[r].result # "none"

\* Idempotent dispatch: every worker process ever launched was first counted
\* as an attempt in the persisted status, and max_attempts bounds them all.
LaunchesCounted ==
    \A r \in Runs : /\ Len(worker[r]) <= status.run[r].attempts
                    /\ status.run[r].attempts <= MaxAttempts[r]

\* The job has one worker at work at most.
LoneWorker(r) ==
    \A i, j \in DOMAIN worker[r] :
        worker[r][i].proc \in {"working", "mute"} /\ worker[r][j].proc \in {"working", "mute"}
        => i = j

\* "Idempotency guarantees nothing double-runs": no job has two workers at work.
NothingDoubleRuns == \A r \in Runs : LoneWorker(r)

\* As long as no OSError has been met, one of which may be taken for a failed spawn, a
\* job whose output cannot be measured, so that its silence is never reclaimed, has one
\* worker at work at most, not even two after the ticking process died at the worst moment.
OneWorkerAtATime == faults = MaxFaults => \A r \in Runs \ Measurable : LoneWorker(r)

\* A tick that adds to the runs in flight ends within the pool it honoured.
PoolRespected ==
    [][Occupied(status'.run) > Occupied(status.run) => Occupied(status'.run) <= status'.pool]_vars

\* The state and the result file of a finished run tell the same story.
ResultMatchesState ==
    \A r \in Runs :
        LET verdict == files[r].result
        IN  CASE status.run[r].state = "completed" -> verdict = "COMPLETED"
              [] status.run[r].state = "failed"    -> verdict \in {"FAILED", "ABANDONED"}
              [] status.run[r].state = "abandoned" -> verdict = "ABANDONED"
              [] status.run[r].state = "auth_or_launch_failed" ->
                     verdict = "AUTH_OR_LAUNCH_FAILED"
              [] OTHER -> TRUE

\* Doneness comes from the worker's own word: a run is completed because one of
\* its workers wrote COMPLETED or because its done_check held.
CompletedIsEarned ==
    \A r \in Runs : status.run[r].state = "completed" =>
        \/ status.run[r].check = "skipped"
        \/ \E i \in DOMAIN worker[r] : worker[r][i].said = "COMPLETED"

\* Between two ticks the job file is where the state says it is: queue/ for a
\* queued run, claimed/ with a lock for one in flight, neither for a finished
\* one (a cancelled run that was still queued keeps its token in queue/).
TokenMatchesState ==
    pc = "idle" => \A r \in Runs :
        LET s == status.run[r].state
            f == files[r]
        IN  /\ s = "queued" => f.queue /\ ~f.claimed /\ f.lock = NoLock
            /\ s \in InFlight => ~f.queue /\ f.claimed /\ f.lock # NoLock
            /\ s \in Terminal => ~f.claimed /\ f.lock = NoLock

\* Once the batch is done, summary.json names every run's final state, although
\* it is written before the status and a crash may fall between the two.
SummaryTrue ==
    status.done => \A r \in Runs : summary[r] = status.run[r].state

\* The batch is paused on disk and in the tick that is under way, if there is one.
Held == status.paused /\ mem.paused

\* A tick that leaves the batch paused has dispatched nothing, and once a pause is
\* persisted only a tick that finds a RESUME file ends it, whatever dies, fails or is
\* requeued meanwhile.
PausedUntilResume ==
    [][/\ status'.paused => \A r \in Runs : status'.run[r].attempts = status.run[r].attempts
       /\ Held /\ ~Held' => control.resume]_vars

\* Seen from the persisted status, every run lives the lifecycle of JobLifecycle.
Job(r) == INSTANCE JobLifecycle
             WITH Budget <- MaxAttempts[r],
                  state <- status.run[r].state, attempts <- status.run[r].attempts

JobsFollowLifecycle ==
    /\ \A r \in Runs : Job(r)!Init
    /\ [][\A r \in Runs : Job(r)!Next \/ UNCHANGED Job(r)!job]_vars

\* Every run ends: the batch drains whatever its workers do, since a worker that
\* falls silent is failed or reclaimed and its slot goes to the queue.
EveryRunEnds == \A r \in Runs : <>(status.run[r].state \in Terminal)

\* The guard against wall-clock jumps only delays: every run ends, unless from some
\* tick on every tick that looks at a heartbeat follows such a jump.  The run that
\* checks it makes the output of every job measurable: a subagent whose output is not
\* may hang for ever, which EveryRunEnds shows.
DrainsUnlessAlwaysAsleep ==
    EveryRunEnds \/ ([]<>(pc = "settle") /\ <>[](pc = "settle" => sinceTick > JumpGap))
=============================================================================
