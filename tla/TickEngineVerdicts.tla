-------------------------- MODULE TickEngineVerdicts --------------------------
(***************************************************************************)
(* Further theorems about TickEngine, on top of the invariant proved in    *)
(* TickEngineProofs: what done, summary.json, completed and paused mean,   *)
(* and that the state of a finished run is that of its result file.        *)
(***************************************************************************)
EXTENDS TickEngineProofs

\* What a step that neither persists nor lets time pass does to the two copies of
\* the status: the one on disk stays, the one in memory keeps its flags, except that
\* the controls may pause or resume it and a crash goes back to the disk.
LEMMA FlagsFrame ==
    ASSUME IInv, [Next]_vars, ~Persist, ~Pass
    PROVE  /\ status' = status
           /\ mem'.done = mem.done \/ mem' = status
           /\ ~CrashAfterSummary => summary' = summary
  <1>1. mem \in Status
    BY DEF IInv, TypeOK
  <1>2. ASSUME NEW r, NEW trail, NEW risky, NEW rec, NEW list, Perform(r, trail, risky, rec, list)
        PROVE  status' = status /\ (mem'.done = mem.done \/ mem' = status) /\ summary' = summary
    BY <1>1, <1>2 DEF Perform, Die, Abort, Status
  <1>3. CASE TickStep
    <2>1. CASE CancelRun \/ ApplyControls \/ Observe
      BY <1>1, <2>1 DEF CancelRun, ApplyControls, Observe, Die, Status, disk
    <2>2. ASSUME NEW r \in Runs,
                 \/ ReapTerminal(r) \/ FailDeadPid(r) \/ FailLaunch(r) \/ ReclaimStalled(r)
                 \/ MarkStalled(r) \/ MarkRunning(r) \/ LeaveAlone(r)
          PROVE  status' = status /\ (mem'.done = mem.done \/ mem' = status) /\ summary' = summary
      BY <1>2, <2>2 DEF ReapTerminal, FailDeadPid, FailLaunch, ReclaimStalled, MarkStalled,
                        MarkRunning, LeaveAlone, FailOrRetry
    <2>3. ASSUME NEW r \in Runs,
                 PassOver(r) \/ ProbeUnsatisfied(r) \/ ProbeSatisfied(r) \/ Claim(r)
          PROVE  status' = status /\ (mem'.done = mem.done \/ mem' = status) /\ summary' = summary
      <3>1. CASE PassOver(r) \/ ProbeUnsatisfied(r)
        BY <1>1, <3>1 DEF PassOver, ProbeUnsatisfied, disk, Status
      <3>2. CASE ProbeSatisfied(r)
        BY <1>1, <1>2, <3>2 DEF ProbeSatisfied, Abort, disk, Status
      <3>3. CASE Claim(r)
        BY <1>1, <1>2, <3>3 DEF Claim, Abort, Status
      <3>4. QED
        BY <2>3, <3>1, <3>2, <3>3
    <2>4. ASSUME NEW r \in Runs,
                 LaunchSubagent(r) \/ LoseSubagent(r) \/ SpawnShell(r) \/ SpawnFails(r)
          PROVE  UNCHANGED <<status, mem, summary>>
      BY <2>4 DEF LaunchSubagent, LoseSubagent, SpawnShell, SpawnFails, disk
    <2>5. CASE RecordPid \/ RecordPidFails
      BY <2>5 DEF RecordPid, RecordPidFails
    <2>6. QED
      BY <1>3, <2>1, <2>2, <2>3, <2>4, <2>5 DEF TickStep
  <1>4. CASE Interrupt
    BY <1>4 DEF Interrupt, Crash, CrashAfterSummary, Die, disk
  <1>5. CASE (\E r \in Runs : WorkerStep(r)) \/ (\E name \in Requests : WriteControl(name))
    BY <1>5 DEF WorkerStep, Beat, WriteOutput, Hang, Exit, Report, WriteControl, disk, tickVars
  <1>6. CASE UNCHANGED vars
    BY <1>6 DEF vars, tickVars, disk
  <1>7. QED
    BY <1>3, <1>4, <1>5, <1>6 DEF Next
------------------------------------------------------------------------------
(* done and summary.json *)

SummaryInv ==
    /\ mem.done = status.done
    /\ status.done => \A r \in Runs : /\ status.run[r].state \in Terminal
                                      /\ summary[r] = status.run[r].state

LEMMA SummaryKept ==
    ASSUME IInv, SummaryInv, [Next]_vars
    PROVE  SummaryInv'
  <1>1. mem \in Status /\ status \in Status /\ \A r \in Runs : status.run[r] \in RunRecord
    BY DEF IInv, TypeOK, Status
  <1>2. status.done => \A r \in Runs : mem.run[r].state = status.run[r].state
    BY DEF IInv, StatesInv, SummaryInv
  <1>3. CASE Persist
    <2>1. /\ status'.run = mem.run /\ status'.done = AllTerminal(mem.run) /\ mem' = status'
          /\ summary' = NewSummary
      BY <1>1, <1>3 DEF Persist, Status
    <2>2. "none" \notin Terminal
      BY DEF Terminal
    <2>3. AllTerminal(mem.run) => \A r \in Runs : summary'[r] = mem.run[r].state
      BY <1>2, <2>1 DEF NewSummary, SummaryDue, SummaryInv
    <2>4. QED
      BY <2>1, <2>3 DEF SummaryInv, AllTerminal
  <1>4. CASE CrashAfterSummary
    <2>1. mem' = status /\ status' = status /\ summary' = [r \in Runs |-> mem.run[r].state]
      BY <1>4 DEF CrashAfterSummary, NewSummary, Die
    <2>2. QED
      BY <1>2, <2>1 DEF SummaryInv
  <1>5. CASE Pass
    <2>1. status'.run = [r \in Runs |-> AgedRun(status.run[r])] /\ status'.done = status.done
          /\ mem' = status' /\ summary' = summary
      BY <1>1, <1>5 DEF Pass, Status
    <2>2. \A r \in Runs : AgedRun(status.run[r]).state = status.run[r].state
      BY <1>1 DEF AgedRun, RunRecord
    <2>3. QED
      BY <2>1, <2>2 DEF SummaryInv
  <1>6. CASE ~Persist /\ ~CrashAfterSummary /\ ~Pass
    BY <1>6, FlagsFrame DEF SummaryInv
  <1>7. QED
    BY <1>3, <1>4, <1>5, <1>6

\* Once the persisted status says done, summary.json names the final state of every
\* run, although the summary is written first and a crash may fall in between.
THEOREM SummaryIsTrue == Spec => []SummaryTrue
  <1>1. ASSUME Init PROVE SummaryInv
    BY <1>1 DEF Init, SummaryInv
  <1>2. IInv /\ SummaryInv /\ [Next]_vars => SummaryInv'
    BY SummaryKept
  <1>3. SummaryInv => SummaryTrue
    BY DEF SummaryInv, SummaryTrue
  <1>4. QED
    BY <1>1, <1>2, <1>3, Invariance, PTL DEF Spec
------------------------------------------------------------------------------
(* Pausing *)

SameAttempts == \A r \in Runs : mem.run[r].attempts = status.run[r].attempts

\* A paused tick has claimed nothing; what it may still do, it does not do in dispatch.
PausedInv ==
    /\ mem.paused \/ pc = "control" => SameAttempts
    /\ pc = "dispatch" => ~mem.paused

\* A step that leaves the attempts of every run alone and reaches dispatch, if at all,
\* from its own loop or with a run that waits.
LEMMA PausedFrame ==
    ASSUME TypeOK, PausedInv, status' = status, mem'.paused = mem.paused,
           \A r \in Runs : mem'.run[r].attempts = mem.run[r].attempts,
           pc' # "control", pc' = "dispatch" => pc = "dispatch" \/ ~mem'.paused
    PROVE  PausedInv'
  BY DEF PausedInv, SameAttempts

LEMMA PausedDie ==
    ASSUME PausedInv, Die, status' = status
    PROVE  PausedInv'
  BY DEF PausedInv, SameAttempts, Die

LEMMA PausedPerform ==
    ASSUME IInv, PausedInv, NEW r \in Runs, NEW trail, NEW risky, NEW rec, NEW list,
           Perform(r, trail, risky, rec, list), pc \in {"settle", "dispatch"},
           pc = "settle" => rec.attempts = mem.run[r].attempts
    PROVE  PausedInv'
  <1>1. mem \in Status /\ status' = status
    BY DEF IInv, TypeOK, Perform
  <1>2. CASE /\ mem' = [mem EXCEPT !.run[r] = rec] /\ MoveOn
    <2>1. mem'.paused = mem.paused /\ mem'.run = [mem.run EXCEPT ![r] = rec]
          /\ mem.run \in [Runs -> RunRecord]
      BY <1>1, <1>2 DEF Status
    <2>2. pc' # "control" /\ (pc' = "dispatch" => pc = "dispatch" \/ ~mem'.paused)
      BY <1>2 DEF MoveOn, GoOnDispatching, GoToAdvance, GoToDispatch, GoToPersist, FirstFrom, Waiting
    <2>3. CASE pc = "settle"
      <3>1. \A q \in Runs : mem'.run[q].attempts = mem.run[q].attempts
        BY <2>1, <2>3
      <3>2. QED
        BY <1>1, <2>1, <2>2, <3>1, PausedFrame DEF IInv
    <2>4. CASE pc = "dispatch"
      BY <2>1, <2>2, <2>4 DEF PausedInv
    <2>5. QED
      BY <2>3, <2>4
  <1>3. CASE Die
    BY <1>1, <1>3, PausedDie
  <1>4. CASE Abort(mem.run)
    BY <1>1, <1>4, PausedFrame DEF Abort, IInv, Status
  <1>5. QED
    BY <1>2, <1>3, <1>4 DEF Perform

LEMMA PausedKept ==
    ASSUME IInv, PausedInv, [Next]_vars
    PROVE  PausedInv'
  <1>1. /\ mem \in Status /\ status \in Status /\ mem.run \in [Runs -> RunRecord] /\ TypeOK
        /\ \A r \in Runs : status.run[r] \in RunRecord
    BY DEF IInv, TypeOK, Status
  <1>2. CASE CancelRun
    <2>. DEFINE r == control.cancel
    <2>1. pc = "idle" /\ mem = status /\ status' = status /\ r \in Runs
      BY <1>2 DEF CancelRun, Cancellable, IInv, AttemptsInv, TypeOK, Control, Runs
    <2>2. CASE mem' = [mem EXCEPT !.run[r] = Become(r, "abandoned")] /\ pc' = "control"
      <3>1. mem'.run = [mem.run EXCEPT ![r] = Become(r, "abandoned")]
        BY <1>1, <2>2 DEF Status
      <3>2. Become(r, "abandoned").attempts = mem.run[r].attempts
        BY <1>1, <2>1 DEF Become, RunRecord
      <3>3. \A q \in Runs : mem'.run[q].attempts = mem.run[q].attempts
        BY <1>1, <2>1, <3>1, <3>2
      <3>4. QED
        BY <2>1, <2>2, <3>3 DEF PausedInv, SameAttempts
    <2>3. CASE Die
      BY <2>1, <2>3, PausedDie
    <2>4. QED
      BY <1>2, <2>2, <2>3 DEF CancelRun
  <1>3. CASE ApplyControls
    <2>1. SameAttempts
      BY <1>3 DEF ApplyControls, PausedInv, SameAttempts, IInv, AttemptsInv
    <2>2. mem'.run = mem.run /\ status' = status
      BY <1>1, <1>3 DEF ApplyControls, Status
    <2>3. pc' = "dispatch" => ~mem'.paused
      BY <1>3 DEF ApplyControls, GoToAdvance, GoToDispatch, GoToPersist, FirstFrom, Waiting
    <2>4. QED
      BY <2>1, <2>2, <2>3 DEF PausedInv, SameAttempts
  <1>4. CASE Observe
    BY <1>1, <1>4, PausedFrame DEF Observe
  <1>5. ASSUME NEW r \in Runs,
               \/ ReapTerminal(r) \/ FailDeadPid(r) \/ FailLaunch(r) \/ ReclaimStalled(r)
               \/ MarkStalled(r) \/ MarkRunning(r) \/ LeaveAlone(r)
        PROVE  PausedInv'
    <2>1. /\ Requeued(mem.run[r]).attempts = mem.run[r].attempts
          /\ \A state : Become(r, state).attempts = mem.run[r].attempts
      BY <1>1 DEF Requeued, Become, RunRecord
    <2>2. pc = "settle"
      BY <1>5 DEF ReapTerminal, FailDeadPid, FailLaunch, ReclaimStalled, MarkStalled,
                  MarkRunning, LeaveAlone
    <2>3. QED
      BY <1>5, <2>1, <2>2, PausedPerform
         DEF ReapTerminal, FailDeadPid, FailLaunch, ReclaimStalled, MarkStalled,
             MarkRunning, LeaveAlone, FailOrRetry
  <1>6. ASSUME NEW r \in Runs,
               PassOver(r) \/ ProbeUnsatisfied(r) \/ ProbeSatisfied(r) \/ Claim(r)
        PROVE  PausedInv'
    <2>1. pc = "dispatch" /\ ~mem.paused
      BY <1>6 DEF PassOver, ProbeUnsatisfied, ProbeSatisfied, Claim, PausedInv
    <2>2. ASSUME NEW run, Abort(run) PROVE PausedInv'
      BY <1>1, <2>1, <2>2 DEF Abort, Status, PausedInv
    <2>3. CASE PassOver(r)
      <3>1. mem' = mem /\ pc' # "control"
        BY <2>3 DEF PassOver, MoveOn, GoOnDispatching, GoToAdvance, GoToDispatch, GoToPersist
      <3>2. QED
        BY <2>1, <3>1 DEF PausedInv
    <2>4. CASE ProbeUnsatisfied(r)
      <3>1. mem'.paused = mem.paused /\ pc' = pc
        BY <1>1, <2>4 DEF ProbeUnsatisfied, Status
      <3>2. QED
        BY <2>1, <3>1 DEF PausedInv
    <2>5. CASE ProbeSatisfied(r) \/ Claim(r)
      BY <2>1, <2>2, <2>5, PausedPerform DEF ProbeSatisfied, Claim
    <2>6. QED
      BY <1>6, <2>3, <2>4, <2>5
  <1>7. CASE \/ \E r \in Runs : LaunchSubagent(r) \/ LoseSubagent(r) \/ SpawnShell(r) \/ SpawnFails(r)
             \/ RecordPid \/ RecordPidFails
    <2>1. UNCHANGED <<status, mem>> /\ pc' \in {"idle", "spawn", "record"}
      BY <1>7 DEF LaunchSubagent, LoseSubagent, SpawnShell, SpawnFails, RecordPid, RecordPidFails,
                  Handled
    <2>2. QED
      BY <1>1, <2>1, PausedFrame
  <1>8. CASE Persist \/ Pass
    <2>1. mem' = status' /\ pc' \in {"idle", "spawn"}
      BY <1>8 DEF Persist, Pass
    <2>2. QED
      BY <2>1 DEF PausedInv, SameAttempts
  <1>9. CASE Interrupt
    BY <1>9, PausedDie DEF Interrupt, Crash, CrashAfterSummary
  <1>10. CASE \/ \E r \in Runs : WorkerStep(r)
              \/ \E name \in Requests : WriteControl(name)
              \/ UNCHANGED vars
    <2>1. UNCHANGED <<status, mem, pc>>
      BY <1>10 DEF WorkerStep, Beat, WriteOutput, Hang, Exit, Report, WriteControl, tickVars, vars
    <2>2. QED
      BY <2>1 DEF PausedInv, SameAttempts
  <1>11. QED
    BY <1>2, <1>3, <1>4, <1>5, <1>6, <1>7, <1>8, <1>9, <1>10 DEF Next, TickStep

LEMMA PausedInvariance == Spec => [](IInv /\ PausedInv)
  <1>1. ASSUME Init PROVE PausedInv
    BY <1>1 DEF Init, PausedInv, SameAttempts
  <1>2. IInv /\ PausedInv /\ [Next]_vars => PausedInv'
    BY PausedKept
  <1>3. QED
    BY <1>1, <1>2, Invariance, PTL DEF Spec

\* Outside Persist and Pass a tick keeps its flag `paused', goes back to the one on
\* disk, sets it, or finds a RESUME.
LEMMA PausedFlag ==
    ASSUME IInv, [Next]_vars, ~Persist, ~Pass
    PROVE  mem'.paused \in {TRUE, mem.paused, status.paused} \/ control.resume
  <1>1. mem \in Status
    BY DEF IInv, TypeOK
  <1>2. ASSUME NEW r, NEW trail, NEW risky, NEW rec, NEW list, Perform(r, trail, risky, rec, list)
        PROVE  mem'.paused = mem.paused \/ mem' = status
    BY <1>1, <1>2 DEF Perform, Die, Abort, Status
  <1>3. CASE TickStep
    <2>1. CASE CancelRun \/ Observe
      BY <1>1, <2>1 DEF CancelRun, Observe, Die, Status
    <2>2. CASE ApplyControls
      <3>1. mem'.paused = PausedNow
        BY <1>1, <2>2 DEF ApplyControls, Status
      <3>2. CASE control.resume
        BY <3>2
      <3>3. CASE ~control.resume /\ ~control.pause
        BY <1>1, <3>1, <3>3 DEF PausedNow, Status
      <3>4. CASE ~control.resume /\ control.pause
        BY <3>1, <3>4 DEF PausedNow
      <3>5. QED
        BY <3>2, <3>3, <3>4
    <2>3. ASSUME NEW r \in Runs,
                 \/ ReapTerminal(r) \/ FailDeadPid(r) \/ FailLaunch(r) \/ ReclaimStalled(r)
                 \/ MarkStalled(r) \/ MarkRunning(r) \/ LeaveAlone(r)
          PROVE  mem'.paused = mem.paused \/ mem' = status
      BY <1>2, <2>3 DEF ReapTerminal, FailDeadPid, FailLaunch, ReclaimStalled, MarkStalled,
                        MarkRunning, LeaveAlone, FailOrRetry
    <2>4. ASSUME NEW r \in Runs,
                 PassOver(r) \/ ProbeUnsatisfied(r) \/ ProbeSatisfied(r) \/ Claim(r)
          PROVE  mem'.paused = mem.paused \/ mem' = status
      BY <1>1, <1>2, <2>4 DEF PassOver, ProbeUnsatisfied, ProbeSatisfied, Claim, Abort, Status
    <2>5. ASSUME NEW r \in Runs,
                 LaunchSubagent(r) \/ LoseSubagent(r) \/ SpawnShell(r) \/ SpawnFails(r)
          PROVE  mem' = mem
      BY <2>5 DEF LaunchSubagent, LoseSubagent, SpawnShell, SpawnFails
    <2>6. CASE RecordPid \/ RecordPidFails
      BY <2>6 DEF RecordPid, RecordPidFails
    <2>7. QED
      BY <1>3, <2>1, <2>2, <2>3, <2>4, <2>5, <2>6 DEF TickStep
  <1>4. CASE Interrupt
    BY <1>4 DEF Interrupt, Crash, CrashAfterSummary, Die
  <1>5. CASE (\E r \in Runs : WorkerStep(r)) \/ (\E name \in Requests : WriteControl(name))
    BY <1>5 DEF WorkerStep, Beat, WriteOutput, Hang, Exit, Report, WriteControl, tickVars
  <1>6. CASE UNCHANGED vars
    BY <1>6 DEF vars, tickVars
  <1>7. QED
    BY <1>3, <1>4, <1>5, <1>6 DEF Next

Paused == /\ status'.paused => \A r \in Runs : status'.run[r].attempts = status.run[r].attempts
          /\ Held /\ ~Held' => control.resume

\* A tick that leaves the batch paused has claimed nothing, whatever it reaped, failed
\* or requeued; and a persisted pause is ended by a RESUME only, through crashes,
\* OSErrors and any order in which the other controls arrive.
THEOREM PauseHolds == Spec => PausedUntilResume
  <1>1. ASSUME IInv, PausedInv, [Next]_vars PROVE Paused
    <2>1. mem \in Status /\ status \in Status /\ \A r \in Runs : status.run[r] \in RunRecord
      BY <1>1 DEF IInv, TypeOK, Status
    <2>2. CASE Persist
      <3>1. status'.run = mem.run /\ status'.paused = mem.paused /\ mem' = status'
        BY <2>1, <2>2 DEF Persist, Status
      <3>2. QED
        BY <1>1, <3>1 DEF Paused, PausedInv, SameAttempts, Held
    <2>3. CASE Pass
      <3>1. status'.run = [r \in Runs |-> AgedRun(status.run[r])] /\ status'.paused = status.paused
            /\ mem' = status'
        BY <2>1, <2>3 DEF Pass, Status
      <3>2. \A r \in Runs : AgedRun(status.run[r]).attempts = status.run[r].attempts
        BY <2>1 DEF AgedRun, RunRecord
      <3>3. QED
        BY <3>1, <3>2 DEF Paused, Held
    <2>4. CASE ~Persist /\ ~Pass
      <3>1. status' = status
        BY <1>1, <2>4, FlagsFrame
      <3>2. mem'.paused \in {TRUE, mem.paused, status.paused} \/ control.resume
        BY <1>1, <2>4, PausedFlag
      <3>3. Held /\ ~Held' => control.resume
        BY <3>1, <3>2 DEF Held
      <3>4. QED
        BY <3>1, <3>3 DEF Paused
    <2>5. QED
      BY <2>2, <2>3, <2>4
  <1>2. IInv /\ PausedInv /\ [Next]_vars => [Paused]_vars
    BY <1>1
  <1>3. Spec => [][Paused]_vars
    BY <1>2, PausedInvariance, PTL DEF Spec
  <1>4. QED
    BY <1>3 DEF PausedUntilResume, Paused

------------------------------------------------------------------------------
(* Completion *)

Said(r) == \E i \in DOMAIN worker[r] : worker[r][i].said = "COMPLETED"

Honest(r, rec) == rec.state = "completed" => rec.check = "skipped" \/ Said(r)

\* The word COMPLETED, in a heartbeat file, in what the tick has read of one or in a
\* record, goes back to a worker that said it; and who still works has said nothing.
EarnedInv ==
    /\ \A r \in Runs : Honest(r, status.run[r]) /\ Honest(r, mem.run[r])
    /\ \A r \in Runs : files[r].hb = "COMPLETED" => Said(r)
    /\ pc = "settle" /\ seen.hb = "COMPLETED" => Said(cur)
    /\ \A r \in Runs : \A i \in DOMAIN worker[r] :
           worker[r][i].proc = "working" => worker[r][i].said = "none"

\* The engine's own writes put no COMPLETED into a heartbeat.
Silent(trail, f) == \A k \in 1..Len(trail) : trail[k].hb = "COMPLETED" => f.hb = "COMPLETED"

LEMMA FinalSilent ==
    ASSUME NEW f, NEW t \in Trails, Silent(t, f)
    PROVE  Final(t).hb = "COMPLETED" => f.hb = "COMPLETED"
  <1>1. Len(t) \in 1..Len(t)
    BY DEF Trails
  <1>2. QED
    BY <1>1 DEF Silent, Final

LEMMA RecordSilent ==
    ASSUME NEW f \in RunFiles, NEW v \in Verdict
    PROVE  Silent(RecordResult(f, v), f)
  <1>1. CASE f.result # "none"
    BY <1>1 DEF RecordResult, Silent
  <1>2. CASE f.result = "none"
    <2>. DEFINE a == [f EXCEPT !.result = v]
                b == [f EXCEPT !.result = v, !.claimed = FALSE]
                c == [f EXCEPT !.result = v, !.claimed = FALSE, !.lock = NoLock]
    <2>1. a.hb = f.hb /\ b.hb = f.hb /\ c.hb = f.hb
      BY DEF RunFiles
    <2>. HIDE DEF a, b, c
    <2>2. Silent(<<f, a, b, c>>, f)
      BY <2>1 DEF Silent
    <2>3. QED
      BY <1>2, <2>2 DEF RecordResult, a, b, c
  <1>3. QED
    BY <1>1, <1>2

LEMMA RequeueSilent ==
    ASSUME NEW f \in RunFiles
    PROVE  Silent(Requeue(f), f)
  <1>. DEFINE a == [f EXCEPT !.result = "none"]
              b == [f EXCEPT !.result = "none", !.claimed = FALSE]
              c == [f EXCEPT !.result = "none", !.claimed = FALSE, !.lock = NoLock]
              d == [c EXCEPT !.queue = TRUE]
              e == [c EXCEPT !.queue = TRUE, !.hb = "none", !.hbAge = 0]
  <1>1. a.hb = f.hb /\ b.hb = f.hb /\ c.hb = f.hb /\ d.hb = f.hb /\ e.hb = "none"
    BY DEF RunFiles
  <1>. HIDE DEF a, b, c, d, e
  <1>2. Silent(<<f, a, b, c, d, e>>, f)
    BY <1>1 DEF Silent
  <1>3. QED
    BY <1>2 DEF Requeue, a, b, c, d, e

LEMMA ClaimSilent ==
    ASSUME NEW f \in RunFiles
    PROVE  /\ Silent(ClaimToken(f), f)
           /\ Silent(Append(ClaimToken(f), Heard(Final(ClaimToken(f)), "beat")), f)
  <1>. DEFINE token == ClaimToken(f)
              last == Heard(Final(token), "beat")
  <1>1. Silent(token, f)
    <2>. DEFINE a == [f EXCEPT !.queue = FALSE, !.claimed = TRUE]
                b == [f EXCEPT !.queue = FALSE, !.claimed = TRUE, !.lock = 0]
    <2>1. a.hb = f.hb /\ b.hb = f.hb
      BY DEF RunFiles
    <2>. HIDE DEF a, b
    <2>2. Silent(<<f, a, b>>, f) /\ Silent(<<f>>, f)
      BY <2>1 DEF Silent
    <2>3. QED
      BY <2>2 DEF ClaimToken, a, b
  <1>2. token \in Trails
    BY ClaimTokenType
  <1>3. Final(token) \in RunFiles /\ (Final(token).hb = "COMPLETED" => f.hb = "COMPLETED")
    BY <1>1, <1>2, FinalType, FinalSilent
  <1>4. last.hb = "COMPLETED" => f.hb = "COMPLETED"
    <2>1. last.hb = AppendLine(Final(token).hb, "beat")
      BY <1>3 DEF Heard, RunFiles
    <2>2. QED
      BY <1>3, <2>1 DEF AppendLine
  <1>. HIDE DEF token, last
  <1>5. Silent(Append(token, last), f)
    <2>1. /\ Len(Append(token, last)) = Len(token) + 1 /\ Len(token) \in Nat
          /\ \A k \in 1..Len(token) : Append(token, last)[k] = token[k]
          /\ Append(token, last)[Len(token) + 1] = last
      BY <1>2 DEF Trails
    <2>2. \A k \in 1..(Len(token) + 1) : k \in 1..Len(token) \/ k = Len(token) + 1
      BY <2>1
    <2>3. QED
      BY <1>1, <1>4, <2>1, <2>2 DEF Silent
  <1>6. QED
    BY <1>1, <1>5 DEF token, last

LEMMA SkipSilent ==
    ASSUME NEW f \in RunFiles
    PROVE  Silent(SkipDone(f), f)
  <1>. DEFINE trail == RecordResult(f, "COMPLETED")
              last == [Final(trail) EXCEPT !.queue = FALSE]
  <1>1. trail \in Trails /\ Silent(trail, f)
    BY RecordResultType, RecordSilent DEF Verdict, TerminalHb
  <1>2. last.hb = "COMPLETED" => f.hb = "COMPLETED"
    BY <1>1, FinalType, FinalSilent DEF RunFiles
  <1>3. SkipDone(f) = Append(trail, last)
    BY DEF SkipDone
  <1>. HIDE DEF trail, last
  <1>4. /\ Len(Append(trail, last)) = Len(trail) + 1 /\ Len(trail) \in Nat
        /\ \A k \in 1..Len(trail) : Append(trail, last)[k] = trail[k]
        /\ Append(trail, last)[Len(trail) + 1] = last
    BY <1>1 DEF Trails
  <1>5. \A k \in 1..(Len(trail) + 1) : k \in 1..Len(trail) \/ k = Len(trail) + 1
    BY <1>4
  <1>6. QED
    BY <1>1, <1>2, <1>3, <1>4, <1>5 DEF Silent

LEMMA ConcatSilent ==
    ASSUME NEW f, NEW s \in Trails, NEW t \in Trails, Silent(s, f), Silent(t, Final(s))
    PROVE  Silent(s \o t, f)
  <1>1. Final(s).hb = "COMPLETED" => f.hb = "COMPLETED"
    BY FinalSilent
  <1>2. Len(s) \in Nat /\ Len(t) \in Nat /\ Len(s \o t) = Len(s) + Len(t)
    BY DEF Trails
  <1>3. \A k \in 1..Len(s) : (s \o t)[k] = s[k]
    BY DEF Trails
  <1>4. \A k \in 1..(Len(s) + Len(t)) : k \notin 1..Len(s) =>
            k - Len(s) \in 1..Len(t) /\ (s \o t)[k] = t[k - Len(s)]
    BY DEF Trails
  <1>5. QED
    BY <1>1, <1>2, <1>3, <1>4 DEF Silent


(* What a step must leave alone *)

LEMMA EarnedDie ==
    ASSUME EarnedInv, Die, UNCHANGED <<status, worker>>,
           \A r \in Runs : files'[r].hb = "COMPLETED" => files[r].hb = "COMPLETED"
    PROVE  EarnedInv'
  BY DEF EarnedInv, Die, Honest, Said

LEMMA EarnedAbort ==
    ASSUME IInv, EarnedInv, NEW run, Abort(run), UNCHANGED <<status, worker>>,
           \A r \in Runs : files'[r].hb = "COMPLETED" => files[r].hb = "COMPLETED",
           \A r \in Runs : Honest(r, run[r])
    PROVE  EarnedInv'
  <1>1. mem'.run = run /\ pc' = "persist"
    BY DEF Abort, IInv, TypeOK, Status
  <1>2. QED
    BY <1>1 DEF EarnedInv, Honest, Said

LEMMA EarnedPerform ==
    ASSUME IInv, EarnedInv, NEW r \in Runs, NEW trail \in Trails, NEW risky \in Nat, NEW rec, NEW list,
           Perform(r, trail, risky, rec, list), Silent(trail, files[r]), Honest(r, rec)
    PROVE  EarnedInv'
  <1>1. mem.run \in [Runs -> RunRecord] /\ mem \in Status /\ files \in [Runs -> RunFiles]
        /\ UNCHANGED <<status, worker>>
    BY DEF IInv, TypeOK, Status, Perform
  <1>2. \A q \in Runs : files'[q].hb = "COMPLETED" => files[q].hb = "COMPLETED"
    <2>1. /\ Final(trail).hb = "COMPLETED" => files[r].hb = "COMPLETED"
          /\ \A k \in 1..Len(trail) : trail[k].hb = "COMPLETED" => files[r].hb = "COMPLETED"
      BY FinalSilent DEF Silent
    <2>2. \E f : files' = [files EXCEPT ![r] = f] /\ (f.hb = "COMPLETED" => files[r].hb = "COMPLETED")
      <3>1. \A k \in 1..risky : Writes(trail, k) => k \in 1..Len(trail)
        BY DEF Trails, Writes
      <3>2. CASE Complete(r, trail, risky)
        BY <2>1, <3>2, CompleteType DEF IInv
      <3>3. QED
        BY <2>1, <3>1, <3>2 DEF Perform
    <2>3. QED
      BY <1>1, <2>2
  <1>3. CASE /\ mem' = [mem EXCEPT !.run[r] = rec] /\ seen' = Unseen
    <2>1. mem'.run = [mem.run EXCEPT ![r] = rec] /\ seen'.hb = "none"
      BY <1>1, <1>3 DEF Status, Unseen
    <2>2. \A q \in Runs : Honest(q, mem'.run[q])
      BY <1>1, <2>1 DEF EarnedInv
    <2>3. QED
      BY <1>1, <1>2, <2>1, <2>2 DEF EarnedInv, Honest, Said
  <1>4. CASE Die
    BY <1>1, <1>2, <1>4, EarnedDie
  <1>5. CASE Abort(mem.run)
    BY <1>1, <1>2, <1>5, EarnedAbort DEF EarnedInv
  <1>6. QED
    BY <1>3, <1>4, <1>5 DEF Perform

\* Steps outside the loops: the two copies of the status stay, and the workers, unless
\* one of them speaks.
LEMMA EarnedFrame ==
    ASSUME EarnedInv, UNCHANGED <<status, mem>>, pc' = "settle" => UNCHANGED <<pc, cur, seen>>,
           \A r \in Runs : Said(r) => Said(r)',
           \A r \in Runs : files'[r].hb = "COMPLETED" => files[r].hb = "COMPLETED" \/ Said(r)',
           \A r \in Runs : \A i \in DOMAIN worker'[r] :
               worker'[r][i].proc = "working" => worker'[r][i].said = "none",
           cur \in Runs
    PROVE  EarnedInv'
  BY DEF EarnedInv, Honest

\* A worker that is launched or changes says nothing less than before.
LEMMA WorkersSpeak ==
    ASSUME IInv, EarnedInv, NEW r \in Runs,
           \/ Launched(r)
           \/ \E i \in DOMAIN worker[r] : \E proc \in {"mute", "gone"} : SetProc(r, i, proc)
           \/ \E i \in DOMAIN worker[r], sentinel \in Sentinels :
                 /\ worker[r][i].proc = "working"
                 /\ worker' = [worker EXCEPT ![r][i] = [proc |-> "reported", said |-> sentinel]]
    PROVE  /\ \A q \in Runs : Said(q) => Said(q)'
           /\ \A q \in Runs : \A i \in DOMAIN worker'[q] :
                  worker'[q][i].proc = "working" => worker'[q][i].said = "none"
  <1>1. worker \in [Runs -> Seq(Worker)] /\ worker[r] \in Seq(Worker)
    BY DEF IInv, TypeOK
  <1>2. CASE Launched(r)
    <2>. DEFINE new == [proc |-> "working", said |-> "none"]
    <2>1. worker'[r] = Append(worker[r], new) /\ \A q \in Runs \ {r} : worker'[q] = worker[q]
      BY <1>1, <1>2 DEF Launched
    <2>2. new.said = "none"
      OBVIOUS
    <2>. HIDE DEF new
    <2>3. /\ DOMAIN worker'[r] = 1..(Len(worker[r]) + 1) /\ DOMAIN worker[r] = 1..Len(worker[r])
          /\ Len(worker[r]) \in Nat
          /\ \A i \in 1..Len(worker[r]) : worker'[r][i] = worker[r][i]
          /\ worker'[r][Len(worker[r]) + 1] = new
      BY <1>1, <2>1
    <2>4. \A i \in DOMAIN worker'[r] : i \in DOMAIN worker[r] \/ worker'[r][i] = new
      BY <2>3
    <2>5. \A i \in DOMAIN worker[r] : i \in DOMAIN worker'[r] /\ worker'[r][i] = worker[r][i]
      BY <2>3
    <2>6. QED
      BY <2>1, <2>2, <2>4, <2>5 DEF EarnedInv, Said
  <1>3. ASSUME NEW i \in DOMAIN worker[r], NEW proc \in {"mute", "gone"}, SetProc(r, i, proc)
        PROVE  /\ \A q \in Runs : Said(q) => Said(q)'
               /\ \A q \in Runs : \A j \in DOMAIN worker'[q] :
                      worker'[q][j].proc = "working" => worker'[q][j].said = "none"
    <2>1. /\ worker'[r] = [worker[r] EXCEPT ![i] = [worker[r][i] EXCEPT !.proc = proc]]
          /\ \A q \in Runs \ {r} : worker'[q] = worker[q]
      BY <1>1, <1>3 DEF SetProc
    <2>2. worker[r][i] \in Worker
      BY <1>1
    <2>3. /\ [worker[r][i] EXCEPT !.proc = proc].said = worker[r][i].said
          /\ [worker[r][i] EXCEPT !.proc = proc].proc # "working"
      BY <2>2 DEF Worker
    <2>4. /\ DOMAIN worker'[r] = DOMAIN worker[r]
          /\ \A j \in DOMAIN worker[r] : j # i => worker'[r][j] = worker[r][j]
          /\ worker'[r][i].said = worker[r][i].said /\ worker'[r][i].proc # "working"
      BY <1>1, <2>1, <2>3
    <2>5. \A j \in DOMAIN worker[r] : worker'[r][j].said = worker[r][j].said
      BY <2>4
    <2>6. \A q \in Runs : Said(q) => Said(q)'
      <3>1. Said(r) => Said(r)'
        BY <2>4, <2>5 DEF Said
      <3>2. ASSUME NEW q \in Runs \ {r} PROVE Said(q) => Said(q)'
        <4>1. worker'[q] = worker[q]
          BY <2>1
        <4>2. QED
          BY <4>1 DEF Said
      <3>3. QED
        BY <3>1, <3>2
    <2>7. \A j \in DOMAIN worker'[r] : worker'[r][j].proc = "working" => worker'[r][j].said = "none"
      <3>1. \A j \in DOMAIN worker[r] : worker[r][j].proc = "working" => worker[r][j].said = "none"
        BY DEF EarnedInv
      <3>2. ASSUME NEW j \in DOMAIN worker[r], worker'[r][j].proc = "working"
            PROVE  worker'[r][j].said = "none"
        <4>1. j # i
          BY <2>4, <3>2
        <4>2. worker'[r][j] = worker[r][j]
          BY <2>4, <4>1
        <4>3. QED
          BY <3>1, <3>2, <4>2
      <3>3. QED
        BY <2>4, <3>2
    <2>8. ASSUME NEW q \in Runs \ {r}, NEW j \in DOMAIN worker'[q], worker'[q][j].proc = "working"
          PROVE  worker'[q][j].said = "none"
      <3>1. worker'[q] = worker[q]
        BY <2>1
      <3>2. QED
        BY <2>8, <3>1 DEF EarnedInv
    <2>9. QED
      BY <2>6, <2>7, <2>8
  <1>4. ASSUME NEW i \in DOMAIN worker[r], NEW sentinel \in Sentinels, worker[r][i].proc = "working",
               worker' = [worker EXCEPT ![r][i] = [proc |-> "reported", said |-> sentinel]]
        PROVE  /\ \A q \in Runs : Said(q) => Said(q)'
               /\ \A q \in Runs : \A j \in DOMAIN worker'[q] :
                      worker'[q][j].proc = "working" => worker'[q][j].said = "none"
    <2>1. /\ DOMAIN worker'[r] = DOMAIN worker[r]
          /\ \A j \in DOMAIN worker[r] : j # i => worker'[r][j] = worker[r][j]
          /\ worker'[r][i] = [proc |-> "reported", said |-> sentinel]
          /\ \A q \in Runs \ {r} : worker'[q] = worker[q]
      BY <1>1, <1>4
    <2>2. worker[r][i].said = "none" /\ worker'[r][i].proc # "working"
      BY <1>4, <2>1 DEF EarnedInv
    <2>3. QED
      BY <2>1, <2>2 DEF EarnedInv, Said
  <1>5. QED
    BY <1>2, <1>3, <1>4

LEMMA EarnedSettle ==
    ASSUME IInv, EarnedInv, NEW r \in Runs,
           \/ ReapTerminal(r) \/ FailDeadPid(r) \/ FailLaunch(r) \/ ReclaimStalled(r)
           \/ MarkStalled(r) \/ MarkRunning(r) \/ LeaveAlone(r)
    PROVE  EarnedInv'
  <1>1. mem.run[r] \in RunRecord /\ files[r] \in RunFiles
    BY DEF IInv, TypeOK, Status
  <1>2. /\ Honest(r, mem.run[r]) /\ Honest(r, Requeued(mem.run[r]))
        /\ \A state : state # "completed" \/ Said(r) => Honest(r, Become(r, state))
    BY <1>1 DEF EarnedInv, Honest, Requeued, Become, RunRecord
  <1>3. \A v \in Verdict : /\ RecordResult(files[r], v) \in Trails
                           /\ Silent(RecordResult(files[r], v), files[r])
    BY <1>1, RecordResultType, RecordSilent
  <1>4. /\ <<files[r]>> \in Trails /\ Silent(<<files[r]>>, files[r])
        /\ Requeue(files[r]) \in Trails /\ Silent(Requeue(files[r]), files[r])
    BY <1>1, RequeueType, RequeueSilent DEF Trails, Silent
  <1>5. ASSUME NEW trail \in Trails, NEW risky \in Nat, Silent(trail, files[r]), FailOrRetry(r, trail, risky)
        PROVE  EarnedInv'
    <2>1. Final(trail) \in RunFiles
      BY FinalType
    <2>2. /\ Requeue(Final(trail)) \in Trails /\ Silent(Requeue(Final(trail)), Final(trail))
      BY <2>1, RequeueType, RequeueSilent
    <2>3. trail \o Requeue(Final(trail)) \in Trails /\ Silent(trail \o Requeue(Final(trail)), files[r])
      BY <1>5, <2>2, ConcatType, ConcatSilent
    <2>4. QED
      BY <1>2, <1>5, <2>3, EarnedPerform DEF FailOrRetry
  <1>6. CASE ReapTerminal(r)
    <2>1. seen.hb \in Verdict /\ r = cur /\ pc = "settle"
      BY <1>6 DEF ReapTerminal, Reported, Verdict
    <2>2. ReapedState(seen.hb) = "completed" => Said(r)
      BY <2>1 DEF ReapedState, EarnedInv
    <2>3. QED
      BY <1>2, <1>3, <1>5, <1>6, <2>1, <2>2, EarnedPerform DEF ReapTerminal, MoveToResults
  <1>7. CASE FailDeadPid(r)
    BY <1>3, <1>5, <1>7 DEF FailDeadPid, Verdict, TerminalHb
  <1>8. CASE FailLaunch(r)
    BY <1>2, <1>3, <1>8, EarnedPerform DEF FailLaunch, Verdict
  <1>9. CASE ReclaimStalled(r)
    BY <1>2, <1>3, <1>4, <1>9, EarnedPerform DEF ReclaimStalled, Verdict, TerminalHb
  <1>10. CASE MarkStalled(r) \/ MarkRunning(r) \/ LeaveAlone(r)
    BY <1>2, <1>4, <1>10, EarnedPerform DEF MarkStalled, MarkRunning, LeaveAlone
  <1>11. QED
    BY <1>6, <1>7, <1>8, <1>9, <1>10

LEMMA EarnedDispatch ==
    ASSUME IInv, EarnedInv, NEW r \in Runs,
           PassOver(r) \/ ProbeUnsatisfied(r) \/ ProbeSatisfied(r) \/ Claim(r)
    PROVE  EarnedInv'
  <1>1. /\ mem \in Status /\ mem.run \in [Runs -> RunRecord] /\ mem.run[r] \in RunRecord
        /\ files \in [Runs -> RunFiles] /\ files[r] \in RunFiles
    BY DEF IInv, TypeOK, Status
  <1>2. mem.run[r].state = "queued"
    BY DEF PassOver, ProbeUnsatisfied, ProbeSatisfied, Claim, IInv, StatesInv
  <1>3. /\ Honest(r, [mem.run[r] EXCEPT !.check = "checked"])
        /\ Honest(r, [mem.run[r] EXCEPT !.state = "completed", !.check = "skipped"])
        /\ Honest(r, Claimed(mem.run[r]))
    BY <1>1, <1>2 DEF Honest, Claimed, RunRecord
  <1>4. CASE PassOver(r)
    <2>1. pc' # "settle" /\ UNCHANGED <<status, mem, files, worker>>
      BY <1>4 DEF PassOver, disk, MoveOn, GoOnDispatching, GoToAdvance, GoToDispatch, GoToPersist
    <2>2. QED
      BY <2>1 DEF EarnedInv, Honest, Said
  <1>5. CASE ProbeUnsatisfied(r)
    <2>1. /\ mem'.run = [mem.run EXCEPT ![r] = [mem.run[r] EXCEPT !.check = "checked"]]
          /\ pc' = pc /\ pc = "dispatch" /\ UNCHANGED <<status, files, worker>>
      BY <1>1, <1>5 DEF ProbeUnsatisfied, disk, Status
    <2>2. \A q \in Runs : Honest(q, mem'.run[q])
      BY <1>1, <1>3, <2>1 DEF EarnedInv
    <2>3. QED
      BY <2>1, <2>2 DEF EarnedInv, Honest, Said
  <1>6. CASE ProbeSatisfied(r)
    <2>. DEFINE run == [mem.run EXCEPT ![r].check = "checked"]
    <2>1. \A q \in Runs : Honest(q, run[q])
      BY <1>1, <1>3 DEF EarnedInv
    <2>. HIDE DEF run
    <2>2. CASE Abort(run) /\ UNCHANGED <<status, disk, worker>>
      BY <2>1, <2>2, EarnedAbort DEF disk
    <2>3. SkipDone(files[r]) \in Trails /\ Silent(SkipDone(files[r]), files[r])
      BY <1>1, SkipDoneType, SkipSilent
    <2>4. QED
      BY <1>3, <1>6, <2>2, <2>3, EarnedPerform DEF ProbeSatisfied, run
  <1>7. CASE Claim(r)
    <2>. DEFINE token == ClaimToken(files[r])
                started == Append(token, Heard(Final(token), "beat"))
                run == [mem.run EXCEPT ![r] = Claimed(@)]
    <2>1. token \in Trails /\ Silent(token, files[r]) /\ Silent(started, files[r])
      BY <1>1, ClaimTokenType, ClaimSilent
    <2>2. Final(token) \in RunFiles /\ (Final(token).hb = "COMPLETED" => files[r].hb = "COMPLETED")
      BY <2>1, FinalType, FinalSilent
    <2>3. started \in Trails /\ Len(token) - 1 \in Nat
      <3>1. Heard(Final(token), "beat") \in RunFiles
        BY <2>2, HeardType DEF Heartbeat
      <3>. HIDE DEF token
      <3>2. QED
        BY <2>1, <3>1 DEF Trails
    <2>4. \A q \in Runs : Honest(q, run[q])
      BY <1>1, <1>3 DEF EarnedInv
    <2>. HIDE DEF token, started, run
    <2>5. CASE Perform(r, token, 2, Claimed(mem.run[r]), dispatch \cup {r})
      BY <1>3, <2>1, <2>5, EarnedPerform
    <2>6. CASE Perform(r, started, Len(token) - 1, Claimed(mem.run[r]), dispatch \cup {r})
      BY <1>3, <2>1, <2>3, <2>6, EarnedPerform
    <2>7. CASE /\ files' = [files EXCEPT ![r] = Final(token)]
               /\ Abort(run)
               /\ UNCHANGED <<status, outAge, control, summary, sinceTick, worker>>
      BY <1>1, <2>2, <2>4, <2>7, EarnedAbort
    <2>8. QED
      BY <1>7, <2>5, <2>6, <2>7 DEF Claim, token, started, run
  <1>8. QED
    BY <1>4, <1>5, <1>6, <1>7

LEMMA EarnedKept ==
    ASSUME IInv, EarnedInv, [Next]_vars
    PROVE  EarnedInv'
  <1>1. /\ mem \in Status /\ status \in Status /\ mem.run \in [Runs -> RunRecord] /\ cur \in Runs
        /\ files \in [Runs -> RunFiles]
        /\ \A r \in Runs : status.run[r] \in RunRecord
    BY DEF IInv, TypeOK, Status
  <1>2. CASE CancelRun
    <2>. DEFINE r == control.cancel
                trail == RecordResult(files[r], "ABANDONED")
    <2>1. r \in Runs
      BY <1>2 DEF CancelRun, Cancellable, IInv, TypeOK, Control, Runs
    <2>2. trail \in Trails /\ Silent(trail, files[r])
      BY <1>1, <2>1, RecordResultType, RecordSilent DEF Verdict, TerminalHb
    <2>3. Final(trail).hb = "COMPLETED" => files[r].hb = "COMPLETED"
      BY <2>2, FinalSilent
    <2>. HIDE DEF trail
    <2>4. CASE /\ Complete(r, trail, 1)
               /\ mem' = [mem EXCEPT !.run[r] = Become(r, "abandoned")]
               /\ pc' = "control"
      <3>1. mem'.run = [mem.run EXCEPT ![r] = Become(r, "abandoned")]
        BY <1>1, <2>4 DEF Status
      <3>2. Honest(r, Become(r, "abandoned"))
        BY <1>1, <2>1 DEF Honest, Become, RunRecord
      <3>3. \A q \in Runs : Honest(q, mem'.run[q])
        BY <1>1, <3>1, <3>2 DEF EarnedInv
      <3>4. \A q \in Runs : files'[q].hb = "COMPLETED" => files[q].hb = "COMPLETED"
        <4>1. /\ files' = [files EXCEPT ![r] = files'[r]]
              /\ \E k \in 1..Len(trail) : files'[r].hb \in {trail[k].hb, Final(trail).hb}
          BY <2>1, <2>2, <2>4, CompleteType DEF IInv
        <4>2. files'[r].hb = "COMPLETED" => files[r].hb = "COMPLETED"
          BY <2>2, <2>3, <4>1 DEF Silent
        <4>3. QED
          BY <1>1, <4>1, <4>2
      <3>5. UNCHANGED <<status, worker>>
        BY <1>2 DEF CancelRun
      <3>6. QED
        BY <2>4, <3>3, <3>4, <3>5 DEF EarnedInv, Honest, Said
    <2>5. CASE Die /\ \E k \in 1..Len(trail) : files' = [files EXCEPT ![r] = trail[k]]
      <3>1. \A q \in Runs : files'[q].hb = "COMPLETED" => files[q].hb = "COMPLETED"
        BY <1>1, <2>2, <2>5 DEF Silent
      <3>2. QED
        BY <1>2, <2>5, <3>1, EarnedDie DEF CancelRun
    <2>6. QED
      BY <1>2, <2>4, <2>5 DEF CancelRun, trail
  <1>3. CASE ApplyControls
    <2>1. mem'.run = mem.run /\ pc' # "settle" /\ UNCHANGED <<status, files, worker>>
      BY <1>1, <1>3 DEF ApplyControls, Status, GoToAdvance, GoToDispatch, GoToPersist
    <2>2. QED
      BY <2>1 DEF EarnedInv, Honest, Said
  <1>4. CASE Observe
    BY <1>1, <1>4 DEF Observe, EarnedInv, Honest, Said, disk
  <1>5. CASE \E r \in Runs : LaunchSubagent(r) \/ LoseSubagent(r) \/ SpawnShell(r) \/ SpawnFails(r)
    <2>1. PICK r \in Runs : LaunchSubagent(r) \/ LoseSubagent(r) \/ SpawnShell(r) \/ SpawnFails(r)
      BY <1>5
    <2>2. UNCHANGED <<status, mem>> /\ pc' # "settle" /\ (Launched(r) \/ worker' = worker)
      BY <2>1 DEF LaunchSubagent, LoseSubagent, SpawnShell, SpawnFails, Handled
    <2>3. \A q \in Runs : files'[q].hb = "COMPLETED" => files[q].hb = "COMPLETED"
      <3>1. CASE files' = files
        BY <3>1
      <3>2. CASE files' = [files EXCEPT ![r] = Heard(@, "FAILED")]
        <4>1. Heard(files[r], "FAILED").hb = AppendLine(files[r].hb, "FAILED")
          BY <1>1 DEF Heard, RunFiles
        <4>2. QED
          BY <1>1, <3>2, <4>1 DEF AppendLine
      <3>3. QED
        BY <2>1, <3>1, <3>2 DEF LaunchSubagent, LoseSubagent, SpawnShell, SpawnFails, disk
    <2>4. CASE worker' = worker
      BY <1>1, <2>2, <2>3, <2>4, EarnedFrame DEF EarnedInv, Said
    <2>5. CASE Launched(r)
      BY <1>1, <2>2, <2>3, <2>5, WorkersSpeak, EarnedFrame
    <2>6. QED
      BY <2>2, <2>4, <2>5
  <1>6. CASE RecordPid \/ RecordPidFails
    <2>1. UNCHANGED <<status, mem, worker>> /\ pc' # "settle"
      BY <1>6 DEF RecordPid, RecordPidFails, Handled
    <2>2. \A q \in Runs : files'[q].hb = "COMPLETED" => files[q].hb = "COMPLETED"
      <3>1. CASE files' = [files EXCEPT ![cur] = Heard(@, "FAILED")]
        <4>1. Heard(files[cur], "FAILED").hb = AppendLine(files[cur].hb, "FAILED")
          BY <1>1 DEF Heard, RunFiles
        <4>2. QED
          BY <1>1, <3>1, <4>1 DEF AppendLine
      <3>2. CASE files' = [files EXCEPT ![cur].lock = Len(worker[cur])]
        <4>1. [files[cur] EXCEPT !.lock = Len(worker[cur])].hb = files[cur].hb
          BY <1>1 DEF RunFiles
        <4>2. files'[cur] = [files[cur] EXCEPT !.lock = Len(worker[cur])]
              /\ \A q \in Runs \ {cur} : files'[q] = files[q]
          BY <1>1, <3>2
        <4>3. QED
          BY <4>1, <4>2
      <3>3. QED
        BY <1>6, <3>1, <3>2 DEF RecordPid, RecordPidFails
    <2>3. QED
      BY <1>1, <2>1, <2>2, EarnedFrame DEF EarnedInv, Said
  <1>7. CASE Persist
    <2>1. status'.run = mem.run /\ mem' = status' /\ pc' # "settle" /\ UNCHANGED <<files, worker>>
      BY <1>1, <1>7 DEF Persist, Status
    <2>2. QED
      BY <2>1 DEF EarnedInv, Honest, Said
  <1>8. CASE Interrupt
    BY <1>8, EarnedDie DEF Interrupt, Crash, CrashAfterSummary, disk
  <1>9. CASE Pass
    <2>1. /\ status'.run = [r \in Runs |-> AgedRun(status.run[r])]
          /\ mem' = status' /\ pc = "idle" /\ UNCHANGED <<pc, worker>>
          /\ files' = [r \in Runs |->
                          [files[r] EXCEPT !.hbAge = IF files[r].hb = "beat" THEN Older(@) ELSE @]]
      BY <1>1, <1>9 DEF Pass, Status
    <2>2. \A r \in Runs : /\ AgedRun(status.run[r]).state = status.run[r].state
                          /\ AgedRun(status.run[r]).check = status.run[r].check
      BY <1>1 DEF AgedRun, RunRecord
    <2>3. \A r \in Runs : files'[r].hb = files[r].hb
      BY <1>1, <2>1 DEF RunFiles
    <2>4. \A r \in Runs : Said(r)' <=> Said(r)
      BY <2>1 DEF Said
    <2>5. \A r \in Runs : /\ status'.run[r].state = status.run[r].state
                          /\ status'.run[r].check = status.run[r].check
      BY <2>1, <2>2
    <2>6. \A r \in Runs : Honest(r, status.run[r])'
      BY <2>4, <2>5 DEF EarnedInv, Honest
    <2>7. \A r \in Runs : Honest(r, mem.run[r])'
      BY <2>1, <2>6
    <2>8. \A r \in Runs : (files[r].hb = "COMPLETED" => Said(r))'
      BY <2>3, <2>4 DEF EarnedInv
    <2>9. \A r \in Runs : \A i \in DOMAIN worker'[r] :
              worker'[r][i].proc = "working" => worker'[r][i].said = "none"
      BY <2>1 DEF EarnedInv
    <2>10. QED
      BY <2>1, <2>6, <2>7, <2>8, <2>9 DEF EarnedInv
  <1>10. ASSUME NEW r \in Runs, WorkerStep(r) PROVE EarnedInv'
    <2>1. PICK i \in DOMAIN worker[r] :
              \/ Beat(r, i) \/ WriteOutput(r, i) \/ Hang(r, i) \/ Exit(r, i)
              \/ \E sentinel \in Sentinels : Report(r, i, sentinel)
      BY <1>10 DEF WorkerStep
    <2>2. UNCHANGED <<status, mem, pc, cur, seen>>
      BY <2>1 DEF Beat, WriteOutput, Hang, Exit, Report, tickVars
    <2>3. CASE Beat(r, i) \/ WriteOutput(r, i)
      <3>1. \A q \in Runs : files'[q].hb = "COMPLETED" => files[q].hb = "COMPLETED"
        <4>1. Heard(files[r], "beat").hb = AppendLine(files[r].hb, "beat")
          BY <1>1 DEF Heard, RunFiles
        <4>2. QED
          BY <1>1, <2>3, <4>1 DEF Beat, WriteOutput, AppendLine, disk
      <3>2. worker' = worker
        BY <2>3 DEF Beat, WriteOutput
      <3>3. QED
        BY <1>1, <2>2, <3>1, <3>2, EarnedFrame DEF EarnedInv, Said
    <2>4. CASE Hang(r, i) \/ Exit(r, i)
      <3>1. files' = files /\ \E proc \in {"mute", "gone"} : SetProc(r, i, proc)
        BY <2>4 DEF Hang, Exit, disk
      <3>2. QED
        BY <1>1, <2>2, <3>1, WorkersSpeak, EarnedFrame
    <2>5. ASSUME NEW sentinel \in Sentinels, Report(r, i, sentinel) PROVE EarnedInv'
      <3>1. /\ worker[r][i].proc = "working"
            /\ worker' = [worker EXCEPT ![r][i] = [proc |-> "reported", said |-> sentinel]]
            /\ files' = [files EXCEPT ![r] = Heard(@, sentinel)]
        BY <2>5 DEF Report, Alive
      <3>2. /\ \A q \in Runs : Said(q) => Said(q)'
            /\ \A q \in Runs : \A j \in DOMAIN worker'[q] :
                   worker'[q][j].proc = "working" => worker'[q][j].said = "none"
        BY <3>1, WorkersSpeak
      <3>3. worker \in [Runs -> Seq(Worker)]
        BY DEF IInv, TypeOK
      <3>4. sentinel = "COMPLETED" => Said(r)'
        <4>1. i \in DOMAIN worker'[r] /\ worker'[r][i] = [proc |-> "reported", said |-> sentinel]
          BY <3>1, <3>3
        <4>2. QED
          BY <4>1 DEF Said
      <3>5. \A q \in Runs : files'[q].hb = "COMPLETED" => files[q].hb = "COMPLETED" \/ Said(q)'
        <4>1. Heard(files[r], sentinel).hb = AppendLine(files[r].hb, sentinel)
          BY <1>1 DEF Heard, RunFiles
        <4>2. QED
          BY <1>1, <3>1, <3>4, <4>1 DEF AppendLine
      <3>6. QED
        BY <1>1, <2>2, <3>2, <3>5, EarnedFrame
    <2>6. QED
      BY <2>1, <2>3, <2>4, <2>5
  <1>11. CASE (\E name \in Requests : WriteControl(name)) \/ UNCHANGED vars
    <2>1. UNCHANGED <<status, mem, files, worker, pc, cur, seen>>
      BY <1>11 DEF WriteControl, vars, disk, tickVars
    <2>2. QED
      BY <2>1 DEF EarnedInv, Honest, Said
  <1>12. QED
    BY <1>2, <1>3, <1>4, <1>5, <1>6, <1>7, <1>8, <1>9, <1>10, <1>11, EarnedSettle, EarnedDispatch
       DEF Next, TickStep

\* A run is completed only on the word of one of its workers, or because its done_check
\* held: no crash, retry, late line or failed spawn completes anything.
THEOREM CompletionIsEarned == Spec => []CompletedIsEarned
  <1>1. ASSUME Init PROVE EarnedInv
    BY <1>1 DEF Init, EarnedInv, Honest
  <1>2. IInv /\ EarnedInv /\ [Next]_vars => EarnedInv'
    BY EarnedKept
  <1>3. EarnedInv => CompletedIsEarned
    BY DEF EarnedInv, Honest, Said, CompletedIsEarned
  <1>4. QED
    BY <1>1, <1>2, <1>3, Invariance, PTL DEF Spec
------------------------------------------------------------------------------
(* Where nothing dies and no OSError falls: what one step does to the state   *)
(* of a run and to its job file, claim lock and result                        *)

\* The result file a run in state s has.
Told(s, f) ==
    CASE s = "completed" -> f.result = "COMPLETED"
      [] s = "failed"    -> f.result \in {"FAILED", "ABANDONED"}
      [] s = "abandoned" -> f.result = "ABANDONED"
      [] s = "auth_or_launch_failed" -> f.result = "AUTH_OR_LAUNCH_FAILED"
      [] OTHER -> f.result = "none"

\* The tick tells the same story of every run, in memory and in results/, at each of
\* its steps; the persisted states only follow.
ToldInv ==
    /\ crashes = 0 /\ faults = 0
    /\ \A r \in Runs : Told(mem.run[r].state, files[r])

SameBooks(f, g) ==
    g.queue = f.queue /\ g.claimed = f.claimed /\ g.lock = f.lock /\ g.result = f.result

Rests(r) == mem'.run[r].state = mem.run[r].state /\ SameBooks(files[r], files'[r])

\* _advance is at the run, or _dispatch at a queued one, or the run is cancelled.
Acted(r) ==
    /\ mem.run[r].state \notin Terminal
    /\ pc \in {"idle", "settle"} \/ mem.run[r].state = "queued"

Ends(r) ==
    /\ Acted(r)
    /\ mem'.run[r].state \in Terminal /\ Told(mem'.run[r].state, files'[r])
    /\ ~files'[r].claimed /\ files'[r].lock = NoLock

Returns(r) ==
    /\ Acted(r)
    /\ mem'.run[r].state = "queued" /\ files'[r].result = "none"
    /\ files'[r].queue /\ ~files'[r].claimed /\ files'[r].lock = NoLock

\* The heartbeat moves the run between the states in flight.
Turns(r) ==
    /\ Acted(r) /\ pc = "settle" /\ r = cur
    /\ mem'.run[r].state \in {"running", "stalled"} /\ SameBooks(files[r], files'[r])
    /\ mem.run[r].state \in InFlight \/ seen.hb = "beat"

Starts(r) ==
    /\ pc = "dispatch" /\ SlotFree /\ mem.run[r].state = "queued"
    /\ mem'.run[r].state = "claimed" /\ files'[r].result = files[r].result
    /\ files[r].queue /\ ~files[r].claimed
           => ~files'[r].queue /\ files'[r].claimed /\ files'[r].lock # NoLock

\* The ticker writes the pid of the worker it has spawned into the lock.
PidTold(r) ==
    /\ pc = "record" /\ r = cur /\ mem' = mem
    /\ SameBooks([files[r] EXCEPT !.lock = files'[r].lock], files'[r])
    /\ files'[r].lock # NoLock

\* A step acts on one run at most, and only a run it starts joins the dispatch list.
Footprint ==
    /\ UNCHANGED budget
    /\ \E r \in Runs :
          /\ \A q \in Runs \ {r} : Rests(q)
          /\ Rests(r) \/ Ends(r) \/ Returns(r) \/ Turns(r) \/ Starts(r) \/ PidTold(r)
          /\ dispatch' \subseteq dispatch \/ (Starts(r) /\ dispatch' \subseteq dispatch \cup {r})

LEMMA FinalRecord ==
    ASSUME NEW f \in RunFiles, NEW v \in Verdict, f.result = "none"
    PROVE  Final(RecordResult(f, v)) = [f EXCEPT !.result = v, !.claimed = FALSE, !.lock = NoLock]
  <1>. DEFINE a == [f EXCEPT !.result = v]
              b == [f EXCEPT !.result = v, !.claimed = FALSE]
              c == [f EXCEPT !.result = v, !.claimed = FALSE, !.lock = NoLock]
  <1>1. RecordResult(f, v) = <<f, a, b, c>>
    BY DEF RecordResult
  <1>. HIDE DEF a, b
  <1>2. Final(<<f, a, b, c>>) = c
    BY DEF Final
  <1>3. QED
    BY <1>1, <1>2

\* What the trails of a step leave in the books of the run.
LEMMA RecordBooks ==
    ASSUME NEW f \in RunFiles, NEW v \in Verdict, f.result = "none"
    PROVE  LET g == Final(RecordResult(f, v))
           IN  g.result = v /\ ~g.claimed /\ g.lock = NoLock
  <1>. DEFINE c == [f EXCEPT !.result = v, !.claimed = FALSE, !.lock = NoLock]
  <1>1. c.result = v /\ ~c.claimed /\ c.lock = NoLock
    BY DEF RunFiles
  <1>2. Final(RecordResult(f, v)) = c
    BY FinalRecord
  <1>3. QED
    BY <1>1, <1>2

LEMMA RequeueBooks ==
    ASSUME NEW f \in RunFiles
    PROVE  LET g == Final(Requeue(f))
           IN  g.queue /\ ~g.claimed /\ g.lock = NoLock /\ g.result = "none"
  <1>. DEFINE a == [f EXCEPT !.result = "none"]
              b == [f EXCEPT !.result = "none", !.claimed = FALSE]
              c == [f EXCEPT !.result = "none", !.claimed = FALSE, !.lock = NoLock]
              d == [c EXCEPT !.queue = TRUE]
              e == [c EXCEPT !.queue = TRUE, !.hb = "none", !.hbAge = 0]
  <1>1. Requeue(f) = <<f, a, b, c, d, e>>
    BY DEF Requeue
  <1>2. e.queue /\ ~e.claimed /\ e.lock = NoLock /\ e.result = "none"
    BY DEF RunFiles
  <1>. HIDE DEF a, b, c, d, e
  <1>3. Final(<<f, a, b, c, d, e>>) = e
    BY DEF Final
  <1>4. QED
    BY <1>1, <1>2, <1>3

LEMMA SkipBooks ==
    ASSUME NEW f \in RunFiles, f.result = "none"
    PROVE  LET g == Final(SkipDone(f))
           IN  g.result = "COMPLETED" /\ ~g.claimed /\ g.lock = NoLock
  <1>. DEFINE trail == RecordResult(f, "COMPLETED")
              last == [Final(trail) EXCEPT !.queue = FALSE]
  <1>1. trail \in Trails
    BY RecordResultType DEF Verdict, TerminalHb
  <1>2. /\ Final(trail) \in RunFiles
        /\ Final(trail).result = "COMPLETED" /\ ~Final(trail).claimed /\ Final(trail).lock = NoLock
    BY <1>1, FinalType, RecordBooks DEF Verdict, TerminalHb
  <1>3. last.result = "COMPLETED" /\ ~last.claimed /\ last.lock = NoLock
    BY <1>2 DEF RunFiles
  <1>. HIDE DEF trail, last
  <1>4. Final(Append(trail, last)) = last
    BY <1>1 DEF Trails, Final
  <1>5. QED
    BY <1>3, <1>4 DEF SkipDone, trail, last

LEMMA HeardBooks ==
    ASSUME NEW f \in RunFiles, NEW line
    PROVE  SameBooks(f, Heard(f, line))
  BY DEF Heard, RunFiles, SameBooks

LEMMA ClaimBooks ==
    ASSUME NEW f \in RunFiles
    PROVE  LET token == ClaimToken(f)
               started == Append(token, Heard(Final(token), "beat"))
               g == Final(token)
           IN  /\ g.result = f.result
               /\ f.queue /\ ~f.claimed => ~g.queue /\ g.claimed /\ g.lock # NoLock
               /\ SameBooks(g, Final(started))
  <1>. DEFINE token == ClaimToken(f)
              last == Heard(Final(token), "beat")
  <1>1. token \in Trails /\ Final(token) \in RunFiles
    BY ClaimTokenType, FinalType
  <1>2. /\ Final(token).result = f.result
        /\ f.queue /\ ~f.claimed =>
              ~Final(token).queue /\ Final(token).claimed /\ Final(token).lock # NoLock
    <2>. DEFINE a == [f EXCEPT !.queue = FALSE, !.claimed = TRUE]
                b == [f EXCEPT !.queue = FALSE, !.claimed = TRUE, !.lock = 0]
    <2>1. b.result = f.result /\ ~b.queue /\ b.claimed /\ b.lock # NoLock
      BY DEF RunFiles, NoLock
    <2>. HIDE DEF a, b
    <2>2. Final(<<f, a, b>>) = b /\ Final(<<f>>) = f
      BY DEF Final
    <2>3. token = IF f.queue /\ ~f.claimed THEN <<f, a, b>> ELSE <<f>>
      BY DEF ClaimToken, a, b
    <2>. HIDE DEF token
    <2>4. QED
      BY <2>1, <2>2, <2>3
  <1>3. SameBooks(Final(token), last)
    BY <1>1, HeardBooks
  <1>. HIDE DEF token, last
  <1>4. Final(Append(token, last)) = last
    BY <1>1 DEF Trails, Final
  <1>5. QED
    BY <1>2, <1>3, <1>4 DEF token, last

LEMMA FinalConcat ==
    ASSUME NEW s \in Trails, NEW t \in Trails
    PROVE  Final(s \o t) = Final(t)
  <1>1. /\ t \in Seq(RunFiles) /\ s \in Seq(RunFiles) /\ Len(t) > 0
    BY DEF Trails
  <1>2. Len(s \o t) = Len(s) + Len(t) /\ (s \o t)[Len(s) + Len(t)] = t[Len(t)]
    BY <1>1
  <1>3. QED
    BY <1>2 DEF Final

LEMMA Spared ==
    ASSUME ToldInv
    PROVE  /\ ~Die /\ \A run : ~Abort(run)
           /\ \A r, trail, risky : Complete(r, trail, risky) =>
                  files' = [files EXCEPT ![r] = Final(trail)] /\ UNCHANGED budget
  BY CompleteExact DEF ToldInv, Die, Abort

\* With nothing to interrupt it, a step completes.
LEMMA PerformEnds ==
    ASSUME IInv, ToldInv, NEW r \in Runs, NEW trail, NEW risky, NEW rec, NEW list,
           Perform(r, trail, risky, rec, list)
    PROVE  /\ mem'.run[r] = rec /\ files'[r] = Final(trail)
           /\ dispatch' = list /\ UNCHANGED budget
           /\ \A q \in Runs \ {r} : Rests(q)
  <1>1. mem \in Status /\ mem.run \in [Runs -> RunRecord] /\ files \in [Runs -> RunFiles]
    BY DEF IInv, TypeOK, Status
  <1>2. /\ files' = [files EXCEPT ![r] = Final(trail)] /\ mem' = [mem EXCEPT !.run[r] = rec]
        /\ dispatch' = list /\ UNCHANGED budget
    BY Spared DEF Perform
  <1>3. /\ mem'.run[r] = rec /\ \A q \in Runs \ {r} : mem'.run[q] = mem.run[q]
        /\ files'[r] = Final(trail) /\ \A q \in Runs \ {r} : files'[q] = files[q]
    BY <1>1, <1>2 DEF Status
  <1>4. QED
    BY <1>2, <1>3 DEF Rests, SameBooks

\* The records a step may write.
LEMMA StatesOf ==
    ASSUME IInv, ToldInv, NEW r \in Runs
    PROVE  /\ mem.run[r] \in RunRecord /\ files[r] \in RunFiles
           /\ \A s : Become(r, s).state = s
           /\ Requeued(mem.run[r]).state = "queued" /\ Claimed(mem.run[r]).state = "claimed"
           /\ mem.run[r].state \notin Terminal => files[r].result = "none"
  <1>1. mem.run[r] \in RunRecord /\ files[r] \in RunFiles
    BY DEF IInv, TypeOK, Status
  <1>2. QED
    BY <1>1 DEF Become, Requeued, Claimed, RunRecord, ToldInv, Told, Terminal

LEMMA RetryFootprint ==
    ASSUME IInv, ToldInv, NEW r \in Runs, NEW risky, NEW v \in {"FAILED", "ABANDONED"},
           pc = "settle", mem.run[r].state \notin Terminal,
           FailOrRetry(r, RecordResult(files[r], v), risky)
    PROVE  Footprint
  <1>. DEFINE trail == RecordResult(files[r], v)
              again == Requeue(Final(trail))
  <1>1. files[r] \in RunFiles /\ files[r].result = "none" /\ v \in Verdict
    BY StatesOf DEF Verdict, TerminalHb
  <1>2. /\ trail \in Trails /\ Final(trail).result = v
        /\ ~Final(trail).claimed /\ Final(trail).lock = NoLock
    BY <1>1, RecordResultType, RecordBooks
  <1>3. /\ again \in Trails
        /\ Final(again).queue /\ ~Final(again).claimed /\ Final(again).lock = NoLock
        /\ Final(again).result = "none"
    BY <1>2, FinalType, RequeueType, RequeueBooks
  <1>4. FailOrRetry(r, trail, risky)
    OBVIOUS
  <1>. HIDE DEF trail
  <1>5. CASE Retryable(r)
    <2>1. \E k : Perform(r, trail \o again, k, Requeued(mem.run[r]), dispatch)
      BY <1>4, <1>5 DEF FailOrRetry
    <2>. HIDE DEF again
    <2>2. Final(trail \o again) = Final(again)
      BY <1>2, <1>3, FinalConcat
    <2>3. Returns(r) /\ dispatch' = dispatch /\ UNCHANGED budget /\ \A q \in Runs \ {r} : Rests(q)
      BY <1>3, <2>1, <2>2, PerformEnds, StatesOf DEF Returns, Acted
    <2>4. QED
      BY <2>3 DEF Footprint
  <1>6. CASE ~Retryable(r)
    <2>1. Perform(r, trail, risky, Become(r, "failed"), dispatch)
      BY <1>4, <1>6 DEF FailOrRetry
    <2>2. Ends(r) /\ dispatch' = dispatch /\ UNCHANGED budget /\ \A q \in Runs \ {r} : Rests(q)
      BY <1>2, <2>1, PerformEnds, StatesOf DEF Ends, Acted, Told, Terminal
    <2>3. QED
      BY <2>2 DEF Footprint
  <1>7. QED
    BY <1>5, <1>6

LEMMA SettleFootprint ==
    ASSUME IInv, ToldInv, NEW r \in Runs,
           \/ ReapTerminal(r) \/ FailDeadPid(r) \/ FailLaunch(r) \/ ReclaimStalled(r)
           \/ MarkStalled(r) \/ MarkRunning(r) \/ LeaveAlone(r)
    PROVE  Footprint
  <1>1. pc = "settle" /\ cur = r
    BY DEF ReapTerminal, FailDeadPid, FailLaunch, ReclaimStalled, MarkStalled, MarkRunning, LeaveAlone
  <1>2. /\ mem.run[r].state \notin Terminal /\ files[r] \in RunFiles /\ files[r].result = "none"
        /\ Acted(r)
    BY <1>1, StatesOf DEF IInv, StatesInv, Acted
  <1>3. \A v \in Verdict : LET g == Final(RecordResult(files[r], v))
                           IN  g.result = v /\ ~g.claimed /\ g.lock = NoLock
    BY <1>2, RecordBooks
  <1>4. \A k : \A s \in Terminal, v \in Verdict :
            /\ Perform(r, RecordResult(files[r], v), k, Become(r, s), dispatch)
            /\ \A f : f.result = v => Told(s, f)
            => Footprint
    <2>. TAKE k
    <2>. TAKE s \in Terminal, v \in Verdict
    <2>1. HAVE /\ Perform(r, RecordResult(files[r], v), k, Become(r, s), dispatch)
               /\ \A f : f.result = v => Told(s, f)
    <2>2. Ends(r) /\ dispatch' = dispatch /\ UNCHANGED budget /\ \A q \in Runs \ {r} : Rests(q)
      BY <1>2, <1>3, <2>1, PerformEnds, StatesOf DEF Ends
    <2>3. QED
      BY <2>2 DEF Footprint
  <1>5. Final(<<files[r]>>) = files[r]
    BY DEF Final
  <1>6. \A k : \A s \in {"running", "stalled"} :
            /\ Perform(r, <<files[r]>>, k, Become(r, s), dispatch)
            /\ mem.run[r].state \in InFlight \/ seen.hb = "beat"
            => Footprint
    <2>. TAKE k
    <2>. TAKE s \in {"running", "stalled"}
    <2>1. HAVE /\ Perform(r, <<files[r]>>, k, Become(r, s), dispatch)
               /\ mem.run[r].state \in InFlight \/ seen.hb = "beat"
    <2>2. Turns(r) /\ dispatch' = dispatch /\ UNCHANGED budget /\ \A q \in Runs \ {r} : Rests(q)
      BY <1>1, <1>2, <1>5, <2>1, PerformEnds, StatesOf DEF Turns, SameBooks
    <2>3. QED
      BY <2>2 DEF Footprint
  <1>7. CASE ReapTerminal(r)
    <2>1. seen.hb \in TerminalHb /\ seen.hb \in Verdict
      BY <1>7 DEF ReapTerminal, Reported, Verdict
    <2>2. CASE seen.hb = "COMPLETED"
      <3>1. Perform(r, RecordResult(files[r], "COMPLETED"), 2, Become(r, "completed"), dispatch)
        BY <1>7, <2>2 DEF ReapTerminal, ReapedState, MoveToResults
      <3>2. QED
        BY <1>4, <2>1, <2>2, <3>1 DEF Told, Terminal
    <2>3. CASE seen.hb # "COMPLETED"
      <3>1. /\ FailOrRetry(r, RecordResult(files[r], seen.hb), 2)
            /\ seen.hb \in {"FAILED", "ABANDONED"}
        BY <1>7, <2>1, <2>3 DEF ReapTerminal, ReapedState, MoveToResults, TerminalHb
      <3>2. QED
        BY <1>1, <1>2, <3>1, RetryFootprint
    <2>4. QED
      BY <2>2, <2>3
  <1>8. CASE FailDeadPid(r)
    BY <1>1, <1>2, <1>8, RetryFootprint DEF FailDeadPid
  <1>9. CASE FailLaunch(r)
    BY <1>4, <1>9 DEF FailLaunch, Told, Terminal, Verdict
  <1>10. CASE ReclaimStalled(r)
    <2>1. CASE Retryable(r)
      <3>1. Perform(r, Requeue(files[r]), 0, Requeued(mem.run[r]), dispatch)
        BY <1>10, <2>1 DEF ReclaimStalled
      <3>2. Returns(r) /\ dispatch' = dispatch /\ UNCHANGED budget /\ \A q \in Runs \ {r} : Rests(q)
        BY <1>2, <3>1, PerformEnds, StatesOf, RequeueBooks DEF Returns
      <3>3. QED
        BY <3>2 DEF Footprint
    <2>2. CASE ~Retryable(r)
      BY <1>4, <1>10, <2>2 DEF ReclaimStalled, Told, Terminal, Verdict, TerminalHb
    <2>3. QED
      BY <2>1, <2>2
  <1>11. CASE MarkStalled(r)
    BY <1>6, <1>11 DEF MarkStalled, Quiet
  <1>12. CASE MarkRunning(r)
    BY <1>6, <1>12 DEF MarkRunning
  <1>13. CASE LeaveAlone(r)
    <2>1. Rests(r) /\ dispatch' = dispatch /\ UNCHANGED budget /\ \A q \in Runs \ {r} : Rests(q)
      BY <1>5, <1>13, PerformEnds DEF LeaveAlone, Rests, SameBooks
    <2>2. QED
      BY <2>1 DEF Footprint
  <1>14. QED
    BY <1>7, <1>8, <1>9, <1>10, <1>11, <1>12, <1>13

LEMMA DispatchFootprint ==
    ASSUME IInv, ToldInv, NEW r \in Runs,
           PassOver(r) \/ ProbeUnsatisfied(r) \/ ProbeSatisfied(r) \/ Claim(r)
    PROVE  Footprint
  <1>1. pc = "dispatch" /\ cur = r
    BY DEF PassOver, ProbeUnsatisfied, ProbeSatisfied, Claim
  <1>2. /\ mem.run[r].state = "queued" /\ files[r] \in RunFiles /\ files[r].result = "none"
        /\ Acted(r) /\ mem.run[r] \in RunRecord
    BY <1>1, StatesOf DEF IInv, StatesInv, Acted, Terminal
  <1>3. CASE PassOver(r)
    BY <1>3 DEF PassOver, disk, Footprint, Rests, SameBooks
  <1>4. CASE ProbeUnsatisfied(r)
    <2>1. mem \in Status /\ mem.run \in [Runs -> RunRecord]
      BY DEF IInv, TypeOK, Status
    <2>2. mem'.run = [mem.run EXCEPT ![r] = [mem.run[r] EXCEPT !.check = "checked"]]
      BY <1>4, <2>1 DEF ProbeUnsatisfied, Status
    <2>3. \A q \in Runs : mem'.run[q].state = mem.run[q].state
      BY <2>1, <2>2 DEF RunRecord
    <2>4. QED
      BY <1>4, <2>3 DEF ProbeUnsatisfied, disk, Footprint, Rests, SameBooks
  <1>5. CASE ProbeSatisfied(r)
    <2>. DEFINE rec == [mem.run[r] EXCEPT !.state = "completed", !.check = "skipped"]
    <2>1. rec.state = "completed"
      BY <1>2 DEF RunRecord
    <2>. HIDE DEF rec
    <2>2. Perform(r, SkipDone(files[r]), 0, rec, dispatch)
      BY <1>5, Spared DEF ProbeSatisfied, rec
    <2>3. Ends(r) /\ dispatch' = dispatch /\ UNCHANGED budget /\ \A q \in Runs \ {r} : Rests(q)
      BY <1>2, <2>1, <2>2, PerformEnds, SkipBooks DEF Ends, Told, Terminal
    <2>4. QED
      BY <2>3 DEF Footprint
  <1>6. CASE Claim(r)
    <2>. DEFINE token == ClaimToken(files[r])
                started == Append(token, Heard(Final(token), "beat"))
    <2>1. \E k : \E t \in {token, started} : Perform(r, t, k, Claimed(mem.run[r]), dispatch \cup {r})
      BY <1>6, Spared DEF Claim
    <2>2. /\ Final(token).result = files[r].result
          /\ files[r].queue /\ ~files[r].claimed =>
                 ~Final(token).queue /\ Final(token).claimed /\ Final(token).lock # NoLock
          /\ SameBooks(Final(token), Final(started))
      BY <1>2, ClaimBooks
    <2>3. SlotFree
      BY <1>6 DEF Claim
    <2>. HIDE DEF token, started
    <2>4. PICK t \in {token, started} : \E k : Perform(r, t, k, Claimed(mem.run[r]), dispatch \cup {r})
      BY <2>1
    <2>5. /\ Final(t).result = files[r].result
          /\ files[r].queue /\ ~files[r].claimed =>
                 ~Final(t).queue /\ Final(t).claimed /\ Final(t).lock # NoLock
      BY <2>2 DEF SameBooks
    <2>6. /\ Starts(r) /\ dispatch' = dispatch \cup {r} /\ UNCHANGED budget
          /\ \A q \in Runs \ {r} : Rests(q)
      BY <1>1, <1>2, <2>3, <2>4, <2>5, PerformEnds, StatesOf DEF Starts
    <2>7. QED
      BY <2>6 DEF Footprint
  <1>7. QED
    BY <1>3, <1>4, <1>5, <1>6

\* A step that leaves every state and all books as they are.
LEMMA RestFootprint ==
    ASSUME IInv, UNCHANGED budget, \A q \in Runs : Rests(q), dispatch' \subseteq dispatch
    PROVE  Footprint
  <1>1. cur \in Runs
    BY DEF IInv, TypeOK
  <1>2. QED
    BY <1>1 DEF Footprint

LEMMA ControlFootprint ==
    ASSUME IInv, ToldInv, CancelRun \/ ApplyControls \/ Observe \/ Persist \/ Interrupt
    PROVE  Footprint
  <1>1. mem \in Status /\ mem.run \in [Runs -> RunRecord] /\ files \in [Runs -> RunFiles]
    BY DEF IInv, TypeOK, Status
  <1>2. CASE CancelRun
    <2>. DEFINE r == control.cancel
                trail == RecordResult(files[r], "ABANDONED")
    <2>1. r \in Runs /\ mem.run[r].state \notin Terminal /\ pc = "idle"
      BY <1>2 DEF CancelRun, Cancellable, IInv, TypeOK, Control, Runs
    <2>2. Final(trail).result = "ABANDONED" /\ ~Final(trail).claimed /\ Final(trail).lock = NoLock
      BY <2>1, StatesOf, RecordBooks DEF Verdict, TerminalHb
    <2>3. Become(r, "abandoned").state = "abandoned"
      BY <2>1, StatesOf
    <2>. HIDE DEF r, trail
    <2>4. /\ files' = [files EXCEPT ![r] = Final(trail)]
          /\ mem' = [mem EXCEPT !.run[r] = Become(r, "abandoned")]
          /\ dispatch' = dispatch /\ UNCHANGED budget
      BY <1>2, Spared DEF CancelRun, trail, r
    <2>5. /\ mem'.run[r] = Become(r, "abandoned") /\ \A q \in Runs \ {r} : mem'.run[q] = mem.run[q]
          /\ files'[r] = Final(trail) /\ \A q \in Runs \ {r} : files'[q] = files[q]
      BY <1>1, <2>1, <2>4 DEF Status
    <2>6. Ends(r) /\ \A q \in Runs \ {r} : Rests(q)
      BY <2>1, <2>2, <2>3, <2>5 DEF Ends, Acted, Told, Terminal, Rests, SameBooks
    <2>7. QED
      BY <2>1, <2>4, <2>6 DEF Footprint
  <1>3. CASE ApplyControls \/ Observe \/ Persist
    <2>1. mem'.run = mem.run /\ files' = files /\ dispatch' = dispatch /\ UNCHANGED budget
      BY <1>1, <1>3 DEF ApplyControls, Observe, Persist, Status, disk
    <2>2. QED
      BY <2>1, RestFootprint DEF Rests, SameBooks
  <1>4. CASE Interrupt
    BY <1>4, Spared DEF Interrupt, Crash, CrashAfterSummary
  <1>5. QED
    BY <1>2, <1>3, <1>4

LEMMA SpawnFootprint ==
    ASSUME IInv, ToldInv,
           \/ \E r \in Runs : LaunchSubagent(r) \/ LoseSubagent(r) \/ SpawnShell(r) \/ SpawnFails(r)
           \/ RecordPid \/ RecordPidFails
    PROVE  Footprint
  <1>1. files \in [Runs -> RunFiles] /\ cur \in Runs /\ worker[cur] \in Seq(Worker)
    BY DEF IInv, TypeOK
  <1>2. ~RecordPidFails
    BY DEF RecordPidFails, ToldInv
  <1>3. mem' = mem /\ dispatch' \subseteq dispatch /\ UNCHANGED budget
    BY <1>2 DEF LaunchSubagent, LoseSubagent, SpawnShell, SpawnFails, RecordPid, Handled
  <1>4. ASSUME NEW r \in Runs, LaunchSubagent(r) \/ LoseSubagent(r) \/ SpawnShell(r) PROVE Footprint
    <2>1. files' = files
      BY <1>4 DEF LaunchSubagent, LoseSubagent, SpawnShell, disk
    <2>2. QED
      BY <1>3, <2>1, RestFootprint DEF Rests, SameBooks
  <1>5. ASSUME NEW r \in Runs, SpawnFails(r) PROVE Footprint
    <2>1. files' = [files EXCEPT ![r] = Heard(files[r], "FAILED")]
      BY <1>1, <1>5 DEF SpawnFails
    <2>2. \A q \in Runs : SameBooks(files[q], files'[q])
      BY <1>1, <2>1, HeardBooks DEF SameBooks
    <2>3. QED
      BY <1>3, <2>2, RestFootprint DEF Rests
  <1>6. CASE RecordPid
    <2>1. files' = [files EXCEPT ![cur].lock = Len(worker[cur])] /\ pc = "record"
      BY <1>6 DEF RecordPid
    <2>2. Len(worker[cur]) # NoLock
      BY <1>1 DEF NoLock
    <2>3. PidTold(cur) /\ \A q \in Runs \ {cur} : Rests(q)
      BY <1>1, <1>3, <2>1, <2>2 DEF PidTold, Rests, SameBooks, RunFiles
    <2>4. QED
      BY <1>1, <1>3, <2>3 DEF Footprint
  <1>7. QED
    BY <1>2, <1>4, <1>5, <1>6

LEMMA OutsideFootprint ==
    ASSUME IInv, ToldInv,
           \/ \E r \in Runs : WorkerStep(r)
           \/ Pass \/ (\E name \in Requests : WriteControl(name)) \/ UNCHANGED vars
    PROVE  Footprint
  <1>1. files \in [Runs -> RunFiles] /\ status \in Status /\ \A q \in Runs : status.run[q] \in RunRecord
    BY DEF IInv, TypeOK, Status
  <1>2. ASSUME NEW r \in Runs, WorkerStep(r) PROVE Footprint
    <2>1. PICK i \in DOMAIN worker[r] :
              \/ Beat(r, i) \/ WriteOutput(r, i) \/ Hang(r, i) \/ Exit(r, i)
              \/ \E sentinel \in Sentinels : Report(r, i, sentinel)
      BY <1>2 DEF WorkerStep
    <2>2. UNCHANGED <<mem, dispatch, budget>>
      BY <2>1 DEF Beat, WriteOutput, Hang, Exit, Report, tickVars
    <2>3. files' = files \/ \E line : files' = [files EXCEPT ![r] = Heard(files[r], line)]
      BY <1>1, <2>1 DEF Beat, WriteOutput, Hang, Exit, Report, disk
    <2>4. \A q \in Runs : SameBooks(files[q], files'[q])
      BY <1>1, <2>3, HeardBooks DEF SameBooks
    <2>5. QED
      BY <2>2, <2>4, RestFootprint DEF Rests
  <1>3. CASE Pass
    <2>1. /\ status'.run = [q \in Runs |-> AgedRun(status.run[q])] /\ mem' = status' /\ mem = status
          /\ UNCHANGED <<dispatch, budget>>
      BY <1>1, <1>3 DEF Pass, Status, IInv, AttemptsInv
    <2>2. \A q \in Runs : AgedRun(status.run[q]).state = status.run[q].state
      BY <1>1 DEF AgedRun, RunRecord
    <2>3. files' = [q \in Runs |->
                       [files[q] EXCEPT !.hbAge = IF files[q].hb = "beat" THEN Older(@) ELSE @]]
      BY <1>3 DEF Pass
    <2>4. \A q \in Runs : SameBooks(files[q], files'[q])
      BY <1>1, <2>3 DEF RunFiles, SameBooks
    <2>5. QED
      BY <2>1, <2>2, <2>4, RestFootprint DEF Rests
  <1>4. CASE (\E name \in Requests : WriteControl(name)) \/ UNCHANGED vars
    <2>1. UNCHANGED <<mem, files, dispatch, budget>>
      BY <1>4 DEF WriteControl, vars, disk, tickVars
    <2>2. QED
      BY <2>1, RestFootprint DEF Rests, SameBooks
  <1>5. QED
    BY <1>2, <1>3, <1>4

LEMMA EveryFootprint ==
    ASSUME IInv, ToldInv, [Next]_vars
    PROVE  Footprint
  BY ControlFootprint, SettleFootprint, DispatchFootprint, SpawnFootprint, OutsideFootprint
     DEF Next, TickStep

LEMMA ToldKept ==
    ASSUME IInv, ToldInv, [Next]_vars
    PROVE  ToldInv'
  <1>1. Footprint
    BY EveryFootprint
  <1>2. PICK r \in Runs :
            /\ \A q \in Runs \ {r} : Rests(q)
            /\ Rests(r) \/ Ends(r) \/ Returns(r) \/ Turns(r) \/ Starts(r) \/ PidTold(r)
    BY <1>1 DEF Footprint
  <1>3. \A q \in Runs : Rests(q) => Told(mem'.run[q].state, files'[q])
    BY DEF ToldInv, Told, Rests, SameBooks
  <1>4. Told(mem'.run[r].state, files'[r])
    <2>1. /\ mem.run[r].state \notin Terminal => files[r].result = "none"
          /\ Told(mem.run[r].state, files[r]) /\ files[r] \in RunFiles
      BY StatesOf DEF ToldInv
    <2>2. CASE Rests(r)
      BY <1>3, <2>2
    <2>3. CASE Ends(r)
      BY <2>3 DEF Ends
    <2>4. CASE Returns(r)
      BY <2>4 DEF Returns, Told
    <2>5. CASE Turns(r)
      BY <2>1, <2>5 DEF Turns, Acted, SameBooks, Told
    <2>6. CASE Starts(r)
      BY <2>1, <2>6 DEF Starts, Told, Terminal
    <2>7. CASE PidTold(r)
      BY <2>1, <2>7 DEF PidTold, SameBooks, Told, RunFiles
    <2>8. QED
      BY <1>2, <2>2, <2>3, <2>4, <2>5, <2>6, <2>7
  <1>5. crashes' = 0 /\ faults' = 0
    BY <1>1 DEF Footprint, ToldInv, budget
  <1>6. QED
    BY <1>2, <1>3, <1>4, <1>5 DEF ToldInv

LEMMA ToldInit ==
    ASSUME MaxCrashes = 0, MaxFaults = 0, Init
    PROVE  ToldInv
  BY DEF Init, ToldInv, Told

\* As long as nothing dies and no OSError falls, the state harness_status.json gives
\* a finished run and the terminal status of its result file tell the same story: what
\* is written to results/ is what the record then becomes, and a retry clears both.
THEOREM ResultsTellTheState ==
    ASSUME MaxCrashes = 0, MaxFaults = 0
    PROVE  Spec => []ResultMatchesState
  <1>1. Init => ToldInv
    BY ToldInit
  <1>2. IInv /\ ToldInv /\ [Next]_vars => ToldInv'
    BY ToldKept
  <1>3. IInv /\ ToldInv => ResultMatchesState
    <2>. SUFFICES ASSUME IInv, ToldInv PROVE ResultMatchesState
      OBVIOUS
    <2>1. \A r \in Runs : status.run[r].state \in Terminal =>
                             Told(status.run[r].state, files[r])
      BY DEF IInv, StatesInv, ToldInv
    <2>2. QED
      BY <2>1 DEF ResultMatchesState, Told, Terminal
  <1>4. QED
    BY <1>1, <1>2, <1>3, Invariance, PTL DEF Spec
==============================================================================
