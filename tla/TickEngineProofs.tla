--------------------------- MODULE TickEngineProofs ---------------------------
(***************************************************************************)
(* Proofs about TickEngine, for every plan, threshold and fault budget.    *)
(***************************************************************************)
EXTENDS TickEngine, SequenceTheorems, TLAPS

\* The contents one run's files go through: at least one, each well typed.
Trails == {t \in Seq(RunFiles) : Len(t) > 0}

LEMMA RecordResultType ==
    ASSUME NEW f \in RunFiles, NEW v \in Verdict
    PROVE  RecordResult(f, v) \in Trails
  <1>1. CASE f.result # "none"
    BY <1>1 DEF RecordResult, Trails
  <1>2. CASE f.result = "none"
    <2> DEFINE a == [f EXCEPT !.result = v]
               b == [f EXCEPT !.result = v, !.claimed = FALSE]
               c == [f EXCEPT !.result = v, !.claimed = FALSE, !.lock = NoLock]
    <2>1. a \in RunFiles /\ b \in RunFiles /\ c \in RunFiles
      BY DEF RunFiles, NoLock
    <2> HIDE DEF a, b, c
    <2>2. <<f, a, b, c>> \in Trails
      BY <2>1 DEF Trails
    <2>3. QED
      BY <1>2, <2>2 DEF RecordResult, a, b, c
  <1>3. QED
    BY <1>1, <1>2

LEMMA RequeueType ==
    ASSUME NEW f \in RunFiles
    PROVE  Requeue(f) \in Trails
  <1> DEFINE a == [f EXCEPT !.result = "none"]
             b == [f EXCEPT !.result = "none", !.claimed = FALSE]
             c == [f EXCEPT !.result = "none", !.claimed = FALSE, !.lock = NoLock]
             d == [c EXCEPT !.queue = TRUE]
             e == [c EXCEPT !.queue = TRUE, !.hb = "none", !.hbAge = 0]
  <1>1. a \in RunFiles /\ b \in RunFiles /\ c \in RunFiles
    BY DEF RunFiles, NoLock
  <1> HIDE DEF a, b, c
  <1>2. d \in RunFiles /\ e \in RunFiles
    <2>1. d \in RunFiles
      BY <1>1 DEF RunFiles
    <2>2. 0 \in Age /\ "none" \in Heartbeat
      BY TimeAssumption DEF Heartbeat, Age
    <2>3. e \in RunFiles
      BY <1>1, <2>2 DEF RunFiles
    <2>4. QED
      BY <2>1, <2>3
  <1> HIDE DEF d, e
  <1>3. <<f, a, b, c, d, e>> \in Trails
    BY <1>1, <1>2 DEF Trails
  <1>4. QED
    BY <1>3 DEF Requeue, a, b, c, d, e

LEMMA FinalType ==
    ASSUME NEW t \in Trails
    PROVE  Final(t) \in RunFiles /\ \A k \in 1..Len(t) : t[k] \in RunFiles
  BY DEF Trails, Final

LEMMA HeardType ==
    ASSUME NEW f \in RunFiles, NEW line \in Heartbeat
    PROVE  Heard(f, line) \in RunFiles
  <1>1. AppendLine(f.hb, line) \in Heartbeat /\ 0 \in Age
    BY TimeAssumption DEF RunFiles, AppendLine, Age
  <1>2. Heard(f, line) = [f EXCEPT !.hb = AppendLine(f.hb, line), !.hbAge = 0]
    BY DEF Heard, RunFiles
  <1>3. QED
    BY <1>1, <1>2 DEF RunFiles

LEMMA SkipDoneType ==
    ASSUME NEW f \in RunFiles
    PROVE  SkipDone(f) \in Trails
  <1> DEFINE trail == RecordResult(f, "COMPLETED")
             last == [Final(trail) EXCEPT !.queue = FALSE]
  <1>1. trail \in Trails
    BY RecordResultType DEF Verdict, TerminalHb
  <1>2. last \in RunFiles
    BY <1>1, FinalType DEF RunFiles
  <1>3. Append(trail, last) \in Trails
    BY <1>1, <1>2 DEF Trails
  <1>4. QED
    BY <1>3 DEF SkipDone

LEMMA ClaimTokenType ==
    ASSUME NEW f \in RunFiles
    PROVE  ClaimToken(f) \in Trails
  <1> DEFINE a == [f EXCEPT !.queue = FALSE, !.claimed = TRUE]
             b == [f EXCEPT !.queue = FALSE, !.claimed = TRUE, !.lock = 0]
  <1>1. a \in RunFiles /\ b \in RunFiles
    BY DEF RunFiles
  <1> HIDE DEF a, b
  <1>2. <<f, a, b>> \in Trails /\ <<f>> \in Trails
    BY <1>1 DEF Trails
  <1>3. QED
    BY <1>2 DEF ClaimToken, a, b

LEMMA ConcatType ==
    ASSUME NEW s \in Trails, NEW t \in Trails
    PROVE  s \o t \in Trails
  BY DEF Trails
------------------------------------------------------------------------------
(* Type correctness *)

LEMMA MoveOnType ==
    ASSUME TypeOK, MoveOn
    PROVE  cur' \in Runs /\ pc' \in {"advance", "dispatch", "persist"}
  <1>1. 1 \in Runs
    BY PlanAssumption DEF Runs
  <1>2. QED
    BY <1>1 DEF MoveOn, GoToAdvance, GoOnDispatching, GoToDispatch, GoToPersist

LEMMA DieType ==
    ASSUME TypeOK, Die
    PROVE  /\ mem' \in Status /\ cur' \in Runs /\ pc' = "idle" /\ dispatch' \subseteq Runs
           /\ seen' \in [hb: Heartbeat, age: Age] /\ crashes' \in Nat /\ faults' \in Nat
  <1>1. Unseen \in [hb: Heartbeat, age: Age]
    BY TimeAssumption DEF Unseen, Heartbeat, Age
  <1>2. 1 \in Runs
    BY PlanAssumption DEF Runs
  <1>3. QED
    BY <1>1, <1>2 DEF Die, TypeOK

LEMMA AbortType ==
    ASSUME TypeOK, NEW run \in [Runs -> RunRecord], Abort(run)
    PROVE  /\ mem' \in Status /\ cur' \in Runs /\ pc' = "persist" /\ dispatch' \subseteq Runs
           /\ seen' \in [hb: Heartbeat, age: Age] /\ crashes' \in Nat /\ faults' \in Nat
  <1>1. Unseen \in [hb: Heartbeat, age: Age]
    BY TimeAssumption DEF Unseen, Heartbeat, Age
  <1>2. 1 \in Runs
    BY PlanAssumption DEF Runs
  <1>3. mem' \in Status
    BY DEF Abort, TypeOK, Status
  <1>4. faults' \in Nat
    BY DEF Abort, TypeOK
  <1>5. QED
    BY <1>1, <1>2, <1>3, <1>4 DEF Abort, TypeOK

\* What a swallowed OSError leaves is well-formed, and takes away no result the trail
\* ends with.
LEMMA WithoutType ==
    ASSUME NEW trail \in Trails, NEW k \in 1..Len(trail), Swallows(trail, k)
    PROVE  /\ Without(trail, k) \in RunFiles
           /\ Final(trail).result # "none" => Without(trail, k).result # "none"
           /\ Without(trail, k).hb \in {trail[k].hb, Final(trail).hb}
  <1>1. trail[k] \in RunFiles /\ trail[k + 1] \in RunFiles /\ Final(trail) \in RunFiles
    BY FinalType DEF Trails, Swallows, Writes
  <1>. DEFINE Stays(old, new, last) == IF old = new THEN last ELSE old
             f == trail[k]
             g == trail[k + 1]
             h == Final(trail)
  <1>2. ASSUME NEW S, NEW a \in S, NEW b \in S, NEW c \in S PROVE Stays(a, b, c) \in S
    OBVIOUS
  <1>3. /\ f.queue \in BOOLEAN /\ g.queue \in BOOLEAN /\ h.queue \in BOOLEAN
        /\ f.claimed \in BOOLEAN /\ g.claimed \in BOOLEAN /\ h.claimed \in BOOLEAN
        /\ f.lock \in Nat \cup {NoLock} /\ g.lock \in Nat \cup {NoLock} /\ h.lock \in Nat \cup {NoLock}
        /\ f.result \in {"none"} \cup Verdict /\ g.result \in {"none"} \cup Verdict
        /\ h.result \in {"none"} \cup Verdict
        /\ f.hb \in Heartbeat /\ g.hb \in Heartbeat /\ h.hb \in Heartbeat
        /\ f.hbAge \in Age /\ g.hbAge \in Age /\ h.hbAge \in Age
    BY <1>1 DEF RunFiles
  <1>4. Without(trail, k) =
            [queue |-> Stays(f.queue, g.queue, h.queue), claimed |-> Stays(f.claimed, g.claimed, h.claimed),
             lock |-> Stays(f.lock, g.lock, h.lock), result |-> Stays(f.result, g.result, h.result),
             hb |-> Stays(f.hb, g.hb, h.hb), hbAge |-> Stays(f.hbAge, g.hbAge, h.hbAge)]
    BY DEF Without
  <1>5. f.result = "none" => g.result = "none"
    BY DEF Swallows
  <1>6. /\ h.result # "none" => Stays(f.result, g.result, h.result) # "none"
        /\ Stays(f.hb, g.hb, h.hb) \in {f.hb, h.hb}
    BY <1>5
  <1>7. /\ Stays(f.queue, g.queue, h.queue) \in BOOLEAN
        /\ Stays(f.claimed, g.claimed, h.claimed) \in BOOLEAN
        /\ Stays(f.lock, g.lock, h.lock) \in Nat \cup {NoLock}
        /\ Stays(f.result, g.result, h.result) \in {"none"} \cup Verdict
        /\ Stays(f.hb, g.hb, h.hb) \in Heartbeat
        /\ Stays(f.hbAge, g.hbAge, h.hbAge) \in Age
    BY <1>2, <1>3
  <1>. HIDE DEF Stays, f, g, h
  <1>8. QED
    BY <1>4, <1>6, <1>7 DEF RunFiles, f, h

\* A step that goes through its trail leaves one well-formed content.
LEMMA CompleteType ==
    ASSUME TypeOK, NEW r \in Runs, NEW trail \in Trails, NEW risky, Complete(r, trail, risky)
    PROVE  /\ files'[r] \in RunFiles /\ files' = [files EXCEPT ![r] = files'[r]]
           /\ Final(trail).result # "none" => files'[r].result # "none"
           /\ \E k \in 1..Len(trail) : files'[r].hb \in {trail[k].hb, Final(trail).hb}
           /\ files' \in [Runs -> RunFiles] /\ crashes' \in Nat /\ faults' \in Nat
           /\ faults' # faults \/ files' = [files EXCEPT ![r] = Final(trail)]
           /\ \A q \in Runs \ {r} : files'[q] = files[q]
  <1>1. files \in [Runs -> RunFiles] /\ crashes \in Nat /\ faults \in Nat
    BY DEF TypeOK
  <1>2. Final(trail) \in RunFiles /\ 1 \in 1..Len(trail)
    BY FinalType DEF Trails
  <1>3. CASE files' = [files EXCEPT ![r] = Final(trail)] /\ UNCHANGED budget
    <2>1. files'[r] = Final(trail)
      BY <1>1, <1>3
    <2>2. QED
      BY <1>1, <1>2, <1>3, <2>1 DEF budget
  <1>4. ASSUME faults > 0, faults' = faults - 1, UNCHANGED crashes, NEW k \in 1..Len(trail),
               Swallows(trail, k), files' = [files EXCEPT ![r] = Without(trail, k)]
        PROVE  /\ files'[r] \in RunFiles /\ files' = [files EXCEPT ![r] = files'[r]]
               /\ Final(trail).result # "none" => files'[r].result # "none"
               /\ files'[r].hb \in {trail[k].hb, Final(trail).hb}
               /\ files' \in [Runs -> RunFiles]
               /\ \A q \in Runs \ {r} : files'[q] = files[q]
               /\ crashes' \in Nat /\ faults' \in Nat /\ faults' # faults
    <2>1. files'[r] = Without(trail, k)
      BY <1>1, <1>4
    <2>2. QED
      BY <1>1, <1>4, <2>1, WithoutType
  <1>5. QED
    BY <1>1, <1>2, <1>3, <1>4 DEF Complete

\* With no OSError left, none is swallowed.
LEMMA CompleteExact ==
    ASSUME NEW r, NEW trail, NEW risky, Complete(r, trail, risky), faults = 0
    PROVE  files' = [files EXCEPT ![r] = Final(trail)] /\ UNCHANGED budget
  BY DEF Complete

LEMMA PerformType ==
    ASSUME TypeOK, NEW r \in Runs, NEW trail \in Trails, NEW risky \in Nat,
           NEW rec \in RunRecord, NEW list \in SUBSET Runs,
           Perform(r, trail, risky, rec, list)
    PROVE  TypeOK'
  <1>1. Final(trail) \in RunFiles /\ \A k \in 1..Len(trail) : trail[k] \in RunFiles
    BY FinalType
  <1>2. files' \in [Runs -> RunFiles]
    <2>1. \E f \in RunFiles : files' = [files EXCEPT ![r] = f]
      <3>1. \A k \in 1..risky : Writes(trail, k) => k \in 1..Len(trail)
        BY DEF Trails, Writes
      <3>2. QED
        BY <1>1, <3>1, CompleteType DEF Perform
    <2>2. QED
      BY <2>1 DEF TypeOK
  <1>3. Unseen \in [hb: Heartbeat, age: Age]
    BY TimeAssumption DEF Unseen, Heartbeat, Age
  <1>4. /\ mem' \in Status /\ cur' \in Runs /\ pc' \in {"idle", "advance", "dispatch", "persist"}
        /\ dispatch' \subseteq Runs /\ seen' \in [hb: Heartbeat, age: Age]
        /\ crashes' \in Nat /\ faults' \in Nat
    <2>1. CASE /\ Complete(r, trail, risky)
               /\ mem' = [mem EXCEPT !.run[r] = rec]
               /\ dispatch' = list /\ seen' = Unseen /\ MoveOn
      <3>1. mem' \in Status
        BY <2>1 DEF TypeOK, Status
      <3>2. crashes' \in Nat /\ faults' \in Nat
        BY <2>1, CompleteType
      <3>3. QED
        BY <2>1, <3>1, <3>2, <1>3, MoveOnType DEF TypeOK
    <2>2. CASE Die
      BY <2>2, DieType
    <2>3. CASE Abort(mem.run)
      <3>1. mem.run \in [Runs -> RunRecord]
        BY DEF TypeOK, Status
      <3>2. QED
        BY <2>3, <3>1, AbortType
    <2>4. QED
      BY <2>1, <2>2, <2>3 DEF Perform
  <1>5. QED
    BY <1>2, <1>4 DEF Perform, TypeOK

LEMMA RecordTypes ==
    ASSUME TypeOK, NEW r \in Runs
    PROVE  /\ mem.run \in [Runs -> RunRecord] /\ mem.run[r] \in RunRecord
           /\ files[r] \in RunFiles
           /\ Requeued(mem.run[r]) \in RunRecord
           /\ Claimed(mem.run[r]) \in RunRecord
           /\ \A state \in RunState : Become(r, state) \in RunRecord
  <1>1. mem.run \in [Runs -> RunRecord] /\ mem.run[r] \in RunRecord /\ files[r] \in RunFiles
    BY DEF TypeOK, Status
  <1>2. 0 \in Age /\ 0 \in 0..Backoff /\ Backoff \in 0..Backoff
    BY TimeAssumption DEF Age
  <1>3. "queued" \in RunState /\ "claimed" \in RunState
    BY DEF RunState, InFlight
  <1>4. Requeued(mem.run[r]) \in RunRecord
    BY <1>1, <1>2, <1>3 DEF Requeued, RunRecord
  <1>5. mem.run[r].attempts + 1 \in Nat
    BY <1>1 DEF RunRecord
  <1>6. Claimed(mem.run[r]) \in RunRecord
    BY <1>1, <1>2, <1>3, <1>5 DEF Claimed, RunRecord
  <1>7. \A state \in RunState : Become(r, state) \in RunRecord
    BY <1>1, <1>2 DEF Become, RunRecord
  <1>8. QED
    BY <1>1, <1>4, <1>6, <1>7

LEMMA FailOrRetryType ==
    ASSUME TypeOK, NEW r \in Runs, NEW trail \in Trails, NEW risky \in Nat,
           FailOrRetry(r, trail, risky)
    PROVE  TypeOK'
  <1>1. trail \o Requeue(Final(trail)) \in Trails
    BY FinalType, RequeueType, ConcatType
  <1>2. "failed" \in RunState /\ dispatch \in SUBSET Runs
    BY DEF RunState, Terminal, TypeOK
  <1>3. CASE Retryable(r)
    BY <1>1, <1>2, <1>3, RecordTypes, PerformType DEF FailOrRetry
  <1>4. CASE ~Retryable(r)
    BY <1>2, <1>4, RecordTypes, PerformType DEF FailOrRetry
  <1>5. QED
    BY <1>3, <1>4

LEMMA SettleType ==
    ASSUME TypeOK, NEW r \in Runs,
           \/ ReapTerminal(r) \/ FailDeadPid(r) \/ FailLaunch(r) \/ ReclaimStalled(r)
           \/ MarkStalled(r) \/ MarkRunning(r) \/ LeaveAlone(r)
    PROVE  TypeOK'
  <1>1. /\ \A state \in {"completed", "failed", "auth_or_launch_failed", "abandoned",
                         "stalled", "running"} : Become(r, state) \in RunRecord
        /\ files[r] \in RunFiles /\ mem.run[r] \in RunRecord
        /\ Requeued(mem.run[r]) \in RunRecord
    BY RecordTypes DEF RunState, Terminal, InFlight
  <1>2. <<files[r]>> \in Trails /\ Requeue(files[r]) \in Trails
    BY <1>1, RequeueType DEF Trails
  <1>3. \A v \in Verdict : RecordResult(files[r], v) \in Trails
    BY <1>1, RecordResultType
  <1>4. dispatch \in SUBSET Runs
    BY DEF TypeOK
  <1>5. CASE ReapTerminal(r)
    <2>1. MoveToResults(files[r], seen.hb) \in Trails
      BY <1>3, <1>5 DEF ReapTerminal, Reported, MoveToResults, Verdict
    <2>2. QED
      BY <1>1, <1>4, <1>5, <2>1, PerformType, FailOrRetryType DEF ReapTerminal
  <1>6. CASE FailDeadPid(r)
    BY <1>3, <1>6, FailOrRetryType DEF FailDeadPid, Verdict, TerminalHb
  <1>7. CASE FailLaunch(r)
    BY <1>1, <1>3, <1>4, <1>7, PerformType DEF FailLaunch, Verdict
  <1>8. CASE ReclaimStalled(r)
    BY <1>1, <1>2, <1>3, <1>4, <1>8, PerformType DEF ReclaimStalled, Verdict, TerminalHb
  <1>9. CASE MarkStalled(r)
    BY <1>1, <1>2, <1>4, <1>9, PerformType DEF MarkStalled
  <1>10. CASE MarkRunning(r)
    BY <1>1, <1>2, <1>4, <1>10, PerformType DEF MarkRunning
  <1>11. CASE LeaveAlone(r)
    BY <1>1, <1>2, <1>4, <1>11, PerformType DEF LeaveAlone
  <1>12. QED
    BY <1>5, <1>6, <1>7, <1>8, <1>9, <1>10, <1>11

LEMMA ControlType ==
    ASSUME TypeOK, CancelRun \/ ApplyControls
    PROVE  TypeOK'
  <1>1. \A n \in Nat, c \in 0..NumRuns : [NoControl EXCEPT !.left = n, !.cancel = c] \in Control
    BY DEF NoControl, Control
  <1>2. CASE CancelRun
    <2> DEFINE r == control.cancel
               trail == RecordResult(files[r], "ABANDONED")
    <2>1. r \in Runs
      BY <1>2 DEF CancelRun, Cancellable, TypeOK, Control, Runs
    <2>2. trail \in Trails
      BY <2>1, RecordTypes, RecordResultType DEF Verdict, TerminalHb
    <2>3. Final(trail) \in RunFiles /\ \A k \in 1..Len(trail) : trail[k] \in RunFiles
      BY <2>2, FinalType
    <2> HIDE DEF trail
    <2>4. CASE /\ Complete(r, trail, 1)
               /\ mem' = [mem EXCEPT !.run[r] = Become(r, "abandoned")]
               /\ control' = [control EXCEPT !.cancel = 0]
               /\ pc' = "control"
               /\ UNCHANGED <<cur, seen, dispatch>>
      <3>1. Become(r, "abandoned") \in RunRecord
        BY <2>1, RecordTypes DEF RunState, Terminal
      <3>2. mem' \in Status
        BY <2>1, <2>4, <3>1 DEF TypeOK, Status
      <3>3. control' \in Control
        <4>1. 0 \in 0..NumRuns
          BY PlanAssumption
        <4>2. control \in [cancel: 0..NumRuns, pause: BOOLEAN, resume: BOOLEAN, pool: Nat, left: Nat]
          BY DEF TypeOK, Control
        <4>3. control' = [control EXCEPT !.cancel = 0]
          BY <2>4
        <4>4. QED
          BY <4>1, <4>2, <4>3 DEF Control
      <3>4. files' \in [Runs -> RunFiles] /\ crashes' \in Nat /\ faults' \in Nat
        BY <2>1, <2>2, <2>4, CompleteType
      <3>5. QED
        BY <1>2, <2>4, <3>2, <3>3, <3>4 DEF TypeOK, CancelRun
    <2>5. CASE /\ \E k \in 1..Len(trail) : files' = [files EXCEPT ![r] = trail[k]]
               /\ Die /\ UNCHANGED control
      <3>1. files' \in [Runs -> RunFiles]
        BY <2>1, <2>3, <2>5 DEF TypeOK
      <3>2. QED
        BY <1>2, <2>5, <3>1, DieType DEF TypeOK, CancelRun
    <2>6. QED
      BY <1>2, <2>4, <2>5 DEF CancelRun, trail
  <1>3. CASE ApplyControls
    <2>1. mem' \in Status
      <3>1. control.pool \in Nat /\ (control.pool > 0 => control.pool \in Nat \ {0})
        BY DEF TypeOK, Control
      <3>2. QED
        BY <1>3, <3>1 DEF ApplyControls, PausedNow, TypeOK, Status
    <2>2. cur' \in Runs /\ pc' \in {"advance", "dispatch", "persist"}
      <3>1. 1 \in Runs
        BY PlanAssumption DEF Runs
      <3>2. QED
        BY <1>3, <3>1 DEF ApplyControls, GoToAdvance, GoToDispatch, GoToPersist
    <2>3. control' \in Control
      <3>1. control.left \in Nat /\ control.cancel \in 0..NumRuns /\ 0 \in 0..NumRuns
        BY PlanAssumption DEF TypeOK, Control
      <3>2. QED
        BY <1>1, <1>3, <3>1 DEF ApplyControls
    <2>4. QED
      BY <1>3, <2>1, <2>2, <2>3 DEF ApplyControls, TypeOK, budget
  <1>4. QED
    BY <1>2, <1>3

LEMMA DispatchType ==
    ASSUME TypeOK, NEW r \in Runs,
           PassOver(r) \/ ProbeUnsatisfied(r) \/ ProbeSatisfied(r) \/ Claim(r)
    PROVE  TypeOK'
  <1>1. /\ files[r] \in RunFiles /\ mem.run \in [Runs -> RunRecord] /\ mem.run[r] \in RunRecord
        /\ Claimed(mem.run[r]) \in RunRecord
    BY RecordTypes
  <1>2. dispatch \in SUBSET Runs /\ dispatch \cup {r} \in SUBSET Runs
    BY DEF TypeOK
  <1>3. [mem.run[r] EXCEPT !.check = "checked"] \in RunRecord
    BY <1>1 DEF RunRecord
  <1>4. CASE PassOver(r)
    BY <1>4, MoveOnType DEF PassOver, TypeOK, disk, budget
  <1>5. CASE ProbeUnsatisfied(r)
    <2>1. mem' \in Status
      BY <1>1, <1>3, <1>5 DEF ProbeUnsatisfied, TypeOK, Status
    <2>2. QED
      BY <1>5, <2>1 DEF ProbeUnsatisfied, TypeOK, disk, budget
  <1>6. CASE ProbeSatisfied(r)
    <2> DEFINE rec == [mem.run[r] EXCEPT !.state = "completed", !.check = "skipped"]
               run == [mem.run EXCEPT ![r].check = "checked"]
    <2>1. rec \in RunRecord
      BY <1>1 DEF RunRecord, RunState, Terminal
    <2>2. run \in [Runs -> RunRecord]
      BY <1>1, <1>3
    <2>3. SkipDone(files[r]) \in Trails
      BY <1>1, SkipDoneType
    <2> HIDE DEF rec, run
    <2>4. CASE Perform(r, SkipDone(files[r]), 0, rec, dispatch)
      BY <1>2, <2>1, <2>3, <2>4, PerformType
    <2>5. CASE Abort(run) /\ UNCHANGED <<status, disk, outAge, sinceTick, worker>>
      BY <2>2, <2>5, AbortType DEF TypeOK, disk
    <2>6. QED
      BY <1>6, <2>4, <2>5 DEF ProbeSatisfied, rec, run
  <1>7. CASE Claim(r)
    <2> DEFINE token == ClaimToken(files[r])
               started == Append(token, Heard(Final(token), "beat"))
               run == [mem.run EXCEPT ![r] = Claimed(@)]
    <2>1. token \in Trails
      BY <1>1, ClaimTokenType
    <2>2. Final(token) \in RunFiles
      BY <2>1, FinalType
    <2>3. Heard(Final(token), "beat") \in RunFiles
      BY <2>2, HeardType DEF Heartbeat
    <2>4. started \in Trails
      BY <2>1, <2>3 DEF Trails
    <2>5. run \in [Runs -> RunRecord]
      BY <1>1
    <2> HIDE DEF token, started, run
    <2>6. CASE Perform(r, token, 2, Claimed(mem.run[r]), dispatch \cup {r})
      BY <1>1, <1>2, <2>1, <2>6, PerformType
    <2>7. CASE Perform(r, started, Len(token) - 1, Claimed(mem.run[r]), dispatch \cup {r})
      <3>1. Len(token) - 1 \in Nat
        BY <2>1 DEF Trails
      <3>2. QED
        BY <1>1, <1>2, <2>4, <2>7, <3>1, PerformType
    <2>8. CASE /\ files' = [files EXCEPT ![r] = Final(token)]
               /\ Abort(run)
               /\ UNCHANGED <<status, outAge, control, summary, sinceTick, worker>>
      BY <2>2, <2>5, <2>8, AbortType DEF TypeOK
    <2>9. QED
      BY <1>7, <2>6, <2>7, <2>8 DEF Claim, token, started, run
  <1>8. QED
    BY <1>4, <1>5, <1>6, <1>7

LEMMA PersistType ==
    ASSUME TypeOK, Persist \/ CrashAfterSummary
    PROVE  TypeOK'
  <1>1. NewSummary \in [Runs -> {"none"} \cup RunState]
    <2>1. \A r \in Runs : mem.run[r].state \in RunState
      BY DEF TypeOK, Status, RunRecord
    <2>2. QED
      BY <2>1 DEF NewSummary, TypeOK
  <1>2. CASE Persist
    <2>1. [mem EXCEPT !.done = AllTerminal(mem.run)] \in Status
      <3>1. AllTerminal(mem.run) \in BOOLEAN
        BY DEF AllTerminal
      <3> DEFINE all == AllTerminal(mem.run)
      <3> HIDE DEF all
      <3>2. [mem EXCEPT !.done = all] \in Status
        BY <3>1 DEF all, TypeOK, Status
      <3>3. QED
        BY <3>2 DEF all
    <2>2. 0 \in Nat
      OBVIOUS
    <2>3. QED
      BY <1>1, <1>2, <2>1 DEF Persist, TypeOK, budget
  <1>3. CASE CrashAfterSummary
    BY <1>1, <1>3, DieType DEF CrashAfterSummary, TypeOK
  <1>4. QED
    BY <1>2, <1>3

LEMMA HandledType ==
    ASSUME TypeOK, NEW r \in Runs, Handled(r)
    PROVE  /\ dispatch' \subseteq Runs /\ cur' \in Runs /\ pc' \in {"idle", "spawn"}
  <1>1. 1 \in Runs
    BY PlanAssumption DEF Runs
  <1>2. QED
    BY <1>1 DEF Handled, TypeOK

LEMMA LaunchedType ==
    ASSUME TypeOK, NEW r \in Runs, Launched(r)
    PROVE  worker' \in [Runs -> Seq(Worker)]
  <1>1. [proc |-> "working", said |-> "none"] \in Worker
    BY DEF Worker
  <1>2. Append(worker[r], [proc |-> "working", said |-> "none"]) \in Seq(Worker)
    BY <1>1 DEF TypeOK
  <1>3. QED
    BY <1>2 DEF Launched, TypeOK

LEMMA SpawnType ==
    ASSUME TypeOK,
           \/ \E r \in Runs : LaunchSubagent(r) \/ LoseSubagent(r) \/ SpawnShell(r) \/ SpawnFails(r)
           \/ RecordPid \/ RecordPidFails \/ Crash
    PROVE  TypeOK'
  <1>1. \A r \in Runs : Heard(files[r], "FAILED") \in RunFiles
    BY HeardType DEF TypeOK, Heartbeat, TerminalHb
  <1>2. ASSUME NEW r \in Runs, LaunchSubagent(r)
        PROVE  TypeOK'
    BY <1>2, HandledType, LaunchedType DEF LaunchSubagent, TypeOK, disk, budget
  <1>3. ASSUME NEW r \in Runs, LoseSubagent(r)
        PROVE  TypeOK'
    BY <1>3, HandledType DEF LoseSubagent, TypeOK, disk, budget
  <1>4. ASSUME NEW r \in Runs, SpawnShell(r)
        PROVE  TypeOK'
    BY <1>4, LaunchedType DEF SpawnShell, TypeOK, disk, budget
  <1>5. ASSUME NEW r \in Runs, SpawnFails(r)
        PROVE  TypeOK'
    BY <1>1, <1>5, HandledType DEF SpawnFails, TypeOK, budget
  <1>6. CASE RecordPid
    <2>1. cur \in Runs
      BY DEF TypeOK
    <2>2. Len(worker[cur]) \in Nat
      BY DEF TypeOK
    <2>3. [files EXCEPT ![cur].lock = Len(worker[cur])] \in [Runs -> RunFiles]
      <3>1. files \in [Runs -> RunFiles] /\ files[cur] \in RunFiles
        BY <2>1 DEF TypeOK
      <3>2. \A n \in Nat : [files[cur] EXCEPT !.lock = n] \in RunFiles
        BY <3>1 DEF RunFiles
      <3>3. QED
        BY <2>1, <2>2, <3>1, <3>2
    <2>4. QED
      BY <1>6, <2>1, <2>3, HandledType DEF RecordPid, TypeOK, budget
  <1>7. CASE RecordPidFails
    <2>1. cur \in Runs /\ faults' \in Nat
      BY <1>7 DEF RecordPidFails, TypeOK
    <2>2. QED
      BY <1>1, <1>7, <2>1, HandledType DEF RecordPidFails, TypeOK
  <1>8. CASE Crash
    BY <1>8, DieType DEF Crash, TypeOK, disk
  <1>9. QED
    BY <1>2, <1>3, <1>4, <1>5, <1>6, <1>7, <1>8

LEMMA WorkerType ==
    ASSUME TypeOK, NEW r \in Runs, WorkerStep(r)
    PROVE  TypeOK'
  <1>1. PICK i \in DOMAIN worker[r] :
            \/ Beat(r, i) \/ WriteOutput(r, i) \/ Hang(r, i) \/ Exit(r, i)
            \/ \E sentinel \in Sentinels : Report(r, i, sentinel)
    BY DEF WorkerStep
  <1>2. /\ worker[r] \in Seq(Worker) /\ i \in 1..Len(worker[r]) /\ worker[r][i] \in Worker
        /\ files[r] \in RunFiles
    BY DEF TypeOK
  <1>3. \A w \in Worker : [worker[r] EXCEPT ![i] = w] \in Seq(Worker)
    BY <1>2, ExceptSeq
  <1>4. CASE Beat(r, i)
    BY <1>2, <1>4, HeardType DEF Beat, TypeOK, tickVars, budget, Heartbeat
  <1>5. CASE WriteOutput(r, i)
    BY <1>5, TimeAssumption DEF WriteOutput, TypeOK, tickVars, budget, disk, Age
  <1>6. CASE Hang(r, i) \/ Exit(r, i)
    <2>1. \A proc \in {"mute", "gone"} : [worker[r][i] EXCEPT !.proc = proc] \in Worker
      BY <1>2 DEF Worker
    <2>2. \E w \in Worker : worker' = [worker EXCEPT ![r] = [worker[r] EXCEPT ![i] = w]]
      BY <1>6, <2>1 DEF Hang, Exit, SetProc
    <2>3. worker' \in [Runs -> Seq(Worker)]
      BY <1>3, <2>2 DEF TypeOK
    <2>4. QED
      BY <1>6, <2>3 DEF Hang, Exit, TypeOK, tickVars, budget, disk
  <1>7. ASSUME NEW sentinel \in Sentinels, Report(r, i, sentinel)
        PROVE  TypeOK'
    <2>1. sentinel \in TerminalHb
      BY PlanAssumption
    <2>2. [proc |-> "reported", said |-> sentinel] \in Worker
      BY <2>1 DEF Worker
    <2>3. worker' \in [Runs -> Seq(Worker)]
      BY <1>3, <1>7, <2>2 DEF Report, TypeOK
    <2>4. Heard(files[r], sentinel) \in RunFiles
      BY <1>2, <2>1, HeardType DEF Heartbeat
    <2>5. QED
      BY <1>7, <2>3, <2>4 DEF Report, TypeOK, tickVars, budget
  <1>8. QED
    BY <1>1, <1>4, <1>5, <1>6, <1>7

LEMMA OutsideType ==
    ASSUME TypeOK, Observe \/ Pass \/ \E name \in Requests : WriteControl(name)
    PROVE  TypeOK'
  <1>1. CASE Observe
    <2>1. files[cur] \in RunFiles
      BY DEF TypeOK
    <2>2. QED
      BY <1>1, <2>1 DEF Observe, TypeOK, RunFiles, disk, budget
  <1>2. ASSUME NEW name \in Requests, WriteControl(name)
        PROVE  TypeOK'
    <2>1. control' \in Control
      <3>1. Runs \subseteq 0..NumRuns /\ PoolValues \subseteq Nat
        BY PlanAssumption DEF Runs
      <3>2. control.left > 0 => control.left - 1 \in Nat
        BY DEF TypeOK, Control
      <3>3. QED
        BY <1>2, <3>1, <3>2 DEF WriteControl, TypeOK, Control
    <2>2. QED
      BY <1>2, <2>1 DEF WriteControl, TypeOK, tickVars, budget
  <1>3. CASE Pass
    <2>1. \A age \in Age : Older(age) \in Age
      BY TimeAssumption DEF Older, Age
    <2>2. Older(NoAge) = NoAge
      BY TimeAssumption DEF Older, NoAge
    <2>3. ASSUME NEW rec \in RunRecord
          PROVE  AgedRun(rec) \in RunRecord
      <3>1. (IF rec.state = "claimed" THEN Older(rec.claimAge) ELSE rec.claimAge) \in Age
        BY <2>1 DEF RunRecord
      <3>2. (IF rec.backoff > 0 THEN rec.backoff - 1 ELSE 0) \in 0..Backoff
        BY TimeAssumption DEF RunRecord
      <3>3. \A a \in Age, b \in 0..Backoff :
                [rec EXCEPT !.claimAge = a, !.backoff = b] \in RunRecord
        BY DEF RunRecord
      <3>4. QED
        BY <3>1, <3>2, <3>3 DEF AgedRun
    <2>4. status' \in Status
      <3>1. status \in Status /\ status.run \in [Runs -> RunRecord]
        BY DEF TypeOK, Status
      <3>2. [r \in Runs |-> AgedRun(status.run[r])] \in [Runs -> RunRecord]
        BY <2>3, <3>1
      <3>3. QED
        BY <1>3, <3>1, <3>2 DEF Pass, Status
    <2>5. files' \in [Runs -> RunFiles]
      <3>1. \A f \in RunFiles : \A age \in Age : [f EXCEPT !.hbAge = age] \in RunFiles
        BY DEF RunFiles
      <3>2. \A r \in Runs : /\ files[r] \in RunFiles /\ files[r].hbAge \in Age
                             /\ Older(files[r].hbAge) \in Age
        BY <2>1 DEF TypeOK, RunFiles
      <3>3. QED
        BY <1>3, <3>1, <3>2 DEF Pass
    <2>6. outAge' \in [Runs -> Age \cup {NoAge}]
      BY <1>3, <2>1, <2>2 DEF Pass, TypeOK
    <2>7. sinceTick' \in Nat \cup {NoAge}
      BY <1>3 DEF Pass, TypeOK
    <2>8. QED
      BY <1>3, <2>4, <2>5, <2>6, <2>7 DEF Pass, TypeOK, budget
  <1>4. QED
    BY <1>1, <1>2, <1>3

LEMMA InitType == Init => TypeOK
  <1> SUFFICES ASSUME Init PROVE TypeOK
    OBVIOUS
  <1>1. 0 \in Age /\ AgeCap \in Age /\ 0 \in 0..Backoff /\ 1 \in Runs /\ 0 \in 0..NumRuns
    BY PlanAssumption, TimeAssumption DEF Age, Runs
  <1>2. status \in Status
    <2>1. [state |-> "queued", attempts |-> 0, claimAge |-> 0, backoff |-> 0,
           check |-> "unchecked"] \in RunRecord
      BY <1>1 DEF RunRecord, RunState
    <2>2. QED
      BY <2>1, PlanAssumption DEF Init, Status
  <1>3. files \in [Runs -> RunFiles]
    <2>1. [queue |-> TRUE, claimed |-> FALSE, lock |-> NoLock,
           result |-> "none", hb |-> "none", hbAge |-> 0] \in RunFiles
      BY <1>1 DEF RunFiles, Heartbeat
    <2>2. QED
      BY <2>1 DEF Init
  <1>4. outAge \in [Runs -> Age \cup {NoAge}]
    BY <1>1 DEF Init
  <1>5. control \in Control
    BY <1>1, FaultAssumption DEF Init, NoControl, Control
  <1>6. seen \in [hb: Heartbeat, age: Age]
    BY <1>1 DEF Init, Unseen, Heartbeat
  <1>7. worker \in [Runs -> Seq(Worker)]
    BY DEF Init
  <1>8. /\ summary \in [Runs -> {"none"} \cup RunState] /\ sinceTick \in Nat \cup {NoAge}
        /\ cur \in Runs /\ dispatch \subseteq Runs /\ crashes \in Nat /\ faults \in Nat
    BY <1>1, FaultAssumption DEF Init
  <1>9. mem \in Status
    BY <1>2 DEF Init
  <1>10. QED
    BY <1>2, <1>3, <1>4, <1>5, <1>6, <1>7, <1>8, <1>9 DEF Init, TypeOK

LEMMA NextType ==
    ASSUME TypeOK, [Next]_vars
    PROVE  TypeOK'
  <1>1. CASE TickStep
    BY <1>1, ControlType, OutsideType, SettleType, DispatchType, SpawnType, PersistType
       DEF TickStep
  <1>2. CASE Interrupt
    BY <1>2, SpawnType, PersistType DEF Interrupt
  <1>3. CASE \E r \in Runs : WorkerStep(r)
    BY <1>3, WorkerType
  <1>4. CASE Pass \/ \E name \in Requests : WriteControl(name)
    BY <1>4, OutsideType
  <1>5. CASE UNCHANGED vars
    BY <1>5 DEF vars, tickVars, budget, TypeOK
  <1>6. QED
    BY <1>1, <1>2, <1>3, <1>4, <1>5 DEF Next

\* Every variable keeps its type, whatever the plan, the thresholds and the number
\* of crashes and faults: the records of harness_status.json stay well formed.
THEOREM TypeCorrect == Spec => []TypeOK
  <1>1. TypeOK /\ [Next]_vars => TypeOK'
    BY NextType
  <1>2. QED
    BY <1>1, InitType, PTL DEF Spec
------------------------------------------------------------------------------
(* The inductive invariant behind TerminalForever, TerminalHasResult and     *)
(* LaunchesCounted                                                           *)

\* What is terminal on disk is terminal in memory, what is terminal in memory has
\* its result on disk, and the loops stand only at runs they may still change.
StatesInv ==
    /\ \A r \in Runs : status.run[r].state \in Terminal
                        => mem.run[r].state = status.run[r].state
    /\ \A r \in Runs : mem.run[r].state \in Terminal => files[r].result # "none"
    /\ pc \in {"advance", "settle"} => mem.run[cur].state \notin Terminal
    /\ pc = "dispatch" => mem.run[cur].state = "queued"

\* A dispatched run still owes the launch that its last attempt paid for.
Owed(r) == r \in dispatch /\ ~(pc = "record" /\ r = cur)

\* The attempts of one run record: a queued run has one left.
Afford(r, rec) ==
    /\ rec.attempts <= MaxAttempts[r]
    /\ rec.state = "queued" => rec.attempts < MaxAttempts[r]

\* Launches <= persisted attempts <= attempts in memory <= max_attempts, strictly
\* where a launch is owed; and between ticks, or once the tick has persisted, memory
\* holds what the disk does.
AttemptsInv ==
    /\ \A r \in Runs : /\ Len(worker[r]) <= status.run[r].attempts
                       /\ status.run[r].attempts <= mem.run[r].attempts
                       /\ Afford(r, status.run[r]) /\ Afford(r, mem.run[r])
                       /\ Owed(r) => Len(worker[r]) < mem.run[r].attempts
    /\ pc \in {"idle", "spawn", "record"} => mem = status
    /\ pc = "idle" => dispatch = {}

IInv == TypeOK /\ StatesInv /\ AttemptsInv

LEMMA RecordedResult ==
    ASSUME NEW f \in RunFiles, NEW v \in Verdict
    PROVE  /\ Final(RecordResult(f, v)).result # "none"
           /\ Final(SkipDone(f)).result # "none"
  <1>1. \A w \in Verdict : Final(RecordResult(f, w)).result # "none"
    <2>1. TAKE w \in Verdict
    <2>2. w # "none"
      BY DEF Verdict, TerminalHb
    <2>3. CASE f.result # "none"
      BY <2>3 DEF RecordResult, Final
    <2>4. CASE f.result = "none"
      <3> DEFINE a == [f EXCEPT !.result = w]
                 b == [f EXCEPT !.result = w, !.claimed = FALSE]
                 c == [f EXCEPT !.result = w, !.claimed = FALSE, !.lock = NoLock]
      <3>1. c.result = w
        BY DEF RunFiles
      <3> HIDE DEF a, b, c
      <3>2. Final(<<f, a, b, c>>) = c
        BY DEF Final
      <3>3. RecordResult(f, w) = <<f, a, b, c>>
        BY <2>4 DEF RecordResult, a, b, c
      <3>4. QED
        BY <2>2, <3>1, <3>2, <3>3
    <2>5. QED
      BY <2>3, <2>4
  <1>2. Final(SkipDone(f)).result # "none"
    <2> DEFINE trail == RecordResult(f, "COMPLETED")
               last == [Final(trail) EXCEPT !.queue = FALSE]
    <2>1. trail \in Trails
      BY RecordResultType DEF Verdict, TerminalHb
    <2>2. Final(trail) \in RunFiles /\ Final(trail).result # "none"
      BY <1>1, <2>1, FinalType DEF Verdict, TerminalHb
    <2>3. last.result = Final(trail).result
      BY <2>2 DEF RunFiles
    <2> HIDE DEF trail, last
    <2>4. Final(Append(trail, last)) = last
      BY <2>1 DEF Trails, Final
    <2>5. SkipDone(f) = Append(trail, last)
      BY DEF SkipDone, trail, last
    <2>6. QED
      BY <2>2, <2>3, <2>4, <2>5
  <1>3. QED
    BY <1>1, <1>2

\* Where the loops may come to stand.
Placed == /\ pc \in {"advance", "dispatch", "persist"}
          /\ pc = "advance" => mem.run[cur].state \notin Terminal
          /\ pc = "dispatch" => mem.run[cur].state = "queued"

LEMMA MoveOnPlace ==
    ASSUME TypeOK, MoveOn, \A q \in Runs \ {cur} : mem'.run[q] = mem.run[q]
    PROVE  Placed'
  <1>1. CASE pc = "dispatch"
    <2>1. GoOnDispatching
      BY <1>1 DEF MoveOn
    <2>2. CASE \E r \in Runs : FirstFrom(cur + 1, r, Waiting) /\ pc' = "dispatch" /\ cur' = r
      <3>1. PICK r \in Runs : FirstFrom(cur + 1, r, Waiting) /\ pc' = "dispatch" /\ cur' = r
        BY <2>2
      <3>2. r # cur /\ mem.run[r].state = "queued"
        BY <3>1 DEF FirstFrom, Waiting, TypeOK, Runs
      <3>3. QED
        BY <3>1, <3>2 DEF Placed
    <2>3. CASE GoToPersist
      BY <2>3 DEF GoToPersist, Placed
    <2>4. QED
      BY <2>1, <2>2, <2>3 DEF GoOnDispatching
  <1>2. CASE pc # "dispatch"
    BY <1>2 DEF MoveOn, GoToAdvance, GoToDispatch, GoToPersist, FirstFrom, Open, Waiting, Placed
  <1>3. QED
    BY <1>1, <1>2

LEMMA DieKeeps ==
    ASSUME IInv, Die, UNCHANGED <<status, worker>>,
           \A r \in Runs : status.run[r].state \in Terminal => files'[r].result # "none"
    PROVE  StatesInv' /\ AttemptsInv'
  <1>1. StatesInv'
    BY DEF IInv, StatesInv, Die
  <1>2. AttemptsInv'
    <2>1. \A r \in Runs : status.run[r].attempts \in Nat
      BY DEF IInv, TypeOK, Status, RunRecord
    <2>2. QED
      BY <2>1 DEF IInv, AttemptsInv, Die, Owed
  <1>3. QED
    BY <1>1, <1>2

\* A new record for r that the invariant allows, given its files.
Allowed(r, rec, f) ==
    /\ rec.state \in Terminal => f.result # "none"
    /\ rec.attempts >= mem.run[r].attempts
    /\ Afford(r, rec)

\* Replacing one record of a run that is not terminal by an allowed one.
LEMMA RecordKeeps ==
    ASSUME IInv, UNCHANGED <<status, worker>>, NEW r \in Runs, NEW rec \in RunRecord,
           mem.run[r].state \notin Terminal, pc \notin {"idle", "spawn", "record"},
           mem'.run = [mem.run EXCEPT ![r] = rec],
           \A q \in Runs \ {r} : files'[q] = files[q],
           Allowed(r, rec, files'[r]), Placed',
           \A q \in dispatch' : q \in dispatch \/ (q = r /\ rec.attempts > mem.run[r].attempts)
    PROVE  StatesInv' /\ AttemptsInv'
  <1>1. mem.run \in [Runs -> RunRecord]
    BY DEF IInv, TypeOK, Status
  <1>2. mem'.run[r] = rec /\ \A q \in Runs \ {r} : mem'.run[q] = mem.run[q]
    BY <1>1
  <1>3. StatesInv'
    BY <1>2 DEF IInv, StatesInv, Allowed, Placed
  <1>4. AttemptsInv'
    <2>1. ASSUME NEW q \in Runs
          PROVE  /\ Len(worker[q]) \in Nat /\ status.run[q].attempts \in Nat
                 /\ mem.run[q].attempts \in Nat /\ rec.attempts \in Nat
                 /\ Len(worker[q]) <= status.run[q].attempts
                 /\ status.run[q].attempts <= mem.run[q].attempts
      <3>1. worker[q] \in Seq(Worker) /\ status.run[q] \in RunRecord /\ mem.run[q] \in RunRecord
        BY DEF IInv, TypeOK, Status
      <3>2. rec.attempts \in Nat
        BY DEF RunRecord
      <3>3. QED
        BY <3>1, <3>2 DEF IInv, AttemptsInv, RunRecord
    <2>2. ASSUME NEW q \in Runs, Owed(q)'
          PROVE  Len(worker'[q]) < mem'.run[q].attempts
      <3>1. CASE q # r
        <4>1. Owed(q)
          BY <2>2, <3>1 DEF Owed
        <4>2. QED
          BY <1>2, <3>1, <4>1 DEF IInv, AttemptsInv
      <3>2. CASE q = r /\ r \in dispatch
        <4>1. Owed(r)
          BY <3>2 DEF Owed
        <4>2. Len(worker[r]) < mem.run[r].attempts
          BY <4>1 DEF IInv, AttemptsInv
        <4>3. QED
          BY <1>2, <2>1, <3>2, <4>2 DEF Allowed
      <3>3. CASE q = r /\ rec.attempts > mem.run[r].attempts
        BY <1>2, <2>1, <3>3
      <3>4. QED
        BY <2>2, <3>1, <3>2, <3>3 DEF Owed
    <2>3. ASSUME NEW q \in Runs
          PROVE  status'.run[q].attempts <= mem'.run[q].attempts /\ Afford(q, mem'.run[q])
      BY <1>2, <2>1 DEF Allowed, IInv, AttemptsInv
    <2>4. QED
      BY <2>1, <2>2, <2>3 DEF IInv, AttemptsInv, Placed
  <1>5. QED
    BY <1>3, <1>4

LEMMA PerformKeeps ==
    ASSUME IInv, NEW r \in Runs, NEW trail \in Trails, NEW risky \in Nat,
           NEW rec \in RunRecord, NEW list \in SUBSET Runs,
           Perform(r, trail, risky, rec, list),
           pc \in {"settle", "dispatch"}, cur = r, Allowed(r, rec, Final(trail)),
           list = dispatch \/ (list = dispatch \cup {r} /\ rec.attempts > mem.run[r].attempts)
    PROVE  IInv'
  <1>1. TypeOK'
    BY PerformType DEF IInv
  <1>2. mem.run[r].state \notin Terminal
    BY DEF IInv, StatesInv, Terminal
  <1>3. files \in [Runs -> RunFiles] /\ mem.run \in [Runs -> RunRecord] /\ mem \in Status
    BY DEF IInv, TypeOK, Status
  <1>4. \A q \in Runs \ {r} : files'[q] = files[q]
    BY <1>3, CompleteType DEF Perform, IInv
  <1>5. CASE /\ Complete(r, trail, risky)
             /\ mem' = [mem EXCEPT !.run[r] = rec]
             /\ dispatch' = list /\ seen' = Unseen /\ MoveOn
    <2>1. mem'.run = [mem.run EXCEPT ![r] = rec]
      BY <1>3, <1>5 DEF Status
    <2>5. Allowed(r, rec, files'[r])
      <3>1. Final(trail).result # "none" => files'[r].result # "none"
        BY <1>3, <1>5, CompleteType DEF IInv
      <3>2. QED
        BY <3>1 DEF Allowed
    <2>2. Placed'
      BY <1>3, <1>5, <2>1, MoveOnPlace DEF IInv
    <2>3. UNCHANGED <<status, worker>>
      BY DEF Perform
    <2>4. QED
      BY <1>1, <1>2, <1>4, <1>5, <2>1, <2>2, <2>3, <2>5, RecordKeeps DEF IInv
  <1>6. CASE Die
    <2>1. \A q \in Runs : status.run[q].state \in Terminal => files'[q].result # "none"
      BY <1>2, <1>4 DEF IInv, StatesInv
    <2>2. QED
      BY <1>1, <1>6, <2>1, DieKeeps DEF Perform, IInv
  <1>7. CASE Abort(mem.run)
    <2>1. mem'.run = [mem.run EXCEPT ![r] = mem.run[r]]
      BY <1>3, <1>7 DEF Abort, Status
    <2>2. Allowed(r, mem.run[r], files'[r]) /\ mem.run[r] \in RunRecord
      BY <1>2, <1>3 DEF Allowed, IInv, AttemptsInv, RunRecord
    <2>3. Placed' /\ dispatch' = {}
      BY <1>7 DEF Abort, Placed
    <2>4. UNCHANGED <<status, worker>>
      BY DEF Perform
    <2>5. QED
      BY <1>1, <1>2, <1>4, <2>1, <2>2, <2>3, <2>4, RecordKeeps DEF IInv
  <1>8. QED
    BY <1>5, <1>6, <1>7 DEF Perform

\* What the new records of a run keep of its attempts.
LEMMA NewRecords ==
    ASSUME IInv, NEW r \in Runs
    PROVE  /\ mem.run[r].attempts \in Nat
           /\ \A state \in RunState \ {"queued"}, f \in RunFiles :
                 (state \in Terminal => f.result # "none") => Allowed(r, Become(r, state), f)
           /\ Retryable(r) => \A f \in RunFiles : Allowed(r, Requeued(mem.run[r]), f)
           /\ mem.run[r].state = "queued" =>
                 \A f \in RunFiles : Allowed(r, Claimed(mem.run[r]), f)
           /\ Claimed(mem.run[r]).attempts > mem.run[r].attempts
  <1>1. mem.run[r] \in RunRecord
    BY DEF IInv, TypeOK, Status
  <1>2. /\ mem.run[r].attempts \in Nat /\ MaxAttempts[r] \in Nat
        /\ mem.run[r].attempts <= MaxAttempts[r]
        /\ mem.run[r].state = "queued" => mem.run[r].attempts < MaxAttempts[r]
    BY <1>1, PlanAssumption DEF RunRecord, IInv, AttemptsInv, Afford
  <1>3. ASSUME NEW state \in RunState \ {"queued"}, NEW f \in RunFiles,
               state \in Terminal => f.result # "none"
        PROVE  Allowed(r, Become(r, state), f)
    <2>1. Become(r, state).attempts = mem.run[r].attempts /\ Become(r, state).state = state
      BY <1>1 DEF Become, RunRecord
    <2>2. QED
      BY <1>2, <1>3, <2>1 DEF Allowed, Afford
  <1>4. ASSUME Retryable(r), NEW f \in RunFiles
        PROVE  Allowed(r, Requeued(mem.run[r]), f)
    <2>1. /\ Requeued(mem.run[r]).attempts = mem.run[r].attempts
          /\ Requeued(mem.run[r]).state = "queued"
      BY <1>1 DEF Requeued, RunRecord
    <2>2. "queued" \notin Terminal
      BY DEF Terminal
    <2>3. QED
      BY <1>2, <1>4, <2>1, <2>2 DEF Allowed, Afford, Retryable
  <1>5. /\ Claimed(mem.run[r]).attempts = mem.run[r].attempts + 1
        /\ Claimed(mem.run[r]).state = "claimed"
    BY <1>1 DEF Claimed, RunRecord
  <1>6. ASSUME mem.run[r].state = "queued", NEW f \in RunFiles
        PROVE  Allowed(r, Claimed(mem.run[r]), f)
    <2>1. "claimed" \notin Terminal
      BY DEF Terminal
    <2>2. QED
      BY <1>2, <1>5, <1>6, <2>1 DEF Allowed, Afford
  <1>7. QED
    BY <1>2, <1>3, <1>4, <1>5, <1>6

LEMMA FailOrRetryKeeps ==
    ASSUME IInv, NEW r \in Runs, NEW trail \in Trails, NEW risky \in Nat,
           FailOrRetry(r, trail, risky), pc = "settle", cur = r, Final(trail).result # "none"
    PROVE  IInv'
  <1>1. trail \o Requeue(Final(trail)) \in Trails /\ Final(trail) \in RunFiles
    BY FinalType, RequeueType, ConcatType
  <1>2. Final(trail \o Requeue(Final(trail))) \in RunFiles
    BY <1>1, FinalType
  <1>3. "failed" \in RunState \ {"queued"} /\ dispatch \in SUBSET Runs
    BY DEF RunState, Terminal, IInv, TypeOK
  <1>4. Requeued(mem.run[r]) \in RunRecord /\ Become(r, "failed") \in RunRecord
    BY <1>3, RecordTypes DEF IInv
  <1>5. CASE Retryable(r)
    BY <1>1, <1>2, <1>3, <1>4, <1>5, NewRecords, PerformKeeps DEF FailOrRetry
  <1>6. CASE ~Retryable(r)
    BY <1>1, <1>3, <1>4, <1>6, NewRecords, PerformKeeps DEF FailOrRetry
  <1>7. QED
    BY <1>5, <1>6

LEMMA SettleKeeps ==
    ASSUME IInv, NEW r \in Runs,
           \/ ReapTerminal(r) \/ FailDeadPid(r) \/ FailLaunch(r) \/ ReclaimStalled(r)
           \/ MarkStalled(r) \/ MarkRunning(r) \/ LeaveAlone(r)
    PROVE  IInv'
  <1>1. pc = "settle" /\ cur = r
    BY DEF ReapTerminal, FailDeadPid, FailLaunch, ReclaimStalled, MarkStalled, MarkRunning, LeaveAlone
  <1>2. files[r] \in RunFiles /\ mem.run[r] \in RunRecord /\ dispatch \in SUBSET Runs
    BY RecordTypes DEF IInv, TypeOK
  <1>3. \A v \in Verdict : /\ RecordResult(files[r], v) \in Trails
                           /\ Final(RecordResult(files[r], v)) \in RunFiles
                           /\ Final(RecordResult(files[r], v)).result # "none"
    BY <1>2, RecordResultType, RecordedResult, FinalType
  <1>4. \A state \in {"completed", "failed", "auth_or_launch_failed", "abandoned",
                      "stalled", "running"} :
            state \in RunState \ {"queued"} /\ Become(r, state) \in RunRecord
    BY RecordTypes DEF RunState, Terminal, InFlight, IInv
  <1>5. <<files[r]>> \in Trails /\ Final(<<files[r]>>) = files[r]
    BY <1>2 DEF Trails, Final
  <1>6. \A state \in {"stalled", "running"} : state \notin Terminal
    BY DEF Terminal
  <1>7. CASE ReapTerminal(r)
    <2>1. seen.hb \in Verdict /\ MoveToResults(files[r], seen.hb) = RecordResult(files[r], seen.hb)
      BY <1>7 DEF ReapTerminal, Reported, Verdict, MoveToResults
    <2>2. CASE ReapedState(seen.hb) = "completed"
      BY <1>1, <1>2, <1>3, <1>4, <1>7, <2>1, <2>2, NewRecords, PerformKeeps DEF ReapTerminal
    <2>3. CASE ReapedState(seen.hb) # "completed"
      BY <1>1, <1>3, <1>7, <2>1, <2>3, FailOrRetryKeeps DEF ReapTerminal
    <2>4. QED
      BY <2>2, <2>3
  <1>8. CASE FailDeadPid(r)
    <2>1. "FAILED" \in Verdict
      BY DEF Verdict, TerminalHb
    <2>2. QED
      BY <1>1, <1>3, <1>8, <2>1, FailOrRetryKeeps DEF FailDeadPid
  <1>9. CASE FailLaunch(r)
    <2>1. "AUTH_OR_LAUNCH_FAILED" \in Verdict
      BY DEF Verdict
    <2>2. QED
      BY <1>1, <1>2, <1>3, <1>4, <1>9, <2>1, NewRecords, PerformKeeps DEF FailLaunch
  <1>10. CASE ReclaimStalled(r)
    <2>1. "ABANDONED" \in Verdict
      BY DEF Verdict, TerminalHb
    <2>2. Requeue(files[r]) \in Trails /\ Final(Requeue(files[r])) \in RunFiles
      BY <1>2, RequeueType, FinalType
    <2>3. Requeued(mem.run[r]) \in RunRecord
      BY RecordTypes DEF IInv
    <2>4. CASE Retryable(r)
      BY <1>1, <1>2, <1>10, <2>2, <2>3, <2>4, NewRecords, PerformKeeps DEF ReclaimStalled
    <2>5. CASE ~Retryable(r)
      BY <1>1, <1>2, <1>3, <1>4, <1>10, <2>1, <2>5, NewRecords, PerformKeeps DEF ReclaimStalled
    <2>6. QED
      BY <2>4, <2>5
  <1>11. CASE MarkStalled(r)
    BY <1>1, <1>2, <1>4, <1>5, <1>6, <1>11, NewRecords, PerformKeeps DEF MarkStalled
  <1>12. CASE MarkRunning(r)
    BY <1>1, <1>2, <1>4, <1>5, <1>6, <1>12, NewRecords, PerformKeeps DEF MarkRunning
  <1>13. CASE LeaveAlone(r)
    <2>1. Allowed(r, mem.run[r], files[r])
      BY <1>2, NewRecords DEF Allowed, IInv, StatesInv, AttemptsInv
    <2>2. QED
      BY <1>1, <1>2, <1>5, <1>13, <2>1, PerformKeeps DEF LeaveAlone
  <1>14. QED
    BY <1>7, <1>8, <1>9, <1>10, <1>11, <1>12, <1>13

\* An escaping OSError keeps every record but one, which stays short of terminal.
LEMMA AbortKeeps ==
    ASSUME IInv, NEW r \in Runs, NEW rec \in RunRecord, NEW f \in RunFiles,
           Abort([mem.run EXCEPT ![r] = rec]), files' = [files EXCEPT ![r] = f],
           UNCHANGED <<status, outAge, control, summary, sinceTick, worker>>,
           mem.run[r].state \notin Terminal, pc = "dispatch", Allowed(r, rec, f)
    PROVE  IInv'
  <1> DEFINE run == [mem.run EXCEPT ![r] = rec]
  <1>1. files \in [Runs -> RunFiles] /\ mem \in Status /\ mem.run \in [Runs -> RunRecord]
    BY DEF IInv, TypeOK, Status
  <1>2. run \in [Runs -> RunRecord]
    BY <1>1
  <1>3. TypeOK'
    <2> HIDE DEF run
    <2>1. Abort(run)
      BY DEF run
    <2>2. files' \in [Runs -> RunFiles]
      BY <1>1
    <2>3. QED
      BY <1>2, <2>1, <2>2, AbortType DEF IInv, TypeOK
  <1>4. mem'.run = [mem.run EXCEPT ![r] = rec]
    BY <1>1 DEF Abort, Status
  <1>5. files'[r] = f /\ \A q \in Runs \ {r} : files'[q] = files[q]
    BY <1>1
  <1>6. Placed' /\ dispatch' = {}
    BY DEF Abort, Placed
  <1>7. QED
    BY <1>3, <1>4, <1>5, <1>6, RecordKeeps DEF IInv

LEMMA DispatchKeeps ==
    ASSUME IInv, NEW r \in Runs,
           PassOver(r) \/ ProbeUnsatisfied(r) \/ ProbeSatisfied(r) \/ Claim(r)
    PROVE  IInv'
  <1>1. pc = "dispatch" /\ cur = r
    BY DEF PassOver, ProbeUnsatisfied, ProbeSatisfied, Claim
  <1>2. mem.run[r].state = "queued" /\ mem.run[r].state \notin Terminal
    BY <1>1 DEF IInv, StatesInv, Terminal
  <1>3. /\ files \in [Runs -> RunFiles] /\ files[r] \in RunFiles /\ mem \in Status
        /\ mem.run \in [Runs -> RunRecord] /\ mem.run[r] \in RunRecord
        /\ Claimed(mem.run[r]) \in RunRecord
    BY RecordTypes DEF IInv, TypeOK
  <1>4. dispatch \in SUBSET Runs /\ dispatch \cup {r} \in SUBSET Runs
    BY DEF IInv, TypeOK
  <1> DEFINE checked == [mem.run[r] EXCEPT !.check = "checked"]
  <1>5. /\ checked \in RunRecord /\ checked.state = mem.run[r].state
        /\ checked.attempts = mem.run[r].attempts
    BY <1>3 DEF RunRecord
  <1>6. \A f \in RunFiles : Allowed(r, checked, f) /\ Allowed(r, mem.run[r], f)
    BY <1>2, <1>5, NewRecords DEF Allowed, IInv, AttemptsInv, Afford
  <1> HIDE DEF checked
  <1>7. TypeOK'
    BY DispatchType DEF IInv
  <1>8. CASE PassOver(r)
    <2>1. mem'.run = [mem.run EXCEPT ![r] = mem.run[r]]
      BY <1>3, <1>8 DEF PassOver
    <2>2. Placed'
      BY <1>8, MoveOnPlace DEF PassOver, IInv
    <2>3. UNCHANGED <<status, files, worker, dispatch>>
      BY <1>8 DEF PassOver, disk
    <2>4. QED
      BY <1>1, <1>2, <1>3, <1>6, <1>7, <2>1, <2>2, <2>3, RecordKeeps DEF IInv
  <1>9. CASE ProbeUnsatisfied(r)
    <2>1. mem'.run = [mem.run EXCEPT ![r] = checked]
      BY <1>3, <1>9 DEF ProbeUnsatisfied, checked, Status
    <2>2. mem'.run[r].state = "queued"
      BY <1>2, <1>3, <1>5, <2>1
    <2>3. UNCHANGED <<status, files, worker, dispatch, pc, cur>>
      BY <1>9 DEF ProbeUnsatisfied, disk
    <2>4. Placed'
      BY <1>1, <2>2, <2>3 DEF Placed
    <2>5. QED
      BY <1>1, <1>2, <1>3, <1>5, <1>6, <1>7, <2>1, <2>3, <2>4, RecordKeeps DEF IInv
  <1>10. CASE ProbeSatisfied(r)
    <2> DEFINE rec == [mem.run[r] EXCEPT !.state = "completed", !.check = "skipped"]
    <2>1. /\ rec \in RunRecord /\ rec.attempts = mem.run[r].attempts /\ rec.state = "completed"
      BY <1>3 DEF RunRecord, RunState, Terminal
    <2>2. SkipDone(files[r]) \in Trails /\ Final(SkipDone(files[r])).result # "none"
      BY <1>3, SkipDoneType, RecordedResult DEF Verdict, TerminalHb
    <2>3. Allowed(r, rec, Final(SkipDone(files[r])))
      BY <2>1, <2>2, NewRecords DEF Allowed, IInv, AttemptsInv, Afford
    <2> HIDE DEF rec
    <2>4. CASE Perform(r, SkipDone(files[r]), 0, rec, dispatch)
      BY <1>1, <1>4, <2>1, <2>2, <2>3, <2>4, PerformKeeps
    <2>5. CASE /\ Abort([mem.run EXCEPT ![r].check = "checked"])
               /\ UNCHANGED <<status, disk, outAge, sinceTick, worker>>
      <3>1. Abort([mem.run EXCEPT ![r] = checked])
        BY <1>3, <2>5 DEF checked
      <3>2. files' = [files EXCEPT ![r] = files[r]]
        BY <1>3, <2>5 DEF disk
      <3>3. UNCHANGED <<status, outAge, control, summary, sinceTick, worker>>
        BY <2>5 DEF disk
      <3>4. QED
        BY <1>1, <1>2, <1>3, <1>5, <1>6, <3>1, <3>2, <3>3, AbortKeeps
    <2>6. QED
      BY <1>10, <2>4, <2>5 DEF ProbeSatisfied, rec
  <1>11. CASE Claim(r)
    <2> DEFINE token == ClaimToken(files[r])
               started == Append(token, Heard(Final(token), "beat"))
    <2>1. token \in Trails /\ Final(token) \in RunFiles
      BY <1>3, ClaimTokenType, FinalType
    <2>2. Heard(Final(token), "beat") \in RunFiles
      BY <2>1, HeardType DEF Heartbeat
    <2>3. started \in Trails
      BY <2>1, <2>2 DEF Trails
    <2>4. Final(started) \in RunFiles
      BY <2>3, FinalType
    <2>5. \A f \in RunFiles : Allowed(r, Claimed(mem.run[r]), f)
      BY <1>2, NewRecords
    <2>6. Claimed(mem.run[r]).attempts > mem.run[r].attempts
      BY NewRecords
    <2> HIDE DEF token, started
    <2>7. CASE Perform(r, token, 2, Claimed(mem.run[r]), dispatch \cup {r})
      BY <1>1, <1>3, <1>4, <2>1, <2>5, <2>6, <2>7, PerformKeeps
    <2>8. CASE Perform(r, started, Len(token) - 1, Claimed(mem.run[r]), dispatch \cup {r})
      <3>1. Len(token) - 1 \in Nat
        BY <2>1 DEF Trails
      <3>2. QED
        BY <1>1, <1>3, <1>4, <2>3, <2>4, <2>5, <2>6, <2>8, <3>1, PerformKeeps
    <2>9. CASE /\ files' = [files EXCEPT ![r] = Final(token)]
               /\ Abort([mem.run EXCEPT ![r] = Claimed(@)])
               /\ UNCHANGED <<status, outAge, control, summary, sinceTick, worker>>
      <3>1. Abort([mem.run EXCEPT ![r] = Claimed(mem.run[r])])
        BY <2>9
      <3>2. QED
        BY <1>1, <1>2, <1>3, <2>1, <2>5, <2>9, <3>1, AbortKeeps
    <2>10. QED
      BY <1>11, <2>7, <2>8, <2>9 DEF Claim, token, started
  <1>12. QED
    BY <1>8, <1>9, <1>10, <1>11

LEMMA ControlKeeps ==
    ASSUME IInv, CancelRun \/ ApplyControls
    PROVE  IInv'
  <1>1. TypeOK'
    BY ControlType DEF IInv
  <1>2. files \in [Runs -> RunFiles] /\ mem \in Status /\ mem.run \in [Runs -> RunRecord]
    BY DEF IInv, TypeOK, Status
  <1>3. CASE CancelRun
    <2> DEFINE r == control.cancel
               trail == RecordResult(files[r], "ABANDONED")
    <2>1. r \in Runs /\ mem.run[r].state \notin Terminal
      BY <1>3 DEF CancelRun, Cancellable, IInv, TypeOK, Control, Runs
    <2>2. Final(trail).result # "none" /\ Final(trail) \in RunFiles /\ trail \in Trails
      BY <1>2, <2>1, RecordResultType, RecordedResult, FinalType DEF Verdict, TerminalHb
    <2> HIDE DEF r, trail
    <2>3. UNCHANGED <<status, worker>> /\ pc = "idle" /\ dispatch = {} /\ mem = status
      BY <1>3 DEF CancelRun, IInv, AttemptsInv
    <2>4. CASE /\ Complete(r, trail, 1)
               /\ mem' = [mem EXCEPT !.run[r] = Become(r, "abandoned")]
               /\ control' = [control EXCEPT !.cancel = 0]
               /\ pc' = "control"
               /\ UNCHANGED <<cur, seen, dispatch>>
      <3> DEFINE rec == Become(r, "abandoned")
      <3>1. rec \in RunRecord
        BY <2>1, RecordTypes DEF IInv, RunState, Terminal
      <3>2. Allowed(r, rec, files'[r])
        <4>1. "abandoned" \in RunState \ {"queued"}
          BY DEF RunState, Terminal
        <4>2. files'[r] \in RunFiles /\ files'[r].result # "none"
          BY <1>2, <2>1, <2>2, <2>4, CompleteType DEF IInv
        <4>3. QED
          BY <2>1, <4>1, <4>2, NewRecords
      <3>3. mem'.run = [mem.run EXCEPT ![r] = rec]
            /\ \A q \in Runs \ {r} : files'[q] = files[q]
        BY <1>2, <2>1, <2>2, <2>4, CompleteType DEF Status, IInv
      <3> HIDE DEF rec
      <3>4. mem'.run[r] = rec /\ \A q \in Runs \ {r} : mem'.run[q] = mem.run[q]
        BY <1>2, <2>1, <3>3
      <3>5. StatesInv'
        BY <2>1, <2>3, <2>4, <3>2, <3>3, <3>4 DEF IInv, StatesInv, Allowed
      <3>6. AttemptsInv'
        <4>1. \A q \in Runs : /\ status.run[q].attempts \in Nat /\ mem.run[q].attempts \in Nat
                              /\ status.run[q] = mem.run[q]
          <5>1. \A q \in Runs : status.run[q] \in RunRecord
            BY DEF IInv, TypeOK, Status
          <5>2. QED
            BY <2>3, <5>1 DEF RunRecord
        <4>2. rec.attempts \in Nat /\ rec.attempts >= status.run[r].attempts
          BY <2>1, <3>1, <3>2, <4>1 DEF Allowed, RunRecord
        <4>3. QED
          BY <2>3, <2>4, <3>2, <3>4, <4>1, <4>2 DEF IInv, AttemptsInv, Owed, Allowed
      <3>7. QED
        BY <1>1, <3>5, <3>6 DEF IInv
    <2>5. CASE /\ \E k \in 1..Len(trail) : files' = [files EXCEPT ![r] = trail[k]]
               /\ Die /\ UNCHANGED control
      <3>1. \A q \in Runs \ {r} : files'[q] = files[q]
        BY <1>2, <2>5
      <3>2. \A q \in Runs : status.run[q].state \in Terminal => files'[q].result # "none"
        BY <2>1, <2>3, <3>1 DEF IInv, StatesInv
      <3>3. QED
        BY <1>1, <2>3, <2>5, <3>2, DieKeeps DEF IInv
    <2>6. QED
      BY <1>3, <2>4, <2>5 DEF CancelRun, r, trail
  <1>4. CASE ApplyControls
    <2>1. mem'.run = mem.run /\ UNCHANGED <<status, files, worker, dispatch>>
      BY <1>2, <1>4 DEF ApplyControls, Status
    <2>2. Placed'
      BY <1>4 DEF ApplyControls, GoToAdvance, GoToDispatch, GoToPersist, FirstFrom,
                  Open, Waiting, Placed
    <2>3. StatesInv'
      BY <2>1, <2>2 DEF IInv, StatesInv, Placed
    <2>4. \A q \in dispatch : Owed(q)
      <3>1. pc # "record"
        BY <1>4 DEF ApplyControls
      <3>2. QED
        BY <3>1 DEF Owed
    <2>5. AttemptsInv'
      BY <2>1, <2>2, <2>4 DEF IInv, AttemptsInv, Placed, Owed
    <2>6. QED
      BY <1>1, <2>3, <2>5 DEF IInv
  <1>5. QED
    BY <1>3, <1>4

LEMMA PersistKeeps ==
    ASSUME IInv, Persist \/ CrashAfterSummary
    PROVE  IInv'
  <1>1. TypeOK'
    BY PersistType DEF IInv
  <1>2. CASE Persist
    <2>1. status'.run = mem.run /\ mem' = status' /\ UNCHANGED <<files, worker, dispatch>>
      BY <1>2 DEF Persist, IInv, TypeOK, Status
    <2>2. pc = "persist" /\ pc' = IF dispatch = {} THEN "idle" ELSE "spawn"
      BY <1>2 DEF Persist
    <2>3. StatesInv'
      BY <2>1, <2>2 DEF IInv, StatesInv
    <2>4. \A q \in Runs : /\ Len(worker[q]) \in Nat /\ status.run[q].attempts \in Nat
                          /\ mem.run[q].attempts \in Nat
      <3>1. \A q \in Runs : /\ worker[q] \in Seq(Worker) /\ status.run[q] \in RunRecord
                            /\ mem.run[q] \in RunRecord
        BY DEF IInv, TypeOK, Status
      <3>2. QED
        BY <3>1 DEF RunRecord
    <2>5. AttemptsInv'
      BY <2>1, <2>2, <2>4 DEF IInv, AttemptsInv, Owed
    <2>6. QED
      BY <1>1, <2>3, <2>5 DEF IInv
  <1>3. CASE CrashAfterSummary
    <2>1. \A q \in Runs : status.run[q].state \in Terminal => files'[q].result # "none"
      BY <1>3 DEF CrashAfterSummary, IInv, StatesInv
    <2>2. QED
      BY <1>1, <1>3, <2>1, DieKeeps DEF CrashAfterSummary, IInv
  <1>4. QED
    BY <1>2, <1>3

\* A line added to a heartbeat leaves the result file alone.
LEMMA HeardResult ==
    ASSUME TypeOK, NEW r \in Runs, NEW line \in Heartbeat,
           files' = [files EXCEPT ![r] = Heard(@, line)]
    PROVE  \A q \in Runs : files'[q].result = files[q].result
  <1>1. files \in [Runs -> RunFiles] /\ files[r] \in RunFiles
    BY DEF TypeOK
  <1>2. Heard(files[r], line).result = files[r].result
    BY <1>1 DEF Heard, RunFiles
  <1>3. QED
    BY <1>1, <1>2

LEMMA SpawnKeeps ==
    ASSUME IInv,
           \/ \E r \in Runs : LaunchSubagent(r) \/ LoseSubagent(r) \/ SpawnShell(r) \/ SpawnFails(r)
           \/ RecordPid \/ RecordPidFails
    PROVE  IInv'
  <1>1. TypeOK'
    BY SpawnType DEF IInv
  <1>2. /\ pc \in {"spawn", "record"} /\ mem = status /\ UNCHANGED <<status, mem>>
    BY DEF LaunchSubagent, LoseSubagent, SpawnShell, SpawnFails, RecordPid, RecordPidFails,
           NextToSpawn, IInv, AttemptsInv
  <1>3. files \in [Runs -> RunFiles] /\ \A q \in Runs : files[q] \in RunFiles
    BY DEF IInv, TypeOK
  <1>4. \A q \in Runs : files'[q].result = files[q].result
    <2>1. "FAILED" \in Heartbeat /\ cur \in Runs
      BY DEF Heartbeat, TerminalHb, IInv, TypeOK
    <2>2. CASE \E r \in Runs : LaunchSubagent(r) \/ LoseSubagent(r) \/ SpawnShell(r)
      BY <2>2 DEF LaunchSubagent, LoseSubagent, SpawnShell, disk
    <2>3. CASE (\E r \in Runs : SpawnFails(r)) \/ RecordPidFails
      BY <2>1, <2>3, HeardResult DEF SpawnFails, RecordPidFails, IInv
    <2>4. CASE RecordPid
      <3>1. files' = [files EXCEPT ![cur] = [files[cur] EXCEPT !.lock = Len(worker[cur])]]
        BY <2>4 DEF RecordPid
      <3>2. \A n : [files[cur] EXCEPT !.lock = n].result = files[cur].result
        BY <1>3, <2>1 DEF RunFiles
      <3>3. QED
        BY <1>3, <3>1, <3>2
    <2>5. QED
      BY <2>2, <2>3, <2>4
  <1>5. pc' \in {"idle", "spawn", "record"} /\ (pc' = "idle" => dispatch' = {})
    BY DEF LaunchSubagent, LoseSubagent, SpawnShell, SpawnFails, RecordPid, RecordPidFails, Handled
  <1>6. StatesInv'
    BY <1>2, <1>4, <1>5 DEF IInv, StatesInv
  <1>7. \A q \in Runs : /\ Len(worker[q]) \in Nat /\ mem.run[q].attempts \in Nat
                        /\ worker[q] \in Seq(Worker)
    <2>1. \A q \in Runs : worker[q] \in Seq(Worker) /\ mem.run[q] \in RunRecord
      BY DEF IInv, TypeOK, Status
    <2>2. QED
      BY <2>1 DEF RunRecord
  \* What each of these actions does to the launches and to what is owed.
  <1>8. \/ worker' = worker /\ \A q \in Runs : Owed(q)' => Owed(q)
        \/ \E r \in Runs : Owed(r) /\ Launched(r) /\ \A q \in Runs : Owed(q)' => Owed(q) /\ q # r
    <2>1. ASSUME NEW r \in Runs, LaunchSubagent(r)
          PROVE  Owed(r) /\ Launched(r) /\ \A q \in Runs : Owed(q)' => Owed(q) /\ q # r
      BY <2>1 DEF LaunchSubagent, NextToSpawn, Handled, Owed
    <2>2. ASSUME NEW r \in Runs, LoseSubagent(r) \/ SpawnFails(r)
          PROVE  worker' = worker /\ \A q \in Runs : Owed(q)' => Owed(q)
      BY <2>2 DEF LoseSubagent, SpawnFails, NextToSpawn, Handled, Owed
    <2>3. ASSUME NEW r \in Runs, SpawnShell(r)
          PROVE  Owed(r) /\ Launched(r) /\ \A q \in Runs : Owed(q)' => Owed(q) /\ q # r
      BY <2>3 DEF SpawnShell, NextToSpawn, Owed
    <2>4. CASE RecordPid \/ RecordPidFails
      BY <2>4 DEF RecordPid, RecordPidFails, Handled, Owed
    <2>5. QED
      BY <2>1, <2>2, <2>3, <2>4
  <1>9. AttemptsInv'
    <2>1. CASE worker' = worker /\ \A q \in Runs : Owed(q)' => Owed(q)
      BY <1>2, <1>5, <2>1 DEF IInv, AttemptsInv
    <2>2. ASSUME NEW r \in Runs, Owed(r), Launched(r),
                 \A q \in Runs : Owed(q)' => Owed(q) /\ q # r
          PROVE  AttemptsInv'
      <3>1. worker \in [Runs -> Seq(Worker)]
        BY DEF IInv, TypeOK
      <3>2. /\ Len(worker'[r]) = Len(worker[r]) + 1
            /\ \A q \in Runs \ {r} : worker'[q] = worker[q]
        BY <1>7, <2>2, <3>1 DEF Launched
      <3>3. Len(worker[r]) < mem.run[r].attempts
        BY <2>2 DEF IInv, AttemptsInv
      <3>4. Len(worker'[r]) <= status.run[r].attempts
        BY <1>2, <1>7, <3>2, <3>3
      <3>5. QED
        BY <1>2, <1>5, <2>2, <3>2, <3>4 DEF IInv, AttemptsInv
    <2>3. QED
      BY <1>8, <2>1, <2>2
  <1>10. QED
    BY <1>1, <1>6, <1>9 DEF IInv

LEMMA OutsideKeeps ==
    ASSUME IInv,
           \/ Observe \/ Crash \/ Pass \/ \E name \in Requests : WriteControl(name)
           \/ \E r \in Runs : WorkerStep(r)
           \/ UNCHANGED vars
    PROVE  IInv'
  <1>1. TypeOK'
    <2>1. CASE UNCHANGED vars
      BY <2>1 DEF IInv, TypeOK, vars, tickVars, budget
    <2>2. QED
      BY <2>1, OutsideType, SpawnType, WorkerType DEF IInv
  <1>2. CASE Crash
    BY <1>1, <1>2, DieKeeps DEF Crash, disk, IInv, StatesInv
  <1>3. CASE Observe
    BY <1>1, <1>3 DEF Observe, disk, IInv, StatesInv, AttemptsInv, Owed
  <1>4. CASE Pass
    <2>1. \A r \in Runs : status.run[r] \in RunRecord /\ mem = status
      BY <1>4 DEF Pass, IInv, TypeOK, Status, AttemptsInv
    <2>2. \A rec \in RunRecord :
              AgedRun(rec).state = rec.state /\ AgedRun(rec).attempts = rec.attempts
      BY DEF AgedRun, RunRecord
    <2>3. \A r \in Runs : status'.run[r] = AgedRun(status.run[r])
      <3>1. status \in Status
        BY DEF IInv, TypeOK
      <3>2. status'.run = [r \in Runs |-> AgedRun(status.run[r])]
        BY <1>4, <3>1 DEF Pass, Status
      <3>3. QED
        BY <3>2
    <2>4. \A r \in Runs : files'[r].result = files[r].result
      BY <1>4 DEF Pass, IInv, TypeOK, RunFiles
    <2>5. mem' = status' /\ UNCHANGED <<pc, cur, dispatch, worker>>
      BY <1>4 DEF Pass
    <2>6. \A r \in Runs : status.run[r].attempts \in Nat
      BY <2>1 DEF RunRecord
    <2>7. StatesInv'
      <3>1. \A r \in Runs : mem'.run[r].state = mem.run[r].state /\ status'.run[r] = mem'.run[r]
        BY <2>1, <2>2, <2>3, <2>5
      <3>2. pc = "idle"
        BY <1>4 DEF Pass
      <3>3. QED
        BY <2>4, <2>5, <3>1, <3>2 DEF IInv, StatesInv
    <2>8. AttemptsInv'
      BY <1>4, <2>1, <2>2, <2>3, <2>5, <2>6 DEF Pass, IInv, AttemptsInv, Owed, Afford
    <2>9. QED
      BY <1>1, <2>7, <2>8 DEF IInv
  <1>5. CASE UNCHANGED vars \/ \E name \in Requests : WriteControl(name)
    BY <1>1, <1>5 DEF WriteControl, tickVars, vars, IInv, StatesInv, AttemptsInv, Owed
  <1>6. ASSUME NEW r \in Runs, WorkerStep(r)
        PROVE  IInv'
    <2>1. UNCHANGED <<status, mem, pc, cur, dispatch>>
      BY <1>6 DEF WorkerStep, Beat, WriteOutput, Hang, Exit, Report, tickVars
    <2>2. \A q \in Runs : files'[q].result = files[q].result
      <3>1. CASE files' = files
        BY <3>1
      <3>2. CASE \E line \in Heartbeat : files' = [files EXCEPT ![r] = Heard(@, line)]
        BY <3>2, HeardResult DEF IInv
      <3>3. Sentinels \subseteq Heartbeat /\ "beat" \in Heartbeat
        BY PlanAssumption DEF Heartbeat
      <3>4. QED
        BY <1>6, <3>1, <3>2, <3>3 DEF WorkerStep, Beat, WriteOutput, Hang, Exit, Report, disk
    <2>3. \A q \in Runs : Len(worker'[q]) = Len(worker[q])
      <3>1. worker \in [Runs -> Seq(Worker)]
        BY DEF IInv, TypeOK
      <3>2. \A s \in Seq(Worker) : \A i \in DOMAIN s : \A w : Len([s EXCEPT ![i] = w]) = Len(s)
        OBVIOUS
      <3>3. \/ worker' = worker
            \/ \E i \in DOMAIN worker[r] : \E w :
                  worker' = [worker EXCEPT ![r] = [worker[r] EXCEPT ![i] = w]]
        BY <1>6 DEF WorkerStep, Beat, WriteOutput, Hang, Exit, Report, SetProc
      <3>4. CASE worker' = worker
        BY <3>4
      <3>5. ASSUME NEW i \in DOMAIN worker[r], NEW w,
                   worker' = [worker EXCEPT ![r] = [worker[r] EXCEPT ![i] = w]]
            PROVE  \A q \in Runs : Len(worker'[q]) = Len(worker[q])
        <4>1. Len([worker[r] EXCEPT ![i] = w]) = Len(worker[r])
          BY <3>1, <3>2
        <4>2. worker'[r] = [worker[r] EXCEPT ![i] = w] /\ \A q \in Runs \ {r} : worker'[q] = worker[q]
          BY <3>1, <3>5
        <4>3. QED
          BY <4>1, <4>2
      <3>6. QED
        BY <3>3, <3>4, <3>5
    <2>4. StatesInv'
      BY <2>1, <2>2 DEF IInv, StatesInv
    <2>5. AttemptsInv'
      BY <2>1, <2>3 DEF IInv, AttemptsInv, Owed
    <2>6. QED
      BY <1>1, <2>4, <2>5 DEF IInv
  <1>7. QED
    BY <1>2, <1>3, <1>4, <1>5, <1>6

LEMMA InitInv == Init => IInv
  <1> SUFFICES ASSUME Init PROVE IInv
    OBVIOUS
  <1>1. TypeOK
    BY InitType
  <1>2. \A r \in Runs : /\ status.run[r].state = "queued" /\ status.run[r].attempts = 0
                        /\ Len(worker[r]) = 0 /\ MaxAttempts[r] \in Nat \ {0}
    BY PlanAssumption DEF Init
  <1>3. "queued" \notin Terminal
    BY DEF Terminal
  <1>4. QED
    BY <1>1, <1>2, <1>3 DEF Init, IInv, StatesInv, AttemptsInv, Owed, Afford

LEMMA NextInv ==
    ASSUME IInv, [Next]_vars
    PROVE  IInv'
  BY ControlKeeps, OutsideKeeps, SettleKeeps, DispatchKeeps, SpawnKeeps, PersistKeeps
     DEF Next, TickStep, Interrupt

LEMMA Invariance == Spec => []IInv
  <1>1. IInv /\ [Next]_vars => IInv'
    BY NextInv
  <1>2. QED
    BY <1>1, InitInv, PTL DEF Spec

\* Whatever the crashes and faults, a run that harness_status.json calls terminal has
\* its file in results/.
THEOREM ResultsAreDurable == Spec => []TerminalHasResult
  <1>1. IInv => TerminalHasResult
    BY DEF IInv, StatesInv, TerminalHasResult
  <1>2. QED
    BY <1>1, Invariance, PTL

\* No process is ever launched that the persisted status had not counted as an
\* attempt before, and max_attempts bounds the attempts of every job.
THEOREM LaunchesAreCounted == Spec => []LaunchesCounted
  <1>1. IInv => LaunchesCounted
    BY DEF IInv, AttemptsInv, Afford, LaunchesCounted
  <1>2. QED
    BY <1>1, Invariance, PTL

\* No step of the tick, of a worker, of the operator or of a crash takes a run out of
\* the terminal state harness_status.json gave it.
THEOREM TerminalStatesAreForever == Spec => TerminalForever
  <1>1. ASSUME IInv, [Next]_vars, NEW r \in Runs, status.run[r].state \in Terminal
        PROVE  status'.run[r].state = status.run[r].state
    <2>1. mem \in Status /\ \A q \in Runs : status.run[q] \in RunRecord
      BY <1>1 DEF IInv, TypeOK, Status
    <2>2. CASE Persist
      <3>1. status'.run = mem.run
        BY <2>1, <2>2 DEF Persist, Status
      <3>2. QED
        BY <1>1, <3>1 DEF IInv, StatesInv
    <2>3. CASE Pass
      <3>1. status \in Status
        BY <1>1 DEF IInv, TypeOK
      <3>2. status'.run = [q \in Runs |-> AgedRun(status.run[q])]
        BY <2>3, <3>1 DEF Pass, Status
      <3>3. AgedRun(status.run[r]).state = status.run[r].state
        BY <2>1 DEF AgedRun, RunRecord
      <3>4. QED
        BY <3>2, <3>3
    <2>4. CASE ~Persist /\ ~Pass
      <3>1. status' = status
        <4>1. CASE TickStep
          BY <2>4, <4>1 DEF TickStep, CancelRun, ApplyControls, Observe,
             ReapTerminal, FailDeadPid, FailLaunch, ReclaimStalled, MarkStalled, MarkRunning,
             LeaveAlone, FailOrRetry, Perform, PassOver, ProbeUnsatisfied, ProbeSatisfied, Claim,
             LaunchSubagent, LoseSubagent, SpawnShell, SpawnFails, RecordPid, RecordPidFails
        <4>2. CASE Interrupt
          BY <4>2 DEF Interrupt, Crash, CrashAfterSummary
        <4>3. CASE \E q \in Runs : WorkerStep(q)
          BY <4>3 DEF WorkerStep, Beat, WriteOutput, Hang, Exit, Report
        <4>4. CASE (\E name \in Requests : WriteControl(name)) \/ UNCHANGED vars
          BY <4>4 DEF WriteControl, vars
        <4>5. QED
          BY <1>1, <2>4, <4>1, <4>2, <4>3, <4>4 DEF Next
      <3>2. QED
        BY <3>1
    <2>5. QED
      BY <2>2, <2>3, <2>4
  <1>2. IInv /\ [Next]_vars =>
            [\A r \in Runs : status.run[r].state \in Terminal
                              => status'.run[r].state = status.run[r].state]_vars
    BY <1>1
  <1>3. QED
    BY <1>2, Invariance, PTL DEF Spec, TerminalForever
=============================================================================
