--------------------------- MODULE TickEngineWorkers ---------------------------
(***************************************************************************)
(* That no job has two workers at work, that the engine implements         *)
(* JobLifecycle, and that job files and pool slots follow the states of    *)
(* the runs, on top of the invariant proved in TickEngineProofs.           *)
(***************************************************************************)
EXTENDS TickEngineVerdicts, FiniteSetTheorems

AtWork(r, i) == worker[r][i].proc \in {"working", "mute"}

Unmanned(r) == \A i \in DOMAIN worker[r] : ~AtWork(r, i)

\* A launch may still come of what is on disk, in memory or on the dispatch list.
Expecting(r) == status.run[r].state = "queued" \/ mem.run[r].state = "queued" \/ Owed(r)

\* What the engine reads before it launches again tells the truth of one run: at work
\* is its last worker at most, that is whom a recorded pid names, a terminal line means
\* that nobody is, and while a launch may come there is neither worker, pid nor line.
Lone(r) ==
    /\ \A i \in DOMAIN worker[r] : AtWork(r, i) => i = Len(worker[r])
    /\ files[r].lock > 0 => files[r].lock = Len(worker[r])
    /\ files[r].hb \in TerminalHb => Unmanned(r)
    /\ Expecting(r) => Unmanned(r) /\ files[r].lock <= 0 /\ files[r].hb \notin TerminalHb

\* The dispatch list is empty until _dispatch runs, and holds claimed runs only.
ListInv ==
    /\ pc \in {"control", "advance", "settle"} => dispatch = {}
    /\ \A r \in dispatch : mem.run[r].state # "queued"
    /\ pc = "record" => cur \in dispatch

\* Where no output is measured, no silence is reclaimed.
UnmeasuredInv == \A r \in Runs \ Measurable : outAge[r] = NoAge

LoneInv ==
    /\ ListInv /\ UnmeasuredInv
    /\ faults <= MaxFaults
    /\ faults = MaxFaults =>
          /\ \A r \in Runs \ Measurable : Lone(r)
          /\ pc = "settle" /\ seen.hb \in TerminalHb => files[cur].hb \in TerminalHb
------------------------------------------------------------------------------
(* What the engine's writes do to a run's files: no terminal line and no pid is new *)

Mild(g, f) == /\ g.hb \in TerminalHb => f.hb \in TerminalHb
              /\ g.lock > 0 => g.lock = f.lock

MildTrail(trail, f) == \A k \in 1..Len(trail) : Mild(trail[k], f)

LEMMA FinalMild ==
    ASSUME NEW f, NEW t \in Trails, MildTrail(t, f)
    PROVE  Mild(Final(t), f)
  <1>1. Len(t) \in 1..Len(t)
    BY DEF Trails
  <1>2. QED
    BY <1>1 DEF MildTrail, Final

LEMMA RecordMild ==
    ASSUME NEW f \in RunFiles, NEW v \in Verdict
    PROVE  RecordResult(f, v) \in Trails /\ MildTrail(RecordResult(f, v), f)
  <1>1. RecordResult(f, v) \in Trails
    BY RecordResultType
  <1>2. CASE f.result # "none"
    BY <1>1, <1>2 DEF RecordResult, MildTrail, Mild
  <1>3. CASE f.result = "none"
    <2>. DEFINE a == [f EXCEPT !.result = v]
                b == [f EXCEPT !.result = v, !.claimed = FALSE]
                c == [f EXCEPT !.result = v, !.claimed = FALSE, !.lock = NoLock]
    <2>1. Mild(f, f) /\ Mild(a, f) /\ Mild(b, f) /\ Mild(c, f)
      BY DEF RunFiles, Mild, NoLock
    <2>. HIDE DEF a, b, c
    <2>2. MildTrail(<<f, a, b, c>>, f)
      BY <2>1 DEF MildTrail
    <2>3. QED
      BY <1>3, <2>2, <1>1 DEF RecordResult, a, b, c
  <1>4. QED
    BY <1>1, <1>2, <1>3

LEMMA RequeueMild ==
    ASSUME NEW f \in RunFiles
    PROVE  /\ Requeue(f) \in Trails /\ MildTrail(Requeue(f), f)
           /\ Final(Requeue(f)).hb = "none" /\ Final(Requeue(f)).lock = NoLock
  <1>. DEFINE a == [f EXCEPT !.result = "none"]
              b == [f EXCEPT !.result = "none", !.claimed = FALSE]
              c == [f EXCEPT !.result = "none", !.claimed = FALSE, !.lock = NoLock]
              d == [c EXCEPT !.queue = TRUE]
              e == [c EXCEPT !.queue = TRUE, !.hb = "none", !.hbAge = 0]
  <1>1. Mild(f, f) /\ Mild(a, f) /\ Mild(b, f) /\ Mild(c, f) /\ Mild(d, f) /\ Mild(e, f)
    BY DEF RunFiles, Mild, NoLock, TerminalHb
  <1>2. e.hb = "none" /\ e.lock = NoLock
    BY DEF RunFiles
  <1>3. Requeue(f) = <<f, a, b, c, d, e>>
    BY DEF Requeue
  <1>. HIDE DEF a, b, c, d, e
  <1>4. MildTrail(<<f, a, b, c, d, e>>, f) /\ Final(<<f, a, b, c, d, e>>) = e
    BY <1>1 DEF MildTrail, Final
  <1>5. QED
    BY <1>2, <1>3, <1>4, RequeueType

\* A list of contents with one more at its end.
LEMMA AppendMild ==
    ASSUME NEW f, NEW t \in Trails, NEW g \in RunFiles, MildTrail(t, f), Mild(g, f)
    PROVE  Append(t, g) \in Trails /\ MildTrail(Append(t, g), f)
  <1>1. /\ Len(Append(t, g)) = Len(t) + 1 /\ Len(t) \in Nat /\ Append(t, g) \in Trails
        /\ \A k \in 1..Len(t) : Append(t, g)[k] = t[k]
        /\ Append(t, g)[Len(t) + 1] = g
    BY DEF Trails
  <1>2. \A k \in 1..(Len(t) + 1) : k \in 1..Len(t) \/ k = Len(t) + 1
    BY <1>1
  <1>3. QED
    BY <1>1, <1>2 DEF MildTrail

LEMMA SkipMild ==
    ASSUME NEW f \in RunFiles
    PROVE  SkipDone(f) \in Trails /\ MildTrail(SkipDone(f), f)
  <1>. DEFINE trail == RecordResult(f, "COMPLETED")
              last == [Final(trail) EXCEPT !.queue = FALSE]
  <1>1. trail \in Trails /\ MildTrail(trail, f)
    BY RecordMild DEF Verdict, TerminalHb
  <1>2. last \in RunFiles /\ Mild(last, f)
    BY <1>1, FinalType, FinalMild DEF RunFiles, Mild
  <1>3. SkipDone(f) = Append(trail, last)
    BY DEF SkipDone
  <1>. HIDE DEF trail, last
  <1>4. QED
    BY <1>1, <1>2, <1>3, AppendMild

LEMMA ClaimMild ==
    ASSUME NEW f \in RunFiles
    PROVE  /\ ClaimToken(f) \in Trails /\ MildTrail(ClaimToken(f), f)
           /\ LET started == Append(ClaimToken(f), Heard(Final(ClaimToken(f)), "beat"))
              IN  started \in Trails /\ MildTrail(started, f)
  <1>. DEFINE token == ClaimToken(f)
              last == Heard(Final(token), "beat")
  <1>1. token \in Trails /\ MildTrail(token, f)
    <2>. DEFINE a == [f EXCEPT !.queue = FALSE, !.claimed = TRUE]
                b == [f EXCEPT !.queue = FALSE, !.claimed = TRUE, !.lock = 0]
    <2>1. Mild(f, f) /\ Mild(a, f) /\ Mild(b, f)
      BY DEF RunFiles, Mild
    <2>. HIDE DEF a, b
    <2>2. MildTrail(<<f, a, b>>, f) /\ MildTrail(<<f>>, f)
      BY <2>1 DEF MildTrail
    <2>3. QED
      BY <2>2, ClaimTokenType DEF ClaimToken, a, b
  <1>2. Final(token) \in RunFiles /\ Mild(Final(token), f)
    BY <1>1, FinalType, FinalMild
  <1>3. last \in RunFiles
    BY <1>2, HeardType DEF Heartbeat
  <1>4. last.hb = AppendLine(Final(token).hb, "beat") /\ last.lock = Final(token).lock
    BY <1>2 DEF Heard, RunFiles
  <1>5. Mild(last, f)
    BY <1>2, <1>4 DEF Mild, AppendLine, TerminalHb
  <1>. HIDE DEF token, last
  <1>6. QED
    BY <1>1, <1>3, <1>5, AppendMild DEF token, last

LEMMA ConcatMild ==
    ASSUME NEW f, NEW s \in Trails, NEW t \in Trails, MildTrail(s, f), MildTrail(t, Final(s)),
           f \in RunFiles
    PROVE  s \o t \in Trails /\ MildTrail(s \o t, f) /\ Final(s \o t) = Final(t)
  <1>1. Mild(Final(s), f) /\ Final(s) \in RunFiles
    BY FinalMild, FinalType
  <1>2. Len(s) \in Nat /\ Len(t) \in Nat /\ Len(t) > 0 /\ Len(s \o t) = Len(s) + Len(t) /\ s \o t \in Trails
    BY DEF Trails
  <1>3. \A k \in 1..Len(s) : (s \o t)[k] = s[k]
    BY DEF Trails
  <1>4. \A k \in 1..(Len(s) + Len(t)) : k \notin 1..Len(s) =>
            k - Len(s) \in 1..Len(t) /\ (s \o t)[k] = t[k - Len(s)]
    BY DEF Trails
  <1>5. \A g : Mild(g, Final(s)) => Mild(g, f)
    BY <1>1 DEF Mild
  <1>6. MildTrail(s \o t, f)
    BY <1>2, <1>3, <1>4, <1>5 DEF MildTrail
  <1>7. (s \o t)[Len(s) + Len(t)] = t[Len(t)]
    BY <1>2, <1>4
  <1>8. QED
    BY <1>2, <1>6, <1>7 DEF Final
------------------------------------------------------------------------------
(* What a step must leave alone *)

\* A step that neither launches nor changes a worker, and adds no line and no pid.
LEMMA LoneFrame ==
    ASSUME IInv, TypeOK', LoneInv, ListInv', UnmeasuredInv', UNCHANGED <<worker, faults>>,
           \A q \in Runs : Mild(files'[q], files[q]),
           \A q \in Runs : Expecting(q)' =>
               \/ Expecting(q)
               \/ faults = MaxFaults /\ q \notin Measurable
                     => Unmanned(q) /\ files'[q].lock <= 0 /\ files'[q].hb \notin TerminalHb,
           pc' = "settle" /\ seen'.hb \in TerminalHb /\ faults = MaxFaults
               => files'[cur'].hb \in TerminalHb
    PROVE  LoneInv'
  <1>1. \A q \in Runs : files[q].lock \in Int /\ files'[q].lock \in Int
    BY DEF IInv, TypeOK, RunFiles, NoLock
  <1>2. ASSUME NEW q \in Runs \ Measurable, faults = MaxFaults PROVE Lone(q)'
    <2>1. Lone(q)
      BY <1>2 DEF LoneInv
    <2>2. Unmanned(q) <=> Unmanned(q)'
      BY DEF Unmanned, AtWork
    <2>3. Mild(files'[q], files[q])
      OBVIOUS
    <2>4. Expecting(q)' => Unmanned(q) /\ files'[q].lock <= 0 /\ files'[q].hb \notin TerminalHb
      BY <1>1, <1>2, <2>1, <2>3 DEF Lone, Mild
    <2>5. QED
      BY <2>1, <2>2, <2>3, <2>4 DEF Lone, AtWork, Mild
  <1>3. QED
    BY <1>2 DEF LoneInv

LEMMA LoneDie ==
    ASSUME IInv, TypeOK', LoneInv, Die, UNCHANGED <<status, outAge, worker>>,
           \A q \in Runs : Mild(files'[q], files[q])
    PROVE  LoneInv'
  <1>1. ListInv' /\ UnmeasuredInv' /\ pc' # "settle" /\ faults' = faults
    BY DEF Die, ListInv, UnmeasuredInv, LoneInv
  <1>2. \A q \in Runs : Expecting(q)' => Expecting(q)
    BY DEF Die, Expecting, Owed
  <1>3. QED
    BY <1>1, <1>2, LoneFrame

\* Once an OSError has escaped, nothing is claimed any more.
LEMMA LoneAbort ==
    ASSUME IInv, LoneInv, NEW run, Abort(run), UNCHANGED outAge
    PROVE  LoneInv'
  <1>1. faults \in Nat /\ MaxFaults \in Nat
    BY FaultAssumption DEF IInv, TypeOK
  <1>2. faults' <= MaxFaults /\ faults' # MaxFaults
    BY <1>1 DEF Abort, LoneInv
  <1>3. QED
    BY <1>2 DEF Abort, LoneInv, ListInv, UnmeasuredInv

\* Nor once one has been swallowed.
LEMMA LoneSwallowed ==
    ASSUME IInv, LoneInv, ListInv', UnmeasuredInv', faults > 0, faults' = faults - 1
    PROVE  LoneInv'
  <1>1. faults \in Nat /\ MaxFaults \in Nat
    BY FaultAssumption DEF IInv, TypeOK
  <1>2. faults' <= MaxFaults /\ faults' # MaxFaults
    BY <1>1 DEF LoneInv
  <1>3. QED
    BY <1>2 DEF LoneInv

\* The record a step writes queues its run only when nobody works for it.
Freed(r, rec, f) ==
    rec.state = "queued" =>
        \/ mem.run[r].state = "queued"
        \/ faults = MaxFaults /\ r \notin Measurable
              => Unmanned(r) /\ f.lock <= 0 /\ f.hb \notin TerminalHb

LEMMA LonePerform ==
    ASSUME IInv, TypeOK', LoneInv, NEW r \in Runs, NEW trail \in Trails, NEW risky, NEW rec, NEW list,
           Perform(r, trail, risky, rec, list), MildTrail(trail, files[r]),
           pc \in {"settle", "dispatch"}, cur = r, Freed(r, rec, Final(trail)),
           \/ list = dispatch /\ (pc = "dispatch" => rec.state # "queued")
           \/ list = dispatch \cup {r} /\ pc = "dispatch" /\ rec.state # "queued"
    PROVE  LoneInv'
  <1>1. /\ mem \in Status /\ mem.run \in [Runs -> RunRecord] /\ files \in [Runs -> RunFiles]
        /\ UNCHANGED <<status, outAge, worker>>
    BY DEF IInv, TypeOK, Status, Perform
  <1>2. \A q \in Runs : Mild(files[q], files[q])
    BY DEF Mild
  <1>3. CASE /\ Complete(r, trail, risky)
             /\ mem' = [mem EXCEPT !.run[r] = rec]
             /\ dispatch' = list /\ seen' = Unseen /\ MoveOn
    <2>1. mem'.run[r] = rec /\ \A q \in Runs \ {r} : mem'.run[q] = mem.run[q]
      BY <1>1, <1>3 DEF Status
    <2>3. /\ pc' \in {"advance", "dispatch", "persist"}
          /\ pc = "dispatch" => pc' # "advance"
      BY <1>3, MoveOnType DEF IInv, MoveOn, GoOnDispatching, GoToPersist
    <2>4. /\ pc = "settle" => dispatch = {}
          /\ pc = "dispatch" => mem.run[r].state = "queued"
          /\ \A q \in dispatch : mem.run[q].state # "queued"
      BY DEF LoneInv, ListInv, IInv, StatesInv
    <2>5. dispatch \subseteq Runs
      BY DEF IInv, TypeOK
    <2>6. ListInv'
      BY <1>3, <2>1, <2>3, <2>4, <2>5 DEF ListInv
    <2>7. \A q \in Runs \ {r} : Expecting(q)' => Expecting(q)
      BY <1>1, <1>3, <2>1, <2>3 DEF Expecting, Owed
    <2>8. UnmeasuredInv' /\ worker' = worker
      BY <1>1 DEF LoneInv, UnmeasuredInv
    <2>9. CASE faults > 0 /\ faults' = faults - 1
      BY <2>6, <2>8, <2>9, LoneSwallowed
    <2>10. CASE files' = [files EXCEPT ![r] = Final(trail)] /\ UNCHANGED budget
      <3>1. files'[r] = Final(trail) /\ \A q \in Runs \ {r} : files'[q] = files[q]
        BY <1>1, <2>10
      <3>2. \A q \in Runs : Mild(files'[q], files[q])
        BY <1>2, <3>1, FinalMild
      <3>3. Expecting(r)' => \/ Expecting(r)
                             \/ faults = MaxFaults /\ r \notin Measurable
                                  => Unmanned(r) /\ files'[r].lock <= 0 /\ files'[r].hb \notin TerminalHb
        BY <1>1, <1>3, <2>1, <2>3, <2>4, <3>1 DEF Expecting, Owed, Freed
      <3>4. faults' = faults
        BY <2>10 DEF budget
      <3>5. QED
        BY <2>3, <2>6, <2>7, <2>8, <3>2, <3>3, <3>4, LoneFrame
    <2>11. QED
      BY <1>3, <2>9, <2>10 DEF Complete
  <1>4. CASE Die /\ \E k \in 1..Len(trail) : files' = [files EXCEPT ![r] = trail[k]]
    <2>1. \A q \in Runs : Mild(files'[q], files[q])
      BY <1>1, <1>2, <1>4 DEF MildTrail
    <2>2. QED
      BY <1>1, <1>4, <2>1, LoneDie
  <1>5. CASE Abort(mem.run)
    BY <1>1, <1>5, LoneAbort
  <1>6. QED
    BY <1>3, <1>4, <1>5 DEF Perform

------------------------------------------------------------------------------
(* One lemma for each part of the tick *)

LEMMA LoneRetry ==
    ASSUME IInv, TypeOK', LoneInv, NEW r \in Runs, NEW trail \in Trails, NEW risky,
           FailOrRetry(r, trail, risky), MildTrail(trail, files[r]), pc = "settle", cur = r,
           faults = MaxFaults /\ r \notin Measurable => Unmanned(r)
    PROVE  LoneInv'
  <1>1. Final(trail) \in RunFiles /\ files[r] \in RunFiles /\ mem.run[r] \in RunRecord
    BY FinalType DEF IInv, TypeOK, Status
  <1>. DEFINE whole == trail \o Requeue(Final(trail))
  <1>2. /\ whole \in Trails /\ MildTrail(whole, files[r])
        /\ Final(whole).hb = "none" /\ Final(whole).lock = NoLock
    BY <1>1, RequeueMild, ConcatMild
  <1>3. Freed(r, Requeued(mem.run[r]), Final(whole))
    BY <1>2 DEF Freed, NoLock, TerminalHb
  <1>4. Freed(r, Become(r, "failed"), Final(trail))
    BY <1>1 DEF Freed, Become, RunRecord
  <1>. HIDE DEF whole
  <1>5. CASE Perform(r, whole, IF Len(trail) = 1 THEN 0 ELSE risky, Requeued(mem.run[r]), dispatch)
    BY <1>2, <1>3, <1>5, LonePerform
  <1>6. CASE Perform(r, trail, risky, Become(r, "failed"), dispatch)
    BY <1>4, <1>6, LonePerform
  <1>7. QED
    BY <1>5, <1>6 DEF FailOrRetry, whole

LEMMA LoneSettle ==
    ASSUME IInv, TypeOK', LoneInv, NEW r \in Runs,
           \/ ReapTerminal(r) \/ FailDeadPid(r) \/ FailLaunch(r) \/ ReclaimStalled(r)
           \/ MarkStalled(r) \/ MarkRunning(r) \/ LeaveAlone(r)
    PROVE  LoneInv'
  <1>1. mem.run[r] \in RunRecord /\ files[r] \in RunFiles /\ worker[r] \in Seq(Worker)
    BY DEF IInv, TypeOK, Status
  <1>2. /\ \A state, f : state # "queued" => Freed(r, Become(r, state), f)
        /\ \A f : Freed(r, mem.run[r], f)
    BY <1>1 DEF Freed, Become, RunRecord
  <1>3. pc = "settle" /\ cur = r
    BY DEF ReapTerminal, FailDeadPid, FailLaunch, ReclaimStalled, MarkStalled, MarkRunning, LeaveAlone
  <1>4. \A v \in Verdict : /\ RecordResult(files[r], v) \in Trails
                           /\ MildTrail(RecordResult(files[r], v), files[r])
    BY <1>1, RecordMild
  <1>5. <<files[r]>> \in Trails /\ MildTrail(<<files[r]>>, files[r])
    BY <1>1 DEF Trails, MildTrail, Mild
  <1>6. CASE ReapTerminal(r)
    <2>1. seen.hb \in TerminalHb /\ seen.hb \in Verdict
      BY <1>6 DEF ReapTerminal, Reported, Verdict
    <2>2. faults = MaxFaults /\ r \notin Measurable => Unmanned(r)
      BY <1>3, <2>1 DEF LoneInv, Lone
    <2>3. CASE Perform(r, MoveToResults(files[r], seen.hb), 2, Become(r, "completed"), dispatch)
      BY <1>2, <1>3, <1>4, <2>1, <2>3, LonePerform DEF MoveToResults
    <2>4. CASE FailOrRetry(r, MoveToResults(files[r], seen.hb), 2)
      BY <1>3, <1>4, <2>1, <2>2, <2>4, LoneRetry DEF MoveToResults
    <2>5. QED
      BY <1>6, <2>3, <2>4 DEF ReapTerminal
  <1>7. CASE FailDeadPid(r)
    <2>1. /\ files[r].lock > 0 /\ worker[r][files[r].lock].proc = "gone"
          /\ FailOrRetry(r, RecordResult(files[r], "FAILED"), 1)
      BY <1>7 DEF FailDeadPid, PidDead
    <2>2. ASSUME faults = MaxFaults, r \notin Measurable PROVE Unmanned(r)
      <3>1. files[r].lock = Len(worker[r]) /\ \A i \in DOMAIN worker[r] : AtWork(r, i) => i = Len(worker[r])
        BY <2>1, <2>2 DEF LoneInv, Lone
      <3>2. QED
        BY <2>1, <3>1 DEF Unmanned, AtWork
    <2>3. QED
      BY <1>3, <1>4, <2>1, <2>2, LoneRetry DEF Verdict, TerminalHb
  <1>8. CASE FailLaunch(r)
    BY <1>2, <1>3, <1>4, <1>8, LonePerform DEF FailLaunch, Verdict
  <1>9. CASE ReclaimStalled(r)
    <2>1. r \in Measurable
      BY <1>9 DEF ReclaimStalled, Hung, OutputStale, LoneInv, UnmeasuredInv
    <2>2. Requeue(files[r]) \in Trails /\ MildTrail(Requeue(files[r]), files[r])
      BY <1>1, RequeueMild
    <2>3. \A f : Freed(r, Requeued(mem.run[r]), f)
      BY <2>1 DEF Freed
    <2>4. CASE Perform(r, Requeue(files[r]), 0, Requeued(mem.run[r]), dispatch)
      BY <1>3, <2>2, <2>3, <2>4, LonePerform
    <2>5. CASE Perform(r, RecordResult(files[r], "ABANDONED"), 1, Become(r, "abandoned"), dispatch)
      BY <1>2, <1>3, <1>4, <2>5, LonePerform DEF Verdict, TerminalHb
    <2>6. QED
      BY <1>9, <2>4, <2>5 DEF ReclaimStalled
  <1>10. CASE MarkStalled(r)
    BY <1>2, <1>3, <1>5, <1>10, LonePerform DEF MarkStalled
  <1>11. CASE MarkRunning(r)
    BY <1>2, <1>3, <1>5, <1>11, LonePerform DEF MarkRunning
  <1>12. CASE LeaveAlone(r)
    BY <1>2, <1>3, <1>5, <1>12, LonePerform DEF LeaveAlone
  <1>13. QED
    BY <1>6, <1>7, <1>8, <1>9, <1>10, <1>11, <1>12

LEMMA LoneDispatch ==
    ASSUME IInv, TypeOK', LoneInv, NEW r \in Runs,
           PassOver(r) \/ ProbeUnsatisfied(r) \/ ProbeSatisfied(r) \/ Claim(r)
    PROVE  LoneInv'
  <1>1. /\ mem \in Status /\ mem.run \in [Runs -> RunRecord] /\ mem.run[r] \in RunRecord
        /\ files[r] \in RunFiles
    BY DEF IInv, TypeOK, Status
  <1>2. pc = "dispatch" /\ cur = r
    BY DEF PassOver, ProbeUnsatisfied, ProbeSatisfied, Claim
  <1>3. \A q \in Runs : Mild(files[q], files[q])
    BY DEF Mild
  <1>4. CASE PassOver(r)
    <2>1. pc' \in {"dispatch", "persist"}
          /\ UNCHANGED <<status, mem, files, outAge, dispatch, worker, faults>>
      BY <1>2, <1>4 DEF PassOver, disk, budget, MoveOn, GoOnDispatching, GoToPersist
    <2>2. ListInv' /\ UnmeasuredInv' /\ \A q \in Runs : Expecting(q)' => Expecting(q)
      BY <1>2, <2>1 DEF LoneInv, ListInv, UnmeasuredInv, Expecting, Owed
    <2>3. QED
      BY <1>3, <2>1, <2>2, LoneFrame
  <1>5. CASE ProbeUnsatisfied(r)
    <2>1. UNCHANGED <<status, files, outAge, pc, cur, dispatch, worker, faults>>
      BY <1>5 DEF ProbeUnsatisfied, disk, budget
    <2>2. mem'.run = [mem.run EXCEPT ![r] = [mem.run[r] EXCEPT !.check = "checked"]]
      BY <1>1, <1>5 DEF ProbeUnsatisfied, Status
    <2>3. \A q \in Runs : mem'.run[q].state = mem.run[q].state
      BY <1>1, <2>2 DEF RunRecord
    <2>4. dispatch \subseteq Runs
      BY DEF IInv, TypeOK
    <2>5. ListInv' /\ UnmeasuredInv' /\ \A q \in Runs : Expecting(q)' => Expecting(q)
      BY <1>2, <2>1, <2>3, <2>4 DEF LoneInv, ListInv, UnmeasuredInv, Expecting, Owed
    <2>6. QED
      BY <1>2, <1>3, <2>1, <2>5, LoneFrame
  <1>6. CASE ProbeSatisfied(r)
    <2>. DEFINE rec == [mem.run[r] EXCEPT !.state = "completed", !.check = "skipped"]
    <2>1. rec.state # "queued"
      BY <1>1 DEF RunRecord
    <2>2. SkipDone(files[r]) \in Trails /\ MildTrail(SkipDone(files[r]), files[r])
      BY <1>1, SkipMild
    <2>. HIDE DEF rec
    <2>3. CASE Perform(r, SkipDone(files[r]), 0, rec, dispatch)
      BY <1>2, <2>1, <2>2, <2>3, LonePerform DEF Freed
    <2>4. CASE Abort([mem.run EXCEPT ![r].check = "checked"]) /\ UNCHANGED outAge
      BY <2>4, LoneAbort
    <2>5. QED
      BY <1>6, <2>3, <2>4 DEF ProbeSatisfied, rec
  <1>7. CASE Claim(r)
    <2>. DEFINE token == ClaimToken(files[r])
                started == Append(token, Heard(Final(token), "beat"))
    <2>1. /\ token \in Trails /\ MildTrail(token, files[r])
          /\ started \in Trails /\ MildTrail(started, files[r])
      BY <1>1, ClaimMild
    <2>2. Claimed(mem.run[r]).state # "queued"
      BY <1>1 DEF Claimed, RunRecord
    <2>. HIDE DEF token, started
    <2>3. CASE Perform(r, token, 2, Claimed(mem.run[r]), dispatch \cup {r})
      BY <1>2, <2>1, <2>2, <2>3, LonePerform DEF Freed
    <2>4. CASE Perform(r, started, Len(token) - 1, Claimed(mem.run[r]), dispatch \cup {r})
      BY <1>2, <2>1, <2>2, <2>4, LonePerform DEF Freed
    <2>5. CASE Abort([mem.run EXCEPT ![r] = Claimed(@)]) /\ UNCHANGED outAge
      BY <2>5, LoneAbort
    <2>6. QED
      BY <1>7, <2>3, <2>4, <2>5 DEF Claim, token, started
  <1>8. QED
    BY <1>4, <1>5, <1>6, <1>7

LEMMA LoneControl ==
    ASSUME IInv, TypeOK', LoneInv, CancelRun \/ ApplyControls \/ Observe
    PROVE  LoneInv'
  <1>1. mem \in Status /\ mem.run \in [Runs -> RunRecord] /\ files \in [Runs -> RunFiles]
    BY DEF IInv, TypeOK, Status
  <1>2. \A q \in Runs : Mild(files[q], files[q])
    BY DEF Mild
  <1>3. pc \in {"idle", "control", "advance"} /\ dispatch = {}
    BY DEF CancelRun, ApplyControls, Observe, LoneInv, ListInv, IInv, AttemptsInv
  <1>4. CASE CancelRun
    <2>. DEFINE r == control.cancel
                trail == RecordResult(files[r], "ABANDONED")
    <2>1. r \in Runs
      BY <1>4 DEF CancelRun, Cancellable, IInv, TypeOK, Control, Runs
    <2>2. trail \in Trails /\ MildTrail(trail, files[r])
      BY <1>1, <2>1, RecordMild DEF Verdict, TerminalHb
    <2>3. Mild(Final(trail), files[r])
      BY <2>2, FinalMild
    <2>. HIDE DEF trail, r
    <2>4. CASE /\ Complete(r, trail, 1)
               /\ mem' = [mem EXCEPT !.run[r] = Become(r, "abandoned")]
               /\ pc' = "control" /\ UNCHANGED dispatch
               /\ UNCHANGED <<status, outAge, worker>>
      <3>1. mem'.run = [mem.run EXCEPT ![r] = Become(r, "abandoned")]
        BY <1>1, <2>4 DEF Status
      <3>2. Become(r, "abandoned").state = "abandoned"
        BY <1>1, <2>1 DEF Become, RunRecord
      <3>3. \A q \in Runs : mem'.run[q].state = "queued" => mem.run[q].state = "queued"
        BY <1>1, <2>1, <3>1, <3>2
      <3>4. ListInv' /\ UnmeasuredInv' /\ \A q \in Runs : Expecting(q)' => Expecting(q)
        BY <1>3, <2>4, <3>3 DEF LoneInv, ListInv, UnmeasuredInv, Expecting, Owed
      <3>5. CASE faults > 0 /\ faults' = faults - 1
        BY <3>4, <3>5, LoneSwallowed
      <3>6. CASE files' = [files EXCEPT ![r] = Final(trail)] /\ UNCHANGED budget
        <4>1. \A q \in Runs : Mild(files'[q], files[q])
          BY <1>1, <1>2, <2>3, <3>6
        <4>2. QED
          BY <2>4, <3>4, <3>6, <4>1, LoneFrame DEF budget
      <3>7. QED
        BY <2>4, <3>5, <3>6 DEF Complete
    <2>5. CASE /\ Die /\ \E k \in 1..Len(trail) : files' = [files EXCEPT ![r] = trail[k]]
               /\ UNCHANGED <<status, outAge, worker>>
      <3>1. \A q \in Runs : Mild(files'[q], files[q])
        BY <1>1, <1>2, <2>2, <2>5 DEF MildTrail
      <3>2. QED
        BY <2>5, <3>1, LoneDie
    <2>6. QED
      BY <1>4, <2>4, <2>5 DEF CancelRun, trail, r
  <1>5. CASE ApplyControls
    <2>1. /\ mem'.run = mem.run /\ pc' \in {"advance", "dispatch", "persist"}
          /\ UNCHANGED <<status, files, outAge, dispatch, worker, faults>>
      BY <1>1, <1>5 DEF ApplyControls, Status, GoToAdvance, GoToDispatch, GoToPersist, budget
    <2>2. ListInv' /\ UnmeasuredInv' /\ \A q \in Runs : Expecting(q)' => Expecting(q)
      BY <1>3, <2>1 DEF LoneInv, ListInv, UnmeasuredInv, Expecting, Owed
    <2>3. QED
      BY <1>2, <2>1, <2>2, LoneFrame
  <1>6. CASE Observe
    <2>1. /\ pc' = "settle" /\ seen'.hb = files[cur].hb
          /\ UNCHANGED <<status, mem, files, outAge, cur, dispatch, worker, faults>>
      BY <1>6 DEF Observe, disk, budget
    <2>2. ListInv' /\ UnmeasuredInv' /\ \A q \in Runs : Expecting(q)' => Expecting(q)
      BY <1>3, <2>1 DEF LoneInv, ListInv, UnmeasuredInv, Expecting, Owed
    <2>3. QED
      BY <1>2, <2>1, <2>2, LoneFrame
  <1>7. QED
    BY <1>4, <1>5, <1>6

LEMMA LonePersist ==
    ASSUME IInv, TypeOK', LoneInv, Persist \/ Interrupt
    PROVE  LoneInv'
  <1>1. mem \in Status /\ \A q \in Runs : Mild(files[q], files[q])
    BY DEF IInv, TypeOK, Mild
  <1>2. CASE Persist
    <2>1. /\ status'.run = mem.run /\ mem'.run = mem.run /\ pc' \in {"idle", "spawn"} /\ pc = "persist"
          /\ UNCHANGED <<files, outAge, cur, dispatch, worker, faults>>
      BY <1>1, <1>2 DEF Persist, Status, budget
    <2>2. ListInv' /\ UnmeasuredInv' /\ \A q \in Runs : Expecting(q)' => Expecting(q)
      BY <2>1 DEF LoneInv, ListInv, UnmeasuredInv, Expecting, Owed
    <2>3. QED
      BY <1>1, <2>1, <2>2, LoneFrame
  <1>3. CASE Interrupt
    BY <1>1, <1>3, LoneDie DEF Interrupt, Crash, CrashAfterSummary, disk
  <1>4. QED
    BY <1>2, <1>3

\* What is left on the dispatch list once the entry of r is handled.
LEMMA HandledList ==
    ASSUME IInv, LoneInv, NEW r \in Runs, r \in dispatch, Handled(r), UNCHANGED <<status, mem>>,
           pc = "spawn" \/ (pc = "record" /\ cur = r)
    PROVE  /\ ListInv' /\ pc' # "settle" /\ ~Expecting(r)'
           /\ \A q \in Runs : Expecting(q)' => Expecting(q)
  <1>1. mem = status /\ mem.run[r].state # "queued"
    BY DEF IInv, AttemptsInv, LoneInv, ListInv
  <1>2. QED
    BY <1>1 DEF Handled, Expecting, Owed, LoneInv, ListInv

\* The step that launches a worker for r, whose launch was owed.
LEMMA LoneLaunch ==
    ASSUME IInv, LoneInv, ListInv', NEW r \in Runs, Launched(r), Expecting(r), ~Expecting(r)',
           pc' # "settle", UNCHANGED <<files, outAge, faults>>,
           \A q \in Runs : Expecting(q)' => Expecting(q)
    PROVE  LoneInv'
  <1>1. worker \in [Runs -> Seq(Worker)] /\ worker[r] \in Seq(Worker) /\ files[r].lock \in Int
        /\ files[r].hb \in Heartbeat
    BY DEF IInv, TypeOK, RunFiles, NoLock
  <1>. DEFINE new == [proc |-> "working", said |-> "none"]
  <1>2. worker'[r] = Append(worker[r], new) /\ \A q \in Runs \ {r} : worker'[q] = worker[q]
    BY <1>1 DEF Launched
  <1>. HIDE DEF new
  <1>3. /\ Len(worker[r]) \in Nat /\ Len(worker'[r]) = Len(worker[r]) + 1
        /\ DOMAIN worker[r] = 1..Len(worker[r]) /\ DOMAIN worker'[r] = 1..(Len(worker[r]) + 1)
        /\ \A i \in 1..Len(worker[r]) : worker'[r][i] = worker[r][i]
    BY <1>1, <1>2
  <1>4. ASSUME faults = MaxFaults, r \notin Measurable PROVE Lone(r)'
    <2>1. Unmanned(r) /\ files[r].lock <= 0 /\ files[r].hb \notin TerminalHb
      BY <1>4 DEF LoneInv, Lone
    <2>2. \A i \in DOMAIN worker'[r] : AtWork(r, i)' => i = Len(worker'[r])
      BY <1>3, <2>1 DEF Unmanned, AtWork
    <2>3. QED
      BY <1>1, <2>1, <2>2 DEF Lone
  <1>5. ASSUME NEW q \in Runs \ Measurable, q # r, faults = MaxFaults PROVE Lone(q)'
    <2>1. Lone(q) /\ worker'[q] = worker[q]
      BY <1>2, <1>5 DEF LoneInv
    <2>2. QED
      BY <2>1 DEF Lone, Unmanned, AtWork
  <1>6. QED
    BY <1>4, <1>5 DEF LoneInv, UnmeasuredInv

\* The step that puts a terminal line where no worker will come any more.
LEMMA LoneFailed ==
    ASSUME IInv, LoneInv, ListInv', NEW r \in Runs, Expecting(r), ~Expecting(r)', pc' # "settle",
           files' = [files EXCEPT ![r] = Heard(@, "FAILED")], UNCHANGED <<outAge, worker, faults>>,
           \A q \in Runs : Expecting(q)' => Expecting(q)
    PROVE  LoneInv'
  <1>1. files \in [Runs -> RunFiles] /\ files[r] \in RunFiles
    BY DEF IInv, TypeOK
  <1>2. files'[r].lock = files[r].lock /\ \A q \in Runs \ {r} : files'[q] = files[q]
    BY <1>1 DEF Heard, RunFiles
  <1>3. ASSUME NEW q \in Runs \ Measurable, faults = MaxFaults PROVE Lone(q)'
    <2>1. Lone(q) /\ worker'[q] = worker[q]
      BY <1>3 DEF LoneInv
    <2>2. Unmanned(q)' <=> Unmanned(q)
      BY <2>1 DEF Unmanned, AtWork
    <2>3. CASE q = r
      BY <1>2, <2>1, <2>2, <2>3 DEF Lone, AtWork
    <2>4. CASE q # r
      BY <1>2, <2>1, <2>2, <2>4 DEF Lone, AtWork
    <2>5. QED
      BY <2>3, <2>4
  <1>4. QED
    BY <1>3 DEF LoneInv, UnmeasuredInv

LEMMA LoneSpawn ==
    ASSUME IInv, TypeOK', LoneInv,
           \/ \E r \in Runs : LaunchSubagent(r) \/ LoseSubagent(r) \/ SpawnShell(r) \/ SpawnFails(r)
           \/ RecordPid \/ RecordPidFails
    PROVE  LoneInv'
  <1>1. /\ UNCHANGED <<status, mem, outAge>> /\ mem = status /\ cur \in Runs
        /\ \A q \in Runs : Mild(files[q], files[q])
    BY DEF LaunchSubagent, LoseSubagent, SpawnShell, SpawnFails, RecordPid, RecordPidFails,
           NextToSpawn, IInv, AttemptsInv, TypeOK, Mild
  <1>2. ASSUME NEW r \in Runs, LaunchSubagent(r) PROVE LoneInv'
    <2>1. /\ pc = "spawn" /\ r \in dispatch /\ Launched(r) /\ Handled(r)
          /\ UNCHANGED <<files, outAge, faults>>
      BY <1>2 DEF LaunchSubagent, NextToSpawn, disk, budget
    <2>2. Expecting(r)
      BY <2>1 DEF Expecting, Owed
    <2>3. QED
      BY <1>1, <2>1, <2>2, HandledList, LoneLaunch
  <1>3. ASSUME NEW r \in Runs, LoseSubagent(r) PROVE LoneInv'
    <2>1. /\ pc = "spawn" /\ r \in dispatch /\ Handled(r)
          /\ UNCHANGED <<files, outAge, worker, faults>>
      BY <1>3 DEF LoseSubagent, NextToSpawn, disk, budget
    <2>2. UnmeasuredInv'
      BY <2>1 DEF LoneInv, UnmeasuredInv
    <2>3. QED
      BY <1>1, <2>1, <2>2, HandledList, LoneFrame
  <1>4. ASSUME NEW r \in Runs, SpawnShell(r) PROVE LoneInv'
    <2>1. /\ pc = "spawn" /\ r \in dispatch /\ Launched(r) /\ pc' = "record" /\ cur' = r
          /\ UNCHANGED <<files, outAge, dispatch, faults>>
      BY <1>4 DEF SpawnShell, NextToSpawn, disk, budget
    <2>2. mem.run[r].state # "queued"
      BY <2>1 DEF LoneInv, ListInv
    <2>3. /\ Expecting(r) /\ ~Expecting(r)' /\ ListInv'
          /\ \A q \in Runs : Expecting(q)' => Expecting(q)
      BY <1>1, <2>1, <2>2 DEF Expecting, Owed, LoneInv, ListInv
    <2>4. QED
      BY <2>1, <2>3, LoneLaunch
  <1>5. ASSUME NEW r \in Runs, SpawnFails(r) PROVE LoneInv'
    <2>1. /\ pc = "spawn" /\ r \in dispatch /\ Handled(r)
          /\ files' = [files EXCEPT ![r] = Heard(@, "FAILED")]
          /\ UNCHANGED <<outAge, worker, faults>>
      BY <1>5 DEF SpawnFails, NextToSpawn, budget
    <2>2. Expecting(r)
      BY <2>1 DEF Expecting, Owed
    <2>3. QED
      BY <1>1, <2>1, <2>2, HandledList, LoneFailed
  <1>6. ASSUME NEW r \in Runs, r = cur, RecordPid PROVE LoneInv'
    <2>1. /\ pc = "record" /\ r \in dispatch /\ Handled(r)
          /\ files' = [files EXCEPT ![r].lock = Len(worker[r])]
          /\ UNCHANGED <<outAge, worker, faults>>
      BY <1>6 DEF RecordPid, budget, LoneInv, ListInv
    <2>2. /\ ListInv' /\ pc' # "settle" /\ ~Expecting(r)'
          /\ \A q \in Runs : Expecting(q)' => Expecting(q)
      BY <1>1, <1>6, <2>1, HandledList
    <2>3. files \in [Runs -> RunFiles] /\ files[r] \in RunFiles
      BY DEF IInv, TypeOK
    <2>4. /\ files'[r].lock = Len(worker[r]) /\ files'[r].hb = files[r].hb
          /\ \A q \in Runs \ {r} : files'[q] = files[q]
      BY <2>1, <2>3 DEF RunFiles
    <2>5. ASSUME NEW q \in Runs \ Measurable, faults = MaxFaults PROVE Lone(q)'
      <3>1. Lone(q) /\ worker'[q] = worker[q]
        BY <2>1, <2>5 DEF LoneInv
      <3>2. Unmanned(q)' <=> Unmanned(q)
        BY <3>1 DEF Unmanned, AtWork
      <3>3. CASE q = r
        BY <2>2, <2>4, <3>1, <3>2, <3>3 DEF Lone, AtWork
      <3>4. CASE q # r
        BY <2>2, <2>4, <3>1, <3>2, <3>4 DEF Lone, AtWork
      <3>5. QED
        BY <3>3, <3>4
    <2>6. QED
      BY <2>1, <2>2, <2>5 DEF LoneInv, UnmeasuredInv
  <1>7. ASSUME NEW r \in Runs, r = cur, RecordPidFails PROVE LoneInv'
    <2>1. /\ pc = "record" /\ r \in dispatch /\ Handled(r) /\ UNCHANGED outAge
          /\ faults > 0 /\ faults' = faults - 1
      BY <1>7 DEF RecordPidFails, LoneInv, ListInv
    <2>2. ListInv'
      BY <1>1, <1>7, <2>1, HandledList
    <2>3. faults' <= MaxFaults /\ faults' # MaxFaults
      BY <2>1, FaultAssumption DEF IInv, TypeOK, LoneInv
    <2>4. QED
      BY <2>1, <2>2, <2>3 DEF LoneInv, UnmeasuredInv
  <1>8. QED
    BY <1>1, <1>2, <1>3, <1>4, <1>5, <1>6, <1>7

\* A line appended by a worker is a terminal one, or adds none.
LEMMA HeardLine ==
    ASSUME TypeOK, NEW r \in Runs, NEW line \in Heartbeat, files' = [files EXCEPT ![r] = Heard(@, line)]
    PROVE  /\ files'[r].hb = AppendLine(files[r].hb, line) /\ files'[r].lock = files[r].lock
           /\ \A q \in Runs \ {r} : files'[q] = files[q]
  BY DEF TypeOK, Heard, RunFiles

\* A worker that stops, whether or not it says so, leaves its run no less lone.
LEMMA LoneStops ==
    ASSUME IInv, LoneInv, NEW r \in Runs, NEW i \in DOMAIN worker[r], NEW w,
           worker' = [worker EXCEPT ![r][i] = w],
           w.proc \in {"working", "mute"} => AtWork(r, i),
           UNCHANGED <<status, mem, pc, cur, seen, dispatch, faults>>, UnmeasuredInv',
           \A q \in Runs : files'[q].lock = files[q].lock,
           \A q \in Runs : files[q].hb \in TerminalHb => files'[q].hb \in TerminalHb,
           \A q \in Runs : files'[q].hb \in TerminalHb =>
               \/ files[q].hb \in TerminalHb
               \/ q = r /\ AtWork(r, i) /\ w.proc \notin {"working", "mute"}
    PROVE  LoneInv'
  <1>1. worker \in [Runs -> Seq(Worker)] /\ worker[r] \in Seq(Worker) /\ cur \in Runs
    BY DEF IInv, TypeOK
  <1>2. /\ DOMAIN worker'[r] = DOMAIN worker[r] /\ Len(worker'[r]) = Len(worker[r])
        /\ worker'[r][i] = w /\ \A j \in DOMAIN worker[r] : j # i => worker'[r][j] = worker[r][j]
        /\ \A q \in Runs \ {r} : worker'[q] = worker[q]
    BY <1>1
  <1>3. \A j \in DOMAIN worker[r] : AtWork(r, j)' => AtWork(r, j)
    BY <1>2 DEF AtWork
  <1>4. \A q \in Runs : Expecting(q)' <=> Expecting(q)
    BY DEF Expecting, Owed
  <1>5. ASSUME r \notin Measurable, faults = MaxFaults PROVE Lone(r)'
    <2>1. Lone(r)
      BY <1>5 DEF LoneInv
    <2>2. Unmanned(r) => Unmanned(r)'
      BY <1>2, <1>3 DEF Unmanned
    <2>3. AtWork(r, i) /\ w.proc \notin {"working", "mute"} => Unmanned(r)'
      BY <1>2, <2>1 DEF Unmanned, AtWork, Lone
    <2>4. AtWork(r, i) => ~Expecting(r)
      BY <2>1 DEF Lone, Unmanned
    <2>5. QED
      BY <1>2, <1>3, <1>4, <2>1, <2>2, <2>3, <2>4 DEF Lone
  <1>6. ASSUME NEW q \in Runs \ Measurable, q # r, faults = MaxFaults PROVE Lone(q)'
    <2>1. Lone(q) /\ worker'[q] = worker[q]
      BY <1>2, <1>6 DEF LoneInv
    <2>2. QED
      BY <1>4, <1>6, <2>1 DEF Lone, Unmanned, AtWork
  <1>7. QED
    BY <1>1, <1>5, <1>6 DEF LoneInv, ListInv

LEMMA LoneWorkerStep ==
    ASSUME IInv, TypeOK', LoneInv, NEW r \in Runs, WorkerStep(r)
    PROVE  LoneInv'
  <1>1. PICK i \in DOMAIN worker[r] :
            \/ Beat(r, i) \/ WriteOutput(r, i) \/ Hang(r, i) \/ Exit(r, i)
            \/ \E sentinel \in Sentinels : Report(r, i, sentinel)
    BY DEF WorkerStep
  <1>2. /\ TypeOK /\ cur \in Runs /\ worker \in [Runs -> Seq(Worker)] /\ worker[r][i] \in Worker
        /\ outAge \in [Runs -> Age \cup {NoAge}]
    BY DEF IInv, TypeOK
  <1>3. UNCHANGED <<status, mem, pc, cur, seen, dispatch, faults>>
    BY <1>1 DEF Beat, WriteOutput, Hang, Exit, Report, tickVars, budget
  <1>4. ListInv' /\ \A q \in Runs : Expecting(q)' => Expecting(q)
    BY <1>3 DEF LoneInv, ListInv, Expecting, Owed
  <1>5. CASE Beat(r, i)
    <2>1. files' = [files EXCEPT ![r] = Heard(@, "beat")] /\ UNCHANGED <<outAge, worker>>
      BY <1>5 DEF Beat
    <2>2. /\ files'[r].hb = AppendLine(files[r].hb, "beat") /\ files'[r].lock = files[r].lock
          /\ \A q \in Runs \ {r} : files'[q] = files[q]
      BY <1>2, <2>1, HeardLine DEF Heartbeat
    <2>3. \A q \in Runs : /\ Mild(files'[q], files[q])
                          /\ files[q].hb \in TerminalHb => files'[q].hb \in TerminalHb
      BY <2>2 DEF Mild, AppendLine, TerminalHb
    <2>4. UnmeasuredInv'
      BY <2>1 DEF LoneInv, UnmeasuredInv
    <2>5. pc = "settle" /\ seen.hb \in TerminalHb /\ faults = MaxFaults => files'[cur].hb \in TerminalHb
      BY <1>2, <2>3 DEF LoneInv
    <2>6. QED
      BY <1>3, <1>4, <2>1, <2>3, <2>4, <2>5, LoneFrame
  <1>6. CASE WriteOutput(r, i)
    <2>1. UnmeasuredInv' /\ UNCHANGED <<files, worker>>
      BY <1>2, <1>6 DEF WriteOutput, disk, LoneInv, UnmeasuredInv
    <2>2. QED
      BY <1>3, <1>4, <2>1, LoneFrame DEF Mild, LoneInv
  <1>7. CASE Hang(r, i) \/ Exit(r, i)
    <2>1. UnmeasuredInv' /\ UNCHANGED files
      BY <1>7 DEF Hang, Exit, disk, LoneInv, UnmeasuredInv
    <2>2. PICK proc \in {"mute", "gone"} : SetProc(r, i, proc) /\ (proc = "mute" => AtWork(r, i))
      BY <1>7 DEF Hang, Exit, Alive, AtWork
    <2>. DEFINE w == [worker[r][i] EXCEPT !.proc = proc]
    <2>3. worker' = [worker EXCEPT ![r][i] = w] /\ w.proc = proc
      BY <1>2, <2>2 DEF SetProc, Worker
    <2>. HIDE DEF w
    <2>4. QED
      BY <1>3, <2>1, <2>2, <2>3, LoneStops
  <1>8. ASSUME NEW sentinel \in Sentinels, Report(r, i, sentinel) PROVE LoneInv'
    <2>. DEFINE w == [proc |-> "reported", said |-> sentinel]
    <2>1. /\ worker' = [worker EXCEPT ![r][i] = w] /\ w.proc = "reported" /\ AtWork(r, i)
          /\ files' = [files EXCEPT ![r] = Heard(@, sentinel)] /\ UNCHANGED outAge
      BY <1>8 DEF Report, Alive, AtWork
    <2>. HIDE DEF w
    <2>2. sentinel \in TerminalHb
      BY PlanAssumption
    <2>3. /\ files'[r].hb = AppendLine(files[r].hb, sentinel) /\ files'[r].lock = files[r].lock
          /\ \A q \in Runs \ {r} : files'[q] = files[q]
      BY <1>2, <2>1, <2>2, HeardLine DEF Heartbeat
    <2>4. UnmeasuredInv'
      BY <2>1 DEF LoneInv, UnmeasuredInv
    <2>5. /\ \A q \in Runs : files'[q].lock = files[q].lock
          /\ \A q \in Runs : files[q].hb \in TerminalHb => files'[q].hb \in TerminalHb
          /\ \A q \in Runs : files'[q].hb \in TerminalHb => files[q].hb \in TerminalHb \/ q = r
      BY <2>2, <2>3 DEF AppendLine
    <2>6. QED
      BY <1>3, <2>1, <2>4, <2>5, LoneStops
  <1>9. QED
    BY <1>1, <1>5, <1>6, <1>7, <1>8

LEMMA LoneOutside ==
    ASSUME IInv, TypeOK', LoneInv,
           Pass \/ (\E name \in Requests : WriteControl(name)) \/ UNCHANGED vars
    PROVE  LoneInv'
  <1>1. CASE Pass
    <2>1. /\ status \in Status /\ files \in [Runs -> RunFiles] /\ outAge \in [Runs -> Age \cup {NoAge}]
          /\ \A q \in Runs : status.run[q] \in RunRecord
      BY DEF IInv, TypeOK, Status
    <2>2. /\ status'.run = [q \in Runs |-> AgedRun(status.run[q])] /\ mem' = status' /\ pc = "idle"
          /\ UNCHANGED <<pc, cur, dispatch, worker, faults>> /\ dispatch = {}
          /\ files' = [q \in Runs |->
                          [files[q] EXCEPT !.hbAge = IF files[q].hb = "beat" THEN Older(@) ELSE @]]
      BY <1>1, <2>1 DEF Pass, Status, budget, IInv, AttemptsInv
    <2>3. \A q \in Runs : AgedRun(status.run[q]).state = status.run[q].state
      BY <2>1 DEF AgedRun, RunRecord
    <2>4. \A q \in Runs : Expecting(q)' => Expecting(q)
      BY <2>2, <2>3 DEF Expecting, Owed
    <2>5. \A q \in Runs : files'[q].hb = files[q].hb /\ files'[q].lock = files[q].lock
      BY <2>1, <2>2 DEF RunFiles
    <2>6. \A q \in Runs : Mild(files'[q], files[q])
      BY <2>5 DEF Mild
    <2>7. Older(NoAge) = NoAge
      BY TimeAssumption DEF Older, NoAge
    <2>8. \A q \in Runs : outAge'[q] = IF status.run[q].state \in Terminal THEN outAge[q]
                                                                          ELSE Older(outAge[q])
      BY <1>1 DEF Pass
    <2>9. UnmeasuredInv' /\ ListInv'
      BY <2>2, <2>7, <2>8 DEF LoneInv, UnmeasuredInv, ListInv
    <2>10. QED
      BY <2>2, <2>4, <2>6, <2>9, LoneFrame
  <1>2. CASE (\E name \in Requests : WriteControl(name)) \/ UNCHANGED vars
    <2>1. UNCHANGED <<status, mem, files, outAge, worker, pc, cur, seen, dispatch, faults>>
      BY <1>2 DEF WriteControl, vars, disk, tickVars, budget
    <2>2. /\ ListInv' /\ UnmeasuredInv' /\ \A q \in Runs : Expecting(q)' => Expecting(q)
          /\ \A q \in Runs : Mild(files'[q], files[q])
      BY <2>1 DEF LoneInv, ListInv, UnmeasuredInv, Expecting, Owed, Mild
    <2>3. QED
      BY <2>1, <2>2, LoneFrame DEF LoneInv
  <1>3. QED
    BY <1>1, <1>2

LEMMA LoneKept ==
    ASSUME IInv, LoneInv, [Next]_vars
    PROVE  LoneInv'
  <1>1. TypeOK'
    BY NextType DEF IInv
  <1>2. QED
    BY <1>1, LoneControl, LoneSettle, LoneDispatch, LoneSpawn, LonePersist, LoneWorkerStep, LoneOutside
       DEF Next, TickStep

LEMMA LoneInit == Init => LoneInv
  <1>. SUFFICES ASSUME Init PROVE LoneInv
    OBVIOUS
  <1>1. /\ dispatch = {} /\ pc = "idle" /\ faults = MaxFaults /\ MaxFaults \in Nat
        /\ \A r \in Runs \ Measurable : outAge[r] = NoAge
    BY FaultAssumption DEF Init
  <1>2. \A r \in Runs : files[r].lock = NoLock /\ files[r].hb = "none" /\ worker[r] = <<>>
    BY DEF Init
  <1>3. \A r \in Runs : Lone(r)
    BY <1>2 DEF Lone, Unmanned, NoLock, TerminalHb
  <1>4. QED
    BY <1>1, <1>3 DEF LoneInv, ListInv, UnmeasuredInv

\* Whatever dies and whenever, a job whose silence is never reclaimed has no second
\* worker beside one that is at work, until an OSError is taken for a failed spawn.
THEOREM NothingRunsBesideItself == Spec => []OneWorkerAtATime
  <1>1. Init => LoneInv
    BY LoneInit
  <1>2. IInv /\ LoneInv /\ [Next]_vars => LoneInv'
    BY LoneKept
  <1>3. LoneInv => OneWorkerAtATime
    BY DEF LoneInv, Lone, AtWork, OneWorkerAtATime, LoneWorker
  <1>4. QED
    BY <1>1, <1>2, <1>3, Invariance, PTL DEF Spec

------------------------------------------------------------------------------
(* The refinement: without crashes and OSErrors, and where no silence is reclaimed, *)
(* the persisted status of a job takes the steps of JobLifecycle                    *)

Same(a, b) == b.state = a.state /\ b.attempts = a.attempts

\* What one tick may make of a record.
TakesTurn(r, a, b) ==
    \/ Same(a, b)
    \/ /\ b.attempts = a.attempts
       /\ \/ a.state \in {"claimed", "stalled"} /\ b.state = "running"
          \/ a.state \in {"claimed", "running"} /\ b.state = "stalled"
          \/ a.state = "claimed" /\ b.state = "auth_or_launch_failed"
          \/ a.state \in InFlight /\ b.state \in {"completed", "failed", "abandoned"}
          \/ a.state \in InFlight /\ b.state = "queued" /\ a.attempts < MaxAttempts[r]
          \/ a.state = "queued" /\ b.state \in {"completed", "abandoned"}
    \/ /\ b.attempts = a.attempts + 1 /\ a.attempts < MaxAttempts[r]
       /\ a.state \in {"queued"} \cup InFlight /\ b.state = "claimed"

\* The run is still to be advanced in this tick.
Ahead(r) == pc = "control" \/ (pc \in {"advance", "settle"} /\ r >= cur)

\* A run's record in memory is one turn away from the one on disk, and as it is there
\* as long as the run is ahead, unless it was cancelled; and a queued run has no line.
LifeInv ==
    /\ crashes = 0 /\ faults = 0
    /\ \A r \in Runs :
          /\ TakesTurn(r, status.run[r], mem.run[r])
          /\ Ahead(r) => mem.run[r].state \in Terminal \/ Same(status.run[r], mem.run[r])
          /\ mem.run[r].state = "queued" => files[r].hb = "none"
    /\ pc = "settle" /\ mem.run[cur].state = "queued" => seen.hb = "none"

Calm == MaxCrashes = 0 /\ MaxFaults = 0 /\ Measurable = {}

LEMMA NoAccident ==
    ASSUME Calm, LoneInv, LifeInv
    PROVE  /\ ~Die /\ \A run : ~Abort(run)
           /\ \A r, trail, risky : Complete(r, trail, risky) =>
                  files' = [files EXCEPT ![r] = Final(trail)] /\ UNCHANGED budget
           /\ \A r \in Runs : Lone(r)
  BY CompleteExact DEF Calm, LoneInv, LifeInv, Die, Abort

LEMMA TurnRecords ==
    ASSUME IInv, NEW r \in Runs
    PROVE  /\ status.run[r] \in RunRecord /\ mem.run[r] \in RunRecord
           /\ \A s : Become(r, s).state = s /\ Become(r, s).attempts = mem.run[r].attempts
           /\ Requeued(mem.run[r]).state = "queued" /\ Requeued(mem.run[r]).attempts = mem.run[r].attempts
           /\ Claimed(mem.run[r]).state = "claimed"
           /\ Claimed(mem.run[r]).attempts = mem.run[r].attempts + 1
  <1>1. status.run[r] \in RunRecord /\ mem.run[r] \in RunRecord
    BY DEF IInv, TypeOK, Status
  <1>2. QED
    BY <1>1 DEF Become, Requeued, Claimed, RunRecord

LEMMA LifePerform ==
    ASSUME Calm, IInv, LoneInv, LifeInv, NEW r \in Runs, NEW trail, NEW risky, NEW rec, NEW list,
           Perform(r, trail, risky, rec, list), pc \in {"settle", "dispatch"}, cur = r,
           TakesTurn(r, status.run[r], rec), rec.state = "queued" => Final(trail).hb = "none"
    PROVE  LifeInv'
  <1>1. mem \in Status /\ mem.run \in [Runs -> RunRecord] /\ files \in [Runs -> RunFiles] /\ TypeOK
    BY DEF IInv, TypeOK, Status
  <1>2. /\ files' = [files EXCEPT ![r] = Final(trail)] /\ mem' = [mem EXCEPT !.run[r] = rec]
        /\ MoveOn /\ UNCHANGED <<status, crashes, faults>>
    BY NoAccident DEF Perform, budget
  <1>3. /\ mem'.run[r] = rec /\ \A q \in Runs \ {r} : mem'.run[q] = mem.run[q]
        /\ files'[r] = Final(trail) /\ \A q \in Runs \ {r} : files'[q] = files[q]
    BY <1>1, <1>2 DEF Status
  <1>4. pc' \in {"advance", "dispatch", "persist"}
    BY <1>1, <1>2, MoveOnType
  <1>5. pc' = "advance" => pc = "settle" /\ cur' >= cur + 1 /\ cur' \in Runs
    BY <1>2 DEF MoveOn, GoToAdvance, GoOnDispatching, GoToPersist, GoToDispatch, FirstFrom
  <1>6. ASSUME NEW q \in Runs, Ahead(q)' PROVE q # r /\ Ahead(q)
    BY <1>4, <1>5, <1>6 DEF Ahead, Runs
  <1>7. \A q \in Runs : TakesTurn(q, status.run[q], mem.run[q])
                        /\ (Ahead(q) => mem.run[q].state \in Terminal \/ Same(status.run[q], mem.run[q]))
                        /\ (mem.run[q].state = "queued" => files[q].hb = "none")
    BY DEF LifeInv
  <1>8. \A q \in Runs : TakesTurn(q, status'.run[q], mem'.run[q])
    BY <1>2, <1>3, <1>7
  <1>9. \A q \in Runs : Ahead(q)' => mem'.run[q].state \in Terminal \/ Same(status'.run[q], mem'.run[q])
    BY <1>2, <1>3, <1>6, <1>7
  <1>10. \A q \in Runs : mem'.run[q].state = "queued" => files'[q].hb = "none"
    BY <1>3, <1>7
  <1>11. QED
    BY <1>2, <1>4, <1>8, <1>9, <1>10 DEF LifeInv

LEMMA LifeSettle ==
    ASSUME Calm, IInv, LoneInv, LifeInv, NEW r \in Runs,
           \/ ReapTerminal(r) \/ FailDeadPid(r) \/ FailLaunch(r) \/ ReclaimStalled(r)
           \/ MarkStalled(r) \/ MarkRunning(r) \/ LeaveAlone(r)
    PROVE  LifeInv'
  <1>1. pc = "settle" /\ cur = r /\ r \in Nat
    BY DEF ReapTerminal, FailDeadPid, FailLaunch, ReclaimStalled, MarkStalled, MarkRunning, LeaveAlone, Runs
  <1>2. /\ Same(status.run[r], mem.run[r]) /\ mem.run[r].state \notin Terminal
        /\ mem.run[r].state = "queued" => seen.hb = "none" /\ files[r].hb = "none"
    BY <1>1 DEF LifeInv, Ahead, IInv, StatesInv
  <1>3. /\ files[r] \in RunFiles /\ mem.run[r].state \in {"queued"} \cup InFlight
    BY <1>2, TurnRecords DEF IInv, TypeOK, RunRecord, RunState
  <1>4. CASE mem.run[r].state = "queued"
    <2>1. files[r].lock <= 0
      BY <1>4, NoAccident DEF Lone, Expecting
    <2>2. ~PidDead(r)
      BY <1>3, <2>1 DEF PidDead, RunFiles, NoLock
    <2>3. LeaveAlone(r)
      BY <1>2, <1>4, <2>2 DEF ReapTerminal, Reported, FailDeadPid, FailLaunch, NeverLaunched,
         ReclaimStalled, MarkStalled, MarkRunning, Hung, Quiet, TerminalHb
    <2>4. Final(<<files[r]>>).hb = "none"
      BY <1>2, <1>4 DEF Final
    <2>5. QED
      BY <1>1, <1>2, <2>3, <2>4, LifePerform DEF LeaveAlone, TakesTurn
  <1>5. CASE mem.run[r].state \in InFlight
    <2>1. /\ status.run[r].state \in InFlight /\ status.run[r].state = mem.run[r].state
          /\ status.run[r].attempts = mem.run[r].attempts
      BY <1>2, <1>5 DEF Same
    <2>2. \A s \in {"completed", "failed", "abandoned"} : TakesTurn(r, status.run[r], Become(r, s))
      BY <2>1, TurnRecords DEF TakesTurn
    <2>3. Retryable(r) => TakesTurn(r, status.run[r], Requeued(mem.run[r]))
      BY <2>1, TurnRecords DEF TakesTurn, Retryable
    <2>4. ASSUME NEW trail \in Trails, NEW risky, FailOrRetry(r, trail, risky) PROVE LifeInv'
      <3>. DEFINE whole == trail \o Requeue(Final(trail))
      <3>1. Final(whole).hb = "none"
        <4>1. Final(trail) \in RunFiles
          BY FinalType
        <4>2. Requeue(Final(trail)) \in Trails /\ Final(Requeue(Final(trail))).hb = "none"
          BY <4>1, RequeueMild
        <4>. DEFINE t == Requeue(Final(trail))
        <4>. HIDE DEF t
        <4>3. Final(trail \o t) = Final(t)
          <5>1. t \in Seq(RunFiles) /\ trail \in Seq(RunFiles) /\ Len(t) > 0
            BY <4>2 DEF Trails, t
          <5>2. Len(trail \o t) = Len(trail) + Len(t) /\ (trail \o t)[Len(trail) + Len(t)] = t[Len(t)]
            BY <5>1
          <5>3. QED
            BY <5>2 DEF Final
        <4>4. QED
          BY <4>2, <4>3 DEF t
      <3>. HIDE DEF whole
      <3>2. CASE Retryable(r) /\ Perform(r, whole, IF Len(trail) = 1 THEN 0 ELSE risky,
                                         Requeued(mem.run[r]), dispatch)
        BY <1>1, <2>3, <3>1, <3>2, LifePerform
      <3>3. CASE Perform(r, trail, risky, Become(r, "failed"), dispatch)
        BY <1>1, <2>2, <3>3, TurnRecords, LifePerform
      <3>4. QED
        BY <2>4, <3>2, <3>3 DEF FailOrRetry, whole
    <2>5. \A v \in Verdict : RecordResult(files[r], v) \in Trails
      BY <1>3, RecordResultType
    <2>6. CASE ReapTerminal(r)
      <3>1. seen.hb \in Verdict
        BY <2>6 DEF ReapTerminal, Reported, Verdict
      <3>2. CASE Perform(r, MoveToResults(files[r], seen.hb), 2, Become(r, "completed"), dispatch)
        BY <1>1, <2>2, <3>2, TurnRecords, LifePerform
      <3>3. QED
        BY <2>4, <2>5, <2>6, <3>1, <3>2 DEF ReapTerminal, MoveToResults
    <2>7. CASE FailDeadPid(r)
      BY <2>4, <2>5, <2>7 DEF FailDeadPid, Verdict, TerminalHb
    <2>8. CASE FailLaunch(r)
      <3>1. TakesTurn(r, status.run[r], Become(r, "auth_or_launch_failed"))
        BY <2>1, <2>8, TurnRecords DEF TakesTurn, FailLaunch, NeverLaunched
      <3>2. QED
        BY <1>1, <2>8, <3>1, TurnRecords, LifePerform DEF FailLaunch
    <2>9. CASE ReclaimStalled(r)
      BY <2>9 DEF ReclaimStalled, Hung, OutputStale, LoneInv, UnmeasuredInv, Calm
    <2>10. CASE MarkStalled(r)
      <3>1. TakesTurn(r, status.run[r], Become(r, "stalled"))
        BY <2>1, TurnRecords DEF TakesTurn, Same, InFlight
      <3>2. QED
        BY <1>1, <2>10, <3>1, TurnRecords, LifePerform DEF MarkStalled
    <2>11. CASE MarkRunning(r)
      <3>1. TakesTurn(r, status.run[r], Become(r, "running"))
        BY <2>1, <2>11, TurnRecords DEF TakesTurn, MarkRunning
      <3>2. QED
        BY <1>1, <2>11, <3>1, TurnRecords, LifePerform DEF MarkRunning
    <2>12. CASE LeaveAlone(r)
      <3>1. mem.run[r].state # "queued"
        BY <1>5 DEF InFlight
      <3>2. QED
        BY <1>1, <1>2, <2>12, <3>1, LifePerform DEF LeaveAlone, TakesTurn
    <2>13. QED
      BY <2>6, <2>7, <2>8, <2>9, <2>10, <2>11, <2>12
  <1>6. QED
    BY <1>3, <1>4, <1>5

LEMMA LifeDispatch ==
    ASSUME Calm, IInv, LoneInv, LifeInv, NEW r \in Runs,
           PassOver(r) \/ ProbeUnsatisfied(r) \/ ProbeSatisfied(r) \/ Claim(r)
    PROVE  LifeInv'
  <1>1. pc = "dispatch" /\ cur = r
    BY DEF PassOver, ProbeUnsatisfied, ProbeSatisfied, Claim
  <1>2. /\ mem.run[r].state = "queued" /\ TakesTurn(r, status.run[r], mem.run[r])
        /\ mem.run[r].attempts < MaxAttempts[r]
        /\ mem \in Status /\ mem.run \in [Runs -> RunRecord] /\ mem.run[r] \in RunRecord
    BY <1>1 DEF IInv, StatesInv, AttemptsInv, Afford, TypeOK, Status, LifeInv
  <1>3. /\ status.run[r].state \in {"queued"} \cup InFlight
        /\ status.run[r].attempts = mem.run[r].attempts
    BY <1>2 DEF TakesTurn, Same
  <1>4. CASE PassOver(r)
    <2>1. /\ pc' \in {"dispatch", "persist"}
          /\ UNCHANGED <<status, mem, files, crashes, faults>>
      BY <1>1, <1>4 DEF PassOver, disk, budget, MoveOn, GoOnDispatching, GoToPersist
    <2>2. QED
      BY <2>1 DEF LifeInv, Ahead
  <1>5. CASE ProbeUnsatisfied(r)
    <2>1. UNCHANGED <<status, files, pc, crashes, faults>>
      BY <1>5 DEF ProbeUnsatisfied, disk, budget
    <2>2. mem'.run = [mem.run EXCEPT ![r] = [mem.run[r] EXCEPT !.check = "checked"]]
      BY <1>2, <1>5 DEF ProbeUnsatisfied, Status
    <2>3. \A q \in Runs : mem'.run[q].state = mem.run[q].state /\ mem'.run[q].attempts = mem.run[q].attempts
      BY <1>2, <2>2 DEF RunRecord
    <2>4. \A q \in Runs : TakesTurn(q, status'.run[q], mem'.run[q])
      BY <2>1, <2>3 DEF LifeInv, TakesTurn, Same
    <2>5. QED
      BY <1>1, <2>1, <2>3, <2>4 DEF LifeInv, Ahead
  <1>6. CASE ProbeSatisfied(r)
    <2>. DEFINE rec == [mem.run[r] EXCEPT !.state = "completed", !.check = "skipped"]
    <2>1. rec.state = "completed" /\ rec.attempts = mem.run[r].attempts
      BY <1>2 DEF RunRecord
    <2>. HIDE DEF rec
    <2>2. TakesTurn(r, status.run[r], rec)
      BY <1>3, <2>1 DEF TakesTurn
    <2>3. Perform(r, SkipDone(files[r]), 0, rec, dispatch)
      BY <1>6, NoAccident DEF ProbeSatisfied, rec
    <2>4. QED
      BY <1>1, <2>1, <2>2, <2>3, LifePerform
  <1>7. CASE Claim(r)
    <2>1. TakesTurn(r, status.run[r], Claimed(mem.run[r])) /\ Claimed(mem.run[r]).state # "queued"
      BY <1>2, <1>3, TurnRecords DEF TakesTurn
    <2>2. \E trail, risky : Perform(r, trail, risky, Claimed(mem.run[r]), dispatch \cup {r})
      BY <1>7, NoAccident DEF Claim
    <2>3. QED
      BY <1>1, <2>1, <2>2, LifePerform
  <1>8. QED
    BY <1>4, <1>5, <1>6, <1>7

LEMMA LifeControl ==
    ASSUME Calm, IInv, LoneInv, LifeInv, CancelRun \/ ApplyControls \/ Observe \/ Persist \/ Interrupt
    PROVE  LifeInv'
  <1>1. mem \in Status /\ mem.run \in [Runs -> RunRecord] /\ files \in [Runs -> RunFiles]
    BY DEF IInv, TypeOK, Status
  <1>2. CASE CancelRun
    <2>. DEFINE r == control.cancel
                trail == RecordResult(files[r], "ABANDONED")
    <2>1. r \in Runs /\ mem.run[r].state \notin Terminal /\ pc = "idle" /\ mem = status
      BY <1>2 DEF CancelRun, Cancellable, IInv, TypeOK, Control, Runs, AttemptsInv
    <2>2. mem.run[r].state \in {"queued"} \cup InFlight
      BY <1>1, <2>1 DEF RunRecord, RunState
    <2>. HIDE DEF trail, r
    <2>3. /\ files' = [files EXCEPT ![r] = Final(trail)]
          /\ mem' = [mem EXCEPT !.run[r] = Become(r, "abandoned")]
          /\ pc' = "control" /\ UNCHANGED <<status, crashes, faults>>
      BY <1>2, NoAccident DEF CancelRun, budget, trail, r
    <2>4. mem'.run = [mem.run EXCEPT ![r] = Become(r, "abandoned")]
      BY <1>1, <2>3 DEF Status
    <2>5. Become(r, "abandoned").state = "abandoned" /\ Become(r, "abandoned").attempts = mem.run[r].attempts
      BY <1>1, <2>1 DEF Become, RunRecord
    <2>6. TakesTurn(r, status.run[r], Become(r, "abandoned"))
      BY <2>1, <2>2, <2>5 DEF TakesTurn
    <2>7. /\ mem'.run[r] = Become(r, "abandoned")
          /\ \A q \in Runs \ {r} : mem'.run[q] = status.run[q] /\ files'[q] = files[q]
      BY <1>1, <2>1, <2>3, <2>4
    <2>8. \A q \in Runs : /\ TakesTurn(q, status'.run[q], mem'.run[q])
                          /\ mem'.run[q].state \in Terminal \/ Same(status'.run[q], mem'.run[q])
      BY <2>3, <2>5, <2>6, <2>7 DEF TakesTurn, Same, Terminal
    <2>9. \A q \in Runs : mem'.run[q].state = "queued" => files'[q].hb = "none"
      BY <2>1, <2>5, <2>7 DEF LifeInv
    <2>10. QED
      BY <2>3, <2>8, <2>9 DEF LifeInv
  <1>3. CASE ApplyControls
    <2>1. /\ mem'.run = mem.run /\ pc' \in {"advance", "dispatch", "persist"}
          /\ UNCHANGED <<status, files, crashes, faults>>
      BY <1>1, <1>3 DEF ApplyControls, Status, GoToAdvance, GoToDispatch, GoToPersist, budget
    <2>2. \A q \in Runs : mem.run[q].state \in Terminal \/ Same(status.run[q], mem.run[q])
      BY <1>3 DEF ApplyControls, IInv, AttemptsInv, LifeInv, Ahead, Same
    <2>3. QED
      BY <2>1, <2>2 DEF LifeInv
  <1>4. CASE Observe
    <2>1. /\ pc' = "settle" /\ seen'.hb = files[cur].hb /\ pc = "advance" /\ cur \in Runs
          /\ UNCHANGED <<status, mem, files, cur, crashes, faults>>
      BY <1>4 DEF Observe, disk, budget, IInv, TypeOK
    <2>2. \A q \in Runs : Ahead(q)' => Ahead(q)
      BY <2>1 DEF Ahead
    <2>3. QED
      BY <2>1, <2>2 DEF LifeInv
  <1>5. CASE Persist
    <2>1. /\ status'.run = mem.run /\ mem'.run = mem.run /\ pc' \in {"idle", "spawn"}
          /\ UNCHANGED <<files, crashes, faults>>
      BY <1>1, <1>5 DEF Persist, Status, budget
    <2>2. QED
      BY <2>1 DEF LifeInv, Ahead, TakesTurn, Same
  <1>6. CASE Interrupt
    BY <1>6, NoAccident DEF Interrupt, Crash, CrashAfterSummary
  <1>7. QED
    BY <1>2, <1>3, <1>4, <1>5, <1>6

LEMMA LifeSpawn ==
    ASSUME Calm, IInv, LoneInv, LifeInv,
           \/ \E r \in Runs : LaunchSubagent(r) \/ LoseSubagent(r) \/ SpawnShell(r) \/ SpawnFails(r)
           \/ RecordPid \/ RecordPidFails
    PROVE  LifeInv'
  <1>1. ~RecordPidFails
    BY DEF RecordPidFails, LifeInv
  <1>2. /\ UNCHANGED <<status, mem, crashes, faults>> /\ pc' \in {"idle", "spawn", "record"}
        /\ files \in [Runs -> RunFiles] /\ cur \in Runs
    BY <1>1 DEF LaunchSubagent, LoseSubagent, SpawnShell, SpawnFails, RecordPid, Handled, budget, IInv, TypeOK
  <1>3. \A q \in Runs : mem.run[q].state = "queued" => files'[q].hb = files[q].hb
    <2>1. ASSUME NEW r \in Runs, SpawnFails(r)
          PROVE  \A q \in Runs : mem.run[q].state = "queued" => files'[q].hb = files[q].hb
      <3>1. mem.run[r].state # "queued" /\ \A q \in Runs \ {r} : files'[q] = files[q]
        BY <1>2, <2>1 DEF SpawnFails, NextToSpawn, LoneInv, ListInv
      <3>2. QED
        BY <3>1
    <2>2. CASE RecordPid
      <3>1. mem.run[cur].state # "queued" /\ \A q \in Runs \ {cur} : files'[q] = files[q]
        BY <1>2, <2>2 DEF RecordPid, LoneInv, ListInv
      <3>2. QED
        BY <3>1
    <2>3. ASSUME NEW r \in Runs, LaunchSubagent(r) \/ LoseSubagent(r) \/ SpawnShell(r)
          PROVE  files' = files
      BY <2>3 DEF LaunchSubagent, LoseSubagent, SpawnShell, disk
    <2>4. QED
      BY <1>1, <2>1, <2>2, <2>3
  <1>4. QED
    BY <1>2, <1>3 DEF LifeInv, Ahead

LEMMA LifeOutside ==
    ASSUME Calm, IInv, LoneInv, LifeInv,
           \/ \E r \in Runs : WorkerStep(r)
           \/ Pass \/ (\E name \in Requests : WriteControl(name)) \/ UNCHANGED vars
    PROVE  LifeInv'
  <1>1. ASSUME NEW r \in Runs, WorkerStep(r) PROVE LifeInv'
    <2>1. PICK i \in DOMAIN worker[r] :
              \/ Beat(r, i) \/ WriteOutput(r, i) \/ Hang(r, i) \/ Exit(r, i)
              \/ \E sentinel \in Sentinels : Report(r, i, sentinel)
      BY <1>1 DEF WorkerStep
    <2>2. UNCHANGED <<status, mem, pc, cur, seen, crashes, faults>>
      BY <2>1 DEF Beat, WriteOutput, Hang, Exit, Report, tickVars, budget
    <2>3. files \in [Runs -> RunFiles]
      BY DEF IInv, TypeOK
    <2>4. \A q \in Runs : mem.run[q].state = "queued" => files'[q] = files[q]
      <3>1. CASE files' = files
        BY <3>1
      <3>2. CASE Alive(r, i) /\ \E line : files' = [files EXCEPT ![r] = Heard(@, line)]
        <4>1. mem.run[r].state # "queued"
          BY <3>2, NoAccident DEF Alive, Lone, Expecting, Unmanned, AtWork
        <4>2. PICK line : files' = [files EXCEPT ![r] = Heard(@, line)]
          BY <3>2
        <4>3. \A q \in Runs \ {r} : files'[q] = files[q]
          BY <2>3, <4>2
        <4>4. QED
          BY <4>1, <4>3
      <3>3. QED
        BY <2>1, <3>1, <3>2 DEF Beat, WriteOutput, Hang, Exit, Report, disk
    <2>5. QED
      BY <2>2, <2>4 DEF LifeInv, Ahead
  <1>2. CASE Pass
    <2>1. /\ status \in Status /\ files \in [Runs -> RunFiles]
          /\ \A q \in Runs : status.run[q] \in RunRecord
      BY DEF IInv, TypeOK, Status
    <2>2. /\ status'.run = [q \in Runs |-> AgedRun(status.run[q])] /\ mem' = status' /\ pc = "idle"
          /\ UNCHANGED <<pc, crashes, faults>> /\ mem = status
      BY <1>2, <2>1 DEF Pass, Status, budget, IInv, AttemptsInv
    <2>3. \A q \in Runs : status'.run[q].state = status.run[q].state
      <3>1. \A q \in Runs : AgedRun(status.run[q]).state = status.run[q].state
        BY <2>1 DEF AgedRun, RunRecord
      <3>2. QED
        BY <2>2, <3>1
    <2>4. \A q \in Runs : files'[q].hb = files[q].hb
      <3>1. files' = [q \in Runs |->
                         [files[q] EXCEPT !.hbAge = IF files[q].hb = "beat" THEN Older(@) ELSE @]]
        BY <1>2 DEF Pass
      <3>2. QED
        BY <2>1, <3>1 DEF RunFiles
    <2>5. QED
      BY <2>2, <2>3, <2>4 DEF LifeInv, Ahead, TakesTurn, Same
  <1>3. CASE (\E name \in Requests : WriteControl(name)) \/ UNCHANGED vars
    <2>1. UNCHANGED <<status, mem, files, pc, cur, seen, crashes, faults>>
      BY <1>3 DEF WriteControl, vars, disk, tickVars, budget
    <2>2. QED
      BY <2>1 DEF LifeInv, Ahead
  <1>4. QED
    BY <1>1, <1>2, <1>3

LEMMA LifeKept ==
    ASSUME Calm, IInv, LoneInv, LifeInv, [Next]_vars
    PROVE  LifeInv'
  BY LifeControl, LifeSettle, LifeDispatch, LifeSpawn, LifeOutside DEF Next, TickStep

LEMMA LifeInit ==
    ASSUME Calm, Init
    PROVE  LifeInv
  BY DEF Calm, Init, LifeInv, Ahead, TakesTurn, Same

\* One turn of a record, once it is persisted, is a step of the lifecycle.
LEMMA TurnIsStep ==
    ASSUME NEW r \in Runs, TakesTurn(r, status.run[r], status'.run[r])
    PROVE  Job(r)!Next \/ UNCHANGED Job(r)!job
  BY DEF TakesTurn, Same, Job!Next, Job!job, Job!Claim, Job!Hear, Job!FallSilent, Job!NeverLaunch,
         Job!Finish, Job!Retry, Job!Withdraw, Job!Become, Job!Spend, InFlight, Job!InFlight

LEMMA StepIsTurn ==
    ASSUME IInv, LifeInv, [Next]_vars, NEW r \in Runs
    PROVE  Job(r)!Next \/ UNCHANGED Job(r)!job
  <1>1. CASE Persist
    <2>1. status'.run = mem.run
      BY <1>1 DEF Persist, IInv, TypeOK, Status
    <2>2. QED
      BY <2>1, TurnIsStep DEF LifeInv
  <1>2. CASE Pass
    <2>1. status'.run[r] = AgedRun(status.run[r]) /\ status.run[r] \in RunRecord
      BY <1>2 DEF Pass, IInv, TypeOK, Status
    <2>2. Same(status.run[r], status'.run[r])
      BY <2>1 DEF AgedRun, RunRecord, Same
    <2>3. QED
      BY <2>2, TurnIsStep DEF TakesTurn
  <1>3. CASE ~Persist /\ ~Pass
    BY <1>3, FlagsFrame, TurnIsStep DEF TakesTurn, Same
  <1>4. QED
    BY <1>1, <1>2, <1>3

\* Where nothing crashes, no OSError falls and no silence is reclaimed, the engine
\* implements the lifecycle: the persisted status of every job starts as it does, and
\* each of its changes is one of its steps.
THEOREM EngineImplementsLifecycle ==
    ASSUME Calm
    PROVE  Spec => JobsFollowLifecycle
  <1>1. Init => LoneInv /\ LifeInv
    BY LoneInit, LifeInit
  <1>2. IInv /\ LoneInv /\ LifeInv /\ [Next]_vars => LoneInv' /\ LifeInv'
    BY LoneKept, LifeKept
  <1>3. IInv /\ LifeInv /\ [Next]_vars => [\A r \in Runs : Job(r)!Next \/ UNCHANGED Job(r)!job]_vars
    BY StepIsTurn
  <1>4. Init => \A r \in Runs : Job(r)!Init
    BY DEF Init, Job!Init
  <1>5. QED
    BY <1>1, <1>2, <1>3, <1>4, Invariance, PTL DEF Spec, JobsFollowLifecycle
------------------------------------------------------------------------------
(* Where the job files are, and how many runs hold a slot of the pool, under the *)
(* same assumptions: the footprint of a step says what it does to both          *)

\* The place of the job file and of the claim lock of a run in state s.
Filed(s, f) ==
    /\ s = "queued" => f.queue /\ ~f.claimed /\ f.lock = NoLock
    /\ s \in InFlight => ~f.queue /\ f.claimed /\ f.lock # NoLock
    /\ s \in Terminal => ~f.claimed /\ f.lock = NoLock

\* The files follow the copy of the status the tick works on, at each of its steps, and
\* what is still to be spawned is claimed.
FiledInv ==
    /\ \A r \in Runs : Filed(mem.run[r].state, files[r])
    /\ \A r \in dispatch : mem.run[r].state = "claimed"

\* Only a claim adds to the runs in flight: a queued run has no heartbeat to follow.
LEMMA StartsFromQueue ==
    ASSUME IInv, LifeInv, NEW r \in Runs, Turns(r)
    PROVE  mem.run[r].state \in InFlight
  BY DEF Turns, LifeInv, IInv, TypeOK, Status, RunRecord, RunState, Acted

LEMMA FiledKept ==
    ASSUME IInv, LoneInv, LifeInv, ToldInv, FiledInv, [Next]_vars
    PROVE  FiledInv'
  <1>1. PICK r \in Runs :
            /\ \A q \in Runs \ {r} : Rests(q)
            /\ Rests(r) \/ Ends(r) \/ Returns(r) \/ Turns(r) \/ Starts(r) \/ PidTold(r)
            /\ dispatch' \subseteq dispatch \/ (Starts(r) /\ dispatch' \subseteq dispatch \cup {r})
    BY EveryFootprint DEF Footprint
  <1>2. \A q \in Runs : Rests(q) => Filed(mem'.run[q].state, files'[q])
    BY DEF FiledInv, Filed, Rests, SameBooks
  <1>3. /\ pc \in {"idle", "settle"} => dispatch = {}
        /\ pc = "record" => cur \in dispatch
        /\ dispatch \subseteq Runs /\ files[r] \in RunFiles
    BY DEF IInv, TypeOK, AttemptsInv, LoneInv, ListInv
  <1>4. Filed(mem'.run[r].state, files'[r])
    <2>1. CASE Rests(r)
      BY <1>2, <2>1
    <2>2. CASE Ends(r)
      BY <2>2 DEF Ends, Filed, Terminal, InFlight
    <2>3. CASE Returns(r)
      BY <2>3 DEF Returns, Filed, Terminal, InFlight
    <2>4. CASE Turns(r)
      <3>1. mem.run[r].state \in InFlight
        BY <2>4, StartsFromQueue
      <3>2. QED
        BY <2>4, <3>1 DEF Turns, SameBooks, FiledInv, Filed, Terminal, InFlight
    <2>5. CASE Starts(r)
      BY <2>5 DEF Starts, FiledInv, Filed, Terminal, InFlight
    <2>6. CASE PidTold(r)
      <3>1. mem.run[r].state = "claimed"
        BY <1>3, <2>6 DEF PidTold, FiledInv
      <3>2. /\ mem'.run[r].state = "claimed" /\ files'[r].lock # NoLock
            /\ files'[r].queue = files[r].queue /\ files'[r].claimed = files[r].claimed
        BY <1>3, <2>6, <3>1 DEF PidTold, SameBooks, RunFiles
      <3>3. QED
        BY <3>1, <3>2 DEF FiledInv, Filed, Terminal, InFlight
    <2>7. QED
      BY <1>1, <2>1, <2>2, <2>3, <2>4, <2>5, <2>6
  <1>5. ASSUME NEW q \in dispatch' PROVE mem'.run[q].state = "claimed"
    <2>1. CASE q # r
      <3>1. q \in dispatch /\ Rests(q)
        BY <1>1, <1>3, <1>5, <2>1
      <3>2. QED
        BY <3>1 DEF FiledInv, Rests
    <2>2. CASE q = r /\ Starts(r)
      BY <2>2 DEF Starts
    <2>3. CASE q = r /\ ~Starts(r)
      <3>1. q \in dispatch /\ mem.run[q].state = "claimed"
        BY <1>1, <1>5, <2>3 DEF FiledInv
      <3>2. ~Acted(r)
        BY <1>3, <2>3, <3>1 DEF Acted
      <3>3. Rests(r) \/ PidTold(r)
        BY <1>1, <2>3, <3>2 DEF Ends, Returns, Turns
      <3>4. QED
        BY <2>3, <3>1, <3>3 DEF Rests, PidTold
    <2>4. QED
      BY <2>1, <2>2, <2>3
  <1>6. QED
    BY <1>1, <1>2, <1>4, <1>5 DEF FiledInv

LEMMA CalmInvariance ==
    ASSUME Calm
    PROVE  Spec => [](IInv /\ LoneInv /\ LifeInv /\ ToldInv /\ FiledInv)
  <1>1. ASSUME Init PROVE LoneInv /\ LifeInv /\ ToldInv /\ FiledInv
    <2>1. LoneInv /\ LifeInv /\ ToldInv
      BY <1>1, LoneInit, LifeInit, ToldInit DEF Calm
    <2>2. FiledInv
      BY <1>1 DEF Init, FiledInv, Filed, Terminal, InFlight
    <2>3. QED
      BY <2>1, <2>2
  <1>2. IInv /\ LoneInv /\ LifeInv /\ ToldInv /\ FiledInv /\ [Next]_vars
            => LoneInv' /\ LifeInv' /\ ToldInv' /\ FiledInv'
    BY LoneKept, LifeKept, ToldKept, FiledKept
  <1>3. QED
    BY <1>1, <1>2, Invariance, PTL DEF Spec

\* Where nothing crashes, no OSError falls and no silence is reclaimed, the job file and
\* the claim lock of every run are where its state says they are, between any two ticks.
THEOREM TokensFollowTheState ==
    ASSUME Calm
    PROVE  Spec => []TokenMatchesState
  <1>1. IInv /\ FiledInv => TokenMatchesState
    <2>. SUFFICES ASSUME IInv, FiledInv, pc = "idle"
                  PROVE  \A r \in Runs : Filed(status.run[r].state, files[r])
      BY DEF TokenMatchesState, Filed
    <2>1. mem = status
      BY DEF IInv, AttemptsInv
    <2>2. QED
      BY <2>1 DEF FiledInv
  <1>2. QED
    BY <1>1, CalmInvariance, PTL

\* The runs that hold a slot.
Busy(run) == {r \in Runs : run[r].state \in InFlight}

\* What a tick has added to the runs in flight fits in the pool it works with; and it
\* has added nothing when POOL may still change that.
PoolInv ==
    /\ Occupied(mem.run) > Occupied(status.run) => Occupied(mem.run) <= mem.pool
    /\ pc \in {"idle", "control"} => Occupied(mem.run) <= Occupied(status.run)

LEMMA OccupiedBounds ==
    ASSUME NEW a, NEW b
    PROVE  /\ Occupied(a) \in Nat /\ Occupied(b) \in Nat
           /\ Busy(b) \subseteq Busy(a) => Occupied(b) <= Occupied(a)
           /\ \A r : Busy(b) \subseteq Busy(a) \cup {r} => Occupied(b) <= Occupied(a) + 1
  <1>1. IsFiniteSet(Runs)
    BY PlanAssumption, FS_Interval DEF Runs
  <1>2. IsFiniteSet(Busy(a)) /\ IsFiniteSet(Busy(b))
    BY <1>1, FS_Subset DEF Busy
  <1>3. Occupied(a) = Cardinality(Busy(a)) /\ Occupied(b) = Cardinality(Busy(b))
    BY DEF Occupied, Busy
  <1>4. Occupied(a) \in Nat /\ Occupied(b) \in Nat
    BY <1>2, <1>3, FS_CardinalityType
  <1>5. Busy(b) \subseteq Busy(a) => Occupied(b) <= Occupied(a)
    BY <1>2, <1>3, FS_Subset
  <1>6. ASSUME NEW r, Busy(b) \subseteq Busy(a) \cup {r} PROVE Occupied(b) <= Occupied(a) + 1
    <2>1. /\ IsFiniteSet(Busy(a) \cup {r})
          /\ Cardinality(Busy(a) \cup {r}) = IF r \in Busy(a) THEN Cardinality(Busy(a))
                                                              ELSE Cardinality(Busy(a)) + 1
      BY <1>2, FS_AddElement
    <2>2. Occupied(b) <= Cardinality(Busy(a) \cup {r})
      BY <1>3, <1>6, <2>1, FS_Subset
    <2>3. QED
      BY <1>3, <1>4, <2>1, <2>2
  <1>7. QED
    BY <1>4, <1>5, <1>6

\* Only the controls change the pool, and they come first.
LEMMA PoolFrame ==
    ASSUME IInv, ToldInv, [Next]_vars, ~ApplyControls
    PROVE  /\ mem'.pool = mem.pool
           /\ pc' = "control" => pc \in {"idle", "control"}
  <1>1. mem \in Status /\ status \in Status /\ TypeOK /\ (pc = "idle" => mem = status)
    BY DEF IInv, TypeOK, AttemptsInv
  <1>2. ASSUME NEW r, NEW trail, NEW risky, NEW rec, NEW list, Perform(r, trail, risky, rec, list)
        PROVE  mem'.pool = mem.pool /\ pc' # "control"
    <2>1. mem' = [mem EXCEPT !.run[r] = rec] /\ MoveOn
      BY <1>2, Spared DEF Perform
    <2>2. QED
      BY <1>1, <2>1, MoveOnType DEF Status
  <1>3. CASE CancelRun \/ Observe \/ Persist
    BY <1>1, <1>3, Spared DEF CancelRun, Observe, Persist, Status
  <1>4. ASSUME NEW r \in Runs,
               \/ ReapTerminal(r) \/ FailDeadPid(r) \/ FailLaunch(r) \/ ReclaimStalled(r)
               \/ MarkStalled(r) \/ MarkRunning(r) \/ LeaveAlone(r)
        PROVE  mem'.pool = mem.pool /\ pc' # "control"
    BY <1>2, <1>4 DEF ReapTerminal, FailDeadPid, FailLaunch, ReclaimStalled, MarkStalled,
                      MarkRunning, LeaveAlone, FailOrRetry
  <1>5. ASSUME NEW r \in Runs, PassOver(r) \/ ProbeUnsatisfied(r) \/ ProbeSatisfied(r) \/ Claim(r)
        PROVE  mem'.pool = mem.pool /\ (pc' = "control" => pc = "control")
    <2>1. CASE PassOver(r)
      BY <1>1, <2>1, MoveOnType DEF PassOver
    <2>2. CASE ProbeUnsatisfied(r)
      BY <1>1, <2>2 DEF ProbeUnsatisfied, Status
    <2>3. CASE ProbeSatisfied(r) \/ Claim(r)
      BY <1>2, <2>3, Spared DEF ProbeSatisfied, Claim
    <2>4. QED
      BY <1>5, <2>1, <2>2, <2>3
  <1>6. CASE \/ \E r \in Runs : LaunchSubagent(r) \/ LoseSubagent(r) \/ SpawnShell(r) \/ SpawnFails(r)
             \/ RecordPid \/ RecordPidFails
    BY <1>6 DEF LaunchSubagent, LoseSubagent, SpawnShell, SpawnFails, RecordPid, RecordPidFails, Handled
  <1>7. CASE Interrupt
    BY <1>7, Spared DEF Interrupt, Crash, CrashAfterSummary
  <1>8. CASE (\E r \in Runs : WorkerStep(r)) \/ (\E name \in Requests : WriteControl(name)) \/ UNCHANGED vars
    BY <1>8 DEF WorkerStep, Beat, WriteOutput, Hang, Exit, Report, WriteControl, vars, tickVars
  <1>9. CASE Pass
    BY <1>1, <1>9 DEF Pass, Status
  <1>10. QED
    BY <1>3, <1>4, <1>5, <1>6, <1>7, <1>8, <1>9 DEF Next, TickStep

\* Either nothing joins the runs in flight, or one run does, into a free slot.
LEMMA BusyFootprint ==
    ASSUME IInv, LifeInv, ToldInv, [Next]_vars
    PROVE  \/ Busy(mem'.run) \subseteq Busy(mem.run)
           \/ pc = "dispatch" /\ SlotFree /\ \E r : Busy(mem'.run) \subseteq Busy(mem.run) \cup {r}
  <1>1. PICK r \in Runs :
            /\ \A q \in Runs \ {r} : Rests(q)
            /\ Rests(r) \/ Ends(r) \/ Returns(r) \/ Turns(r) \/ Starts(r) \/ PidTold(r)
    BY EveryFootprint DEF Footprint
  <1>2. \A q \in Runs \ {r} : mem'.run[q].state = mem.run[q].state
    BY <1>1 DEF Rests
  <1>3. mem'.run[r].state \in InFlight => mem.run[r].state \in InFlight \/ Starts(r)
    BY <1>1, StartsFromQueue DEF Rests, Ends, Returns, PidTold, InFlight, Terminal
  <1>4. QED
    BY <1>2, <1>3 DEF Busy, Starts

LEMMA PoolKept ==
    ASSUME IInv, IInv', LifeInv, ToldInv, PoolInv, [Next]_vars
    PROVE  PoolInv' /\ (Occupied(status'.run) > Occupied(status.run)
                            => Occupied(status'.run) <= status'.pool)
  <1>1. /\ mem \in Status /\ status \in Status /\ mem.pool \in Nat
        /\ \A q \in Runs : status.run[q] \in RunRecord
        /\ pc = "idle" => mem = status
        /\ pc' = "idle" => mem' = status'
    BY DEF IInv, TypeOK, Status, AttemptsInv
  <1>2. \A run : Occupied(run) \in Nat
    BY OccupiedBounds
  <1>3. CASE Persist
    <2>1. status'.run = mem.run /\ mem' = status' /\ status'.pool = mem.pool
      BY <1>1, <1>3 DEF Persist, Status
    <2>2. QED
      BY <1>2, <2>1 DEF PoolInv
  <1>4. CASE Pass
    <2>1. status'.run = [q \in Runs |-> AgedRun(status.run[q])] /\ mem' = status'
      BY <1>1, <1>4 DEF Pass, Status
    <2>2. \A q \in Runs : AgedRun(status.run[q]).state = status.run[q].state
      BY <1>1 DEF AgedRun, RunRecord
    <2>3. Busy(status'.run) = Busy(status.run)
      BY <2>1, <2>2 DEF Busy
    <2>4. Occupied(status'.run) = Occupied(status.run)
      BY <2>3 DEF Occupied, Busy
    <2>5. QED
      BY <1>2, <2>1, <2>4 DEF PoolInv
  <1>5. CASE ApplyControls
    <2>1. mem'.run = mem.run /\ status' = status /\ pc' \notin {"idle", "control"} /\ pc \in {"idle", "control"}
      BY <1>1, <1>5 DEF ApplyControls, Status, GoToAdvance, GoToDispatch, GoToPersist
    <2>2. QED
      BY <1>2, <2>1 DEF PoolInv
  <1>6. CASE ~Persist /\ ~Pass /\ ~ApplyControls
    <2>1. status' = status /\ mem'.pool = mem.pool /\ (pc' = "control" => pc \in {"idle", "control"})
      BY <1>6, FlagsFrame, PoolFrame
    <2>2. CASE Busy(mem'.run) \subseteq Busy(mem.run)
      <3>1. Occupied(mem'.run) <= Occupied(mem.run)
        BY <2>2, OccupiedBounds
      <3>2. QED
        BY <1>1, <1>2, <2>1, <3>1 DEF PoolInv
    <2>3. CASE /\ pc = "dispatch" /\ SlotFree
               /\ \E r : Busy(mem'.run) \subseteq Busy(mem.run) \cup {r}
      <3>1. Occupied(mem'.run) <= Occupied(mem.run) + 1 /\ Occupied(mem.run) < mem.pool
        BY <2>3, OccupiedBounds DEF SlotFree
      <3>2. Occupied(mem'.run) <= mem'.pool /\ pc' # "control"
        BY <1>1, <1>2, <2>1, <2>3, <3>1
      <3>3. pc' = "idle" => Occupied(mem'.run) <= Occupied(status'.run)
        BY <1>1, <1>2
      <3>4. QED
        BY <1>2, <2>1, <3>2, <3>3 DEF PoolInv
    <2>4. QED
      BY <2>2, <2>3, BusyFootprint
  <1>7. QED
    BY <1>3, <1>4, <1>5, <1>6

\* Where nothing crashes, no OSError falls and no silence is reclaimed, a tick that adds
\* to the runs in flight ends within the pool, whatever POOL was set to before it.
THEOREM PoolIsRespected ==
    ASSUME Calm
    PROVE  Spec => PoolRespected
  <1>1. Init => PoolInv
    <2>. SUFFICES ASSUME Init PROVE PoolInv
      OBVIOUS
    <2>1. mem = status /\ Occupied(mem.run) \in Nat
      BY OccupiedBounds DEF Init
    <2>2. QED
      BY <2>1 DEF PoolInv
  <1>2. IInv /\ IInv' /\ LifeInv /\ ToldInv /\ PoolInv /\ [Next]_vars =>
            /\ PoolInv'
            /\ [Occupied(status'.run) > Occupied(status.run)
                    => Occupied(status'.run) <= status'.pool]_vars
    BY PoolKept
  <1>3. QED
    BY <1>1, <1>2, CalmInvariance, PTL DEF Spec, PoolRespected
===============================================================================
