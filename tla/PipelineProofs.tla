---------------------------- MODULE PipelineProofs ----------------------------
(***************************************************************************)
(* Theorems about Pipeline, for every number of jobs, steps, gates and     *)
(* pool slots: the types, and the five safety invariants that the runs     *)
(* check.  What advancing one run may do is taken from PipelineTurns.      *)
(***************************************************************************)
EXTENDS PipelineTurns
------------------------------------------------------------------------------
(* Types *)

\* The workers of a run.
Workers == [Phases -> [proc: {"none", "working", "over"}, launches: Nat]]

LEMMA InitType == Init => TypeOK
  <1>. SUFFICES ASSUME Init PROVE TypeOK
    OBVIOUS
  <1>1. /\ NumRuns \in Nat \ {0} /\ MaxCrashes \in Nat /\ 1 \in Runs
        /\ 1 \in 1..Steps /\ 0 \in 0..AgeCap /\ Steps \in Nat \ {0}
        /\ \A r \in Runs : Length[r] \in 1..Steps
    BY PipelineAssumption, AgeAssumption DEF Runs
  <1>2. \A r \in Runs : runs[r] \in RunRecord /\ runs[r].step = 1 /\ ~runs[r].judging
    BY <1>1 DEF Init, RunRecord, RunState
  <1>3. runs \in [Runs -> RunRecord] /\ mem = runs
    BY <1>2 DEF Init
  <1>4. files \in [Runs -> RunFiles]
    <2>1. NoOutcome \in NoOutcome..Steps + 1
      BY <1>1 DEF NoOutcome
    <2>2. QED
      BY <2>1 DEF Init, RunFiles, Heartbeat, StepResult
  <1>5. age \in [Runs -> 0..AgeCap] /\ verdict \in [Runs -> [1..Steps -> Stop..Steps + 1]]
    <2>1. Stop \in Stop..Steps + 1
      BY <1>1 DEF Stop
    <2>2. QED
      BY <1>1, <2>1 DEF Init
  <1>6. worker \in [Runs -> Workers]
    BY DEF Init, Workers
  <1>7. /\ pc = "idle" /\ cur \in Runs /\ inflight \in Nat /\ dispatch \subseteq Runs
        /\ crashes \in Nat
    BY <1>1 DEF Init
  <1>8. \A r \in Runs : \A rec \in {runs[r], mem[r]} :
           rec.step <= Length[r] /\ (rec.judging => rec.step \in Judged)
    BY <1>1, <1>2, <1>3
  <1>9. QED
    BY <1>3, <1>4, <1>5, <1>6, <1>7, <1>8 DEF TypeOK, Workers

LEMMA MoveOnType ==
    ASSUME TypeOK, MoveOn
    PROVE  cur' \in Runs /\ (pc' = pc \/ pc' \in {"dispatch", "persist"})
           /\ (pc' = "dispatch" => pc \in {"advance", "dispatch"})
  BY PipelineAssumption DEF TypeOK, MoveOn, Runs

LEMMA FiniteRuns ==
    ASSUME NEW S \in SUBSET Runs
    PROVE  IsFiniteSet(S) /\ Cardinality(S) \in Nat
  <1>1. IsFiniteSet(Runs)
    BY PipelineAssumption, FS_Interval DEF Runs
  <1>2. QED
    BY <1>1, FS_Subset, FS_CardinalityType

LEMMA DieType ==
    ASSUME TypeOK, Die
    PROVE  /\ mem' = runs /\ pc' = "idle" /\ cur' \in Runs /\ inflight' \in Nat
           /\ dispatch' = {} /\ crashes' \in Nat /\ crashes' = crashes - 1
  BY PipelineAssumption DEF Die, TypeOK, Runs

\* A line in a heartbeat file changes that heartbeat and nothing else.
LEMMA LineType ==
    ASSUME TypeOK, NEW r \in Runs, NEW p \in Phases, NEW line \in {"beat"} \cup TerminalHb,
           Line(r, p, line)
    PROVE  /\ files' \in [Runs -> RunFiles] /\ age' \in [Runs -> 0..AgeCap]
           /\ \A q \in Runs \ {r} : files'[q] = files[q]
           /\ files'[r].hb = [files[r].hb EXCEPT ![p] = AppendLine(files[r].hb[p], line)]
           /\ files'[r].result = files[r].result /\ files'[r].gate = files[r].gate
           /\ files'[r].entry = files[r].entry
           /\ Grows(files[r], files'[r])
  <1>1. files[r] \in RunFiles /\ files \in [Runs -> RunFiles] /\ age \in [Runs -> 0..AgeCap]
    BY DEF TypeOK
  <1>2. files[r].hb \in [Phases -> Heartbeat]
    BY <1>1, FilesType
  <1>. DEFINE hb == [files[r].hb EXCEPT ![p] = AppendLine(files[r].hb[p], line)]
  <1>3. /\ hb \in [Phases -> Heartbeat]
        /\ \A x \in Phases : files[r].hb[x] \in TerminalHb => hb[x] = files[r].hb[x]
    BY <1>2 DEF AppendLine, Heartbeat
  <1>4. files' = [files EXCEPT ![r] = [files[r] EXCEPT !.hb = hb]] /\ age' = [age EXCEPT ![r] = 0]
    BY <1>1 DEF Line
  <1>. HIDE DEF hb
  <1>5. /\ files'[r] \in RunFiles /\ files'[r].hb = hb
        /\ files'[r].result = files[r].result /\ files'[r].gate = files[r].gate
        /\ files'[r].entry = files[r].entry
    BY <1>1, <1>3, <1>4 DEF RunFiles
  <1>6. Grows(files[r], files'[r])
    BY <1>3, <1>5 DEF Grows
  <1>7. 0 \in 0..AgeCap
    BY AgeAssumption
  <1>8. QED
    BY <1>1, <1>4, <1>5, <1>6, <1>7 DEF hb

LEMMA TurnedType ==
    ASSUME TypeOK, NEW r \in Runs, pc = "advance", Turned(r)
    PROVE  TypeOK'
  <1>1. PICK g \in Writes(r, verdict[r], files[r]) :
           /\ files' = [files EXCEPT ![r] = g]
           /\ \/ Die
              \/ \E rec \in RunRecord :
                    /\ Turn(r, g, rec) /\ mem' = [mem EXCEPT ![r] = rec]
                    /\ MoveOn /\ CountPool /\ UNCHANGED <<dispatch, crashes>>
           /\ UNCHANGED <<runs, age, verdict, worker>>
    BY DEF Turned
  <1>2. files' \in [Runs -> RunFiles]
    BY <1>1 DEF TypeOK, Writes
  <1>3. /\ runs' \in [Runs -> RunRecord] /\ age' \in [Runs -> 0..AgeCap]
        /\ verdict' \in [Runs -> [1..Steps -> Stop..Steps + 1]]
        /\ worker' \in [Runs -> Workers]
    BY <1>1 DEF TypeOK, Workers
  <1>4. CASE Die
    BY <1>1, <1>2, <1>3, <1>4, DieType DEF TypeOK, Workers
  <1>5. ASSUME NEW rec \in RunRecord, Turn(r, g, rec), mem' = [mem EXCEPT ![r] = rec],
               MoveOn, CountPool, UNCHANGED <<dispatch, crashes>>
        PROVE  TypeOK'
    <2>1. mem' \in [Runs -> RunRecord]
      BY <1>5 DEF TypeOK
    <2>2. rec.step <= Length[r] /\ (rec.judging => rec.step \in Judged)
      BY <1>5, RunTypes, StepPhase DEF Turn
    <2>3. \A q \in Runs : \A x \in {runs'[q], mem'[q]} :
             x.step <= Length[q] /\ (x.judging => x.step \in Judged)
      BY <1>1, <1>5, <2>2 DEF TypeOK
    <2>4. inflight' \in Nat
      <3>1. {q \in Runs : HoldsSlot(mem'[q])} \in SUBSET Runs
        OBVIOUS
      <3>2. Cardinality({q \in Runs : HoldsSlot(mem'[q])}) \in Nat
        BY <3>1, FiniteRuns
      <3>3. QED
        BY <1>5, <3>2 DEF CountPool, TypeOK
    <2>5. pc' \in {"idle", "advance", "dispatch", "persist", "spawn"} /\ cur' \in Runs
      BY <1>5, MoveOnType DEF TypeOK
    <2>6. QED
      BY <1>2, <1>3, <1>5, <2>1, <2>3, <2>4, <2>5 DEF TypeOK, Workers
  <1>6. QED
    BY <1>1, <1>4, <1>5

LEMMA WatchedType ==
    ASSUME NEW rec \in RunRecord, rec.judging => rec.step \in Judged
    PROVE  /\ Watched(rec) \in Phases
           /\ Watched(rec) = IF rec.judging THEN <<rec.step, "judge">> ELSE <<rec.step, "step">>
  BY StepPhase DEF Watched, RunRecord

LEMMA ClaimType ==
    ASSUME TypeOK, NEW r \in Runs, Claim(r)
    PROVE  /\ TypeOK'
           /\ mem' = [mem EXCEPT ![r] = mem'[r]] /\ mem'[r].state = "claimed"
           /\ mem'[r].step = mem[r].step /\ mem'[r].judging = mem[r].judging /\ mem'[r].started
  <1>. DEFINE rec == [Become(r, "claimed") EXCEPT !.started = TRUE]
  <1>1. /\ Become(r, "claimed") \in RunRecord /\ Become(r, "claimed").state = "claimed"
        /\ Become(r, "claimed").step = mem[r].step
        /\ Become(r, "claimed").judging = mem[r].judging
    BY BecomeType DEF RunState, InFlight
  <1>2. /\ rec \in RunRecord /\ rec.state = "claimed" /\ rec.step = mem[r].step
        /\ rec.judging = mem[r].judging /\ rec.started
    BY <1>1 DEF RunRecord
  <1>3. mem' = [mem EXCEPT ![r] = rec] /\ mem \in [Runs -> RunRecord]
    BY DEF Claim, TypeOK
  <1>. HIDE DEF rec
  <1>4. mem' \in [Runs -> RunRecord] /\ mem'[r] = rec
    BY <1>2, <1>3
  <1>5. \A q \in Runs : \A x \in {runs'[q], mem'[q]} :
           x.step <= Length[q] /\ (x.judging => x.step \in Judged)
    <2>1. \A q \in Runs : \A x \in {runs[q], mem[q]} :
             x.step <= Length[q] /\ (x.judging => x.step \in Judged)
      BY DEF TypeOK
    <2>2. runs' = runs /\ \A q \in Runs \ {r} : mem'[q] = mem[q]
      BY <1>3 DEF Claim
    <2>3. QED
      BY <1>2, <1>4, <2>1, <2>2
  <1>6. files' \in [Runs -> RunFiles] /\ age' \in [Runs -> 0..AgeCap]
    <2>1. Watched(mem[r]) \in Phases
      BY RunTypes, WatchedType
    <2>2. CASE Line(r, Watched(mem[r]), "beat")
      BY <2>1, <2>2, LineType
    <2>3. CASE UNCHANGED <<files, age>>
      BY <2>3 DEF TypeOK
    <2>4. QED
      BY <2>2, <2>3 DEF Claim
  <1>7. inflight' \in Nat /\ dispatch' \subseteq Runs /\ pc' \in {"dispatch", "persist"} /\ cur' \in Runs
    <2>1. pc = "dispatch" /\ MoveOn
      BY DEF Claim
    <2>2. pc' \in {"dispatch", "persist"} /\ cur' \in Runs
      BY <2>1, MoveOnType
    <2>3. inflight' \in Nat /\ dispatch' \subseteq Runs
      BY DEF Claim, TypeOK
    <2>4. QED
      BY <2>2, <2>3
  <1>8. TypeOK'
    BY <1>4, <1>5, <1>6, <1>7 DEF Claim, TypeOK
  <1>9. QED
    BY <1>2, <1>3, <1>4, <1>8

LEMMA LaunchType ==
    ASSUME TypeOK, NEW r \in Runs, Launch(r), Watched(mem[r]) \in Phases
    PROVE  /\ worker' \in [Runs -> Workers]
           /\ \A q \in Runs \ {r} : worker'[q] = worker[q]
           /\ LET p == Watched(mem[r])
              IN  /\ worker'[r][p] = [proc |-> "working", launches |-> worker[r][p].launches + 1]
                  /\ \A x \in Phases \ {p} : worker'[r][x] = worker[r][x]
  <1>. DEFINE p == Watched(mem[r])
              one == [proc |-> "working", launches |-> worker[r][p].launches + 1]
              ours == [worker[r] EXCEPT ![p] = one]
  <1>1. worker \in [Runs -> Workers] /\ worker[r] \in Workers
    BY DEF TypeOK, Workers
  <1>2. worker' = [worker EXCEPT ![r] = ours]
    BY <1>1 DEF Launch
  <1>. HIDE DEF p
  <1>3. p \in Phases
    BY DEF p
  <1>4. one \in [proc: {"none", "working", "over"}, launches: Nat]
    BY <1>1, <1>3 DEF Workers
  <1>. HIDE DEF one
  <1>5. ours \in Workers /\ ours[p] = one /\ \A x \in Phases \ {p} : ours[x] = worker[r][x]
    BY <1>1, <1>3, <1>4 DEF Workers
  <1>. HIDE DEF ours
  <1>6. worker' \in [Runs -> Workers] /\ worker'[r] = ours /\ \A q \in Runs \ {r} : worker'[q] = worker[q]
    BY <1>1, <1>2, <1>5
  <1>7. QED
    BY <1>5, <1>6 DEF one, p

LEMMA SpawnType ==
    ASSUME TypeOK, NEW r \in Runs, Launch(r) \/ Lose(r) \/ SpawnFails(r)
    PROVE  TypeOK'
  <1>1. Watched(mem[r]) \in Phases
    BY RunTypes, WatchedType
  <1>2. Handled(r)
    BY DEF Launch, Lose, SpawnFails
  <1>3. /\ dispatch' \subseteq Runs /\ pc' \in {"idle", "spawn"}
        /\ UNCHANGED <<runs, verdict, mem, cur, inflight, crashes>>
    BY <1>2 DEF Handled, TypeOK
  <1>4. files' \in [Runs -> RunFiles] /\ age' \in [Runs -> 0..AgeCap]
    <2>1. CASE SpawnFails(r)
      BY <1>1, <2>1, LineType DEF SpawnFails, TerminalHb
    <2>2. CASE Launch(r) \/ Lose(r)
      BY <2>2 DEF Launch, Lose, TypeOK
    <2>3. QED
      BY <2>1, <2>2
  <1>5. worker' \in [Runs -> Workers]
    <2>1. CASE Launch(r)
      BY <1>1, <2>1, LaunchType
    <2>2. CASE Lose(r) \/ SpawnFails(r)
      BY <2>2 DEF Lose, SpawnFails, TypeOK, Workers
    <2>3. QED
      BY <2>1, <2>2
  <1>6. QED
    BY <1>3, <1>4, <1>5 DEF TypeOK, Workers

LEMMA OverType ==
    ASSUME TypeOK, NEW r \in Runs, NEW p \in Phases, Over(r, p)
    PROVE  /\ worker' \in [Runs -> Workers]
           /\ \A q \in Runs \ {r} : worker'[q] = worker[q]
           /\ worker'[r][p].proc = "over"
           /\ \A x \in Phases : /\ worker'[r][x].launches = worker[r][x].launches
                                /\ x # p => worker'[r][x] = worker[r][x]
  <1>. DEFINE one == [worker[r][p] EXCEPT !.proc = "over"]
              ours == [worker[r] EXCEPT ![p] = one]
  <1>1. worker \in [Runs -> Workers] /\ worker[r] \in Workers
    BY DEF TypeOK, Workers
  <1>2. worker' = [worker EXCEPT ![r] = ours]
    BY <1>1 DEF Over
  <1>3. /\ one \in [proc: {"none", "working", "over"}, launches: Nat]
        /\ one.proc = "over" /\ one.launches = worker[r][p].launches
    BY <1>1 DEF Workers
  <1>. HIDE DEF one
  <1>4. ours \in Workers /\ ours[p] = one /\ \A x \in Phases \ {p} : ours[x] = worker[r][x]
    BY <1>1, <1>3 DEF Workers
  <1>. HIDE DEF ours
  <1>5. worker' \in [Runs -> Workers] /\ worker'[r] = ours /\ \A q \in Runs \ {r} : worker'[q] = worker[q]
    BY <1>1, <1>2, <1>4
  <1>6. QED
    BY <1>3, <1>4, <1>5

LEMMA WorkerType ==
    ASSUME TypeOK, NEW r \in Runs, NEW p \in Phases, WorkerStep(r, p)
    PROVE  TypeOK'
  <1>1. UNCHANGED <<runs, tick, crashes>>
    BY DEF WorkerStep, Beat, Report, FallSilent
  <1>2. CASE Beat(r, p)
    <2>1. files' \in [Runs -> RunFiles] /\ age' \in [Runs -> 0..AgeCap]
      BY <1>2, LineType DEF Beat
    <2>2. QED
      BY <1>1, <1>2, <2>1 DEF Beat, TypeOK, tick
  <1>3. CASE FallSilent(r, p)
    <2>1. worker' \in [Runs -> Workers]
      BY <1>3, OverType DEF FallSilent
    <2>2. QED
      BY <1>1, <1>3, <2>1 DEF FallSilent, TypeOK, tick, Workers
  <1>4. ASSUME NEW sentinel \in Sentinels, Report(r, p, sentinel)
        PROVE  TypeOK'
    <2>1. files' \in [Runs -> RunFiles] /\ age' \in [Runs -> 0..AgeCap]
      BY <1>4, LineType, PipelineAssumption DEF Report
    <2>2. worker' \in [Runs -> Workers]
      BY <1>4, OverType DEF Report
    <2>3. verdict' \in [Runs -> [1..Steps -> Stop..Steps + 1]]
      <3>1. CASE p[2] = "judge"
        <4>1. p[1] \in 1..Steps /\ Steps \in Nat
          BY StepPhase DEF Phases
        <4>2. PICK outcome \in Outcomes[p[1]] \cup {Stop} :
                 verdict' = [verdict EXCEPT ![r][p[1]] = outcome]
          BY <1>4, <3>1 DEF Report
        <4>3. outcome \in Stop..Steps + 1
          BY <4>1, <4>2, ForwardAssumption DEF Stop
        <4>4. QED
          BY <4>1, <4>2, <4>3 DEF TypeOK
      <3>2. CASE p[2] # "judge"
        BY <1>4, <3>2 DEF Report, TypeOK
      <3>3. QED
        BY <3>1, <3>2
    <2>4. QED
      BY <1>1, <2>1, <2>2, <2>3 DEF TypeOK, tick, Workers
  <1>5. QED
    BY <1>2, <1>3, <1>4 DEF WorkerStep

LEMMA OlderType ==
    ASSUME NEW n \in 0..AgeCap
    PROVE  Older(n) \in 0..AgeCap
  BY AgeAssumption DEF Older

\* Time passes: only the age of a claim changes in the record of a run.
LEMMA PassType ==
    ASSUME TypeOK, Pass
    PROVE  /\ TypeOK'
           /\ mem' = runs' /\ UNCHANGED <<files, verdict, worker, pc, dispatch, crashes>>
           /\ \A r \in Runs : /\ runs'[r].state = runs[r].state /\ runs'[r].step = runs[r].step
                              /\ runs'[r].judging = runs[r].judging
                              /\ runs'[r].started = runs[r].started
  <1>. DEFINE aged == [r \in Runs |-> [runs[r] EXCEPT !.claimAge =
                                          IF runs[r].state = "claimed" THEN Older(@) ELSE @]]
  <1>1. /\ runs' = aged /\ mem' = runs'
        /\ UNCHANGED <<files, verdict, worker, pc, cur, inflight, dispatch, crashes>>
    BY DEF Pass
  <1>2. ASSUME NEW r \in Runs
        PROVE  /\ aged[r] \in RunRecord
               /\ aged[r].state = runs[r].state /\ aged[r].step = runs[r].step
               /\ aged[r].judging = runs[r].judging /\ aged[r].started = runs[r].started
    <2>1. runs[r] \in RunRecord /\ Older(runs[r].claimAge) \in 0..AgeCap
      BY RunTypes, OlderType DEF RunRecord
    <2>2. QED
      BY <2>1 DEF RunRecord
  <1>. HIDE DEF aged
  <1>3. runs' \in [Runs -> RunRecord]
    BY <1>1, <1>2 DEF aged
  <1>4. age' \in [Runs -> 0..AgeCap]
    BY OlderType DEF Pass, TypeOK
  <1>5. \A r \in Runs : \A rec \in {runs'[r], mem'[r]} :
           rec.step <= Length[r] /\ (rec.judging => rec.step \in Judged)
    BY <1>1, <1>2 DEF TypeOK
  <1>6. TypeOK'
    BY <1>1, <1>3, <1>4, <1>5 DEF TypeOK
  <1>7. QED
    BY <1>1, <1>2, <1>6

LEMMA NextType ==
    ASSUME TypeOK, \A r \in Runs : Legal(r), [Next]_vars
    PROVE  TypeOK'
  <1>1. CASE Begin \/ Persist
    <2>1. CASE Begin
      <3>1. 1 \in Runs
        BY PipelineAssumption DEF Runs
      <3>2. QED
        BY <2>1, <3>1 DEF Begin, TypeOK
    <2>2. CASE Persist
      BY <2>2 DEF Persist, TypeOK
    <2>3. QED
      BY <1>1, <2>1, <2>2
  <1>2. ASSUME NEW r \in Runs, Advances(r) PROVE TypeOK'
    BY <1>2, Advancing, TurnedType
  <1>3. ASSUME NEW r \in Runs, PassOver(r) PROVE TypeOK'
    <2>1. pc' \in {"dispatch", "persist"} /\ cur' \in Runs
      BY <1>3, MoveOnType DEF PassOver
    <2>2. QED
      BY <1>3, <2>1 DEF PassOver, TypeOK
  <1>4. ASSUME NEW r \in Runs, Claim(r) PROVE TypeOK'
    BY <1>4, ClaimType
  <1>5. ASSUME NEW r \in Runs, Launch(r) \/ Lose(r) \/ SpawnFails(r) PROVE TypeOK'
    BY <1>5, SpawnType
  <1>6. CASE Crash
    BY <1>6, DieType DEF Crash, TypeOK
  <1>7. CASE Pass
    BY <1>7, PassType
  <1>8. ASSUME NEW r \in Runs, NEW p \in Phases, WorkerStep(r, p) PROVE TypeOK'
    BY <1>8, WorkerType
  <1>9. CASE UNCHANGED vars
    BY <1>9 DEF vars, tick, TypeOK
  <1>10. QED
    BY <1>1, <1>2, <1>3, <1>4, <1>5, <1>6, <1>7, <1>8, <1>9 DEF Next, TickStep, Advances
------------------------------------------------------------------------------
(* The invariant.  Its parts are about the files f, the workers w and one    *)
(* record of a run: what is on disk (old) and what the tick works on (rec).  *)

Ran(w, p) == w[p].launches > 0

\* A phase that has had its worker is behind the record, or is the one it is at.
PlaceOf(p, rec) ==
    \/ p[1] < rec.step
    \/ p = <<rec.step, "step">> /\ rec.judging
    \/ p = Watched(rec) /\ rec.state \in InFlight
    \/ p[1] <= rec.step /\ rec.state \in Terminal

RecIn(r, rec, f, w) ==
    /\ rec.state \in InFlight \/ rec.judging => rec.started
    /\ rec.judging => CompletedIn(f, rec.step)
    /\ PathIn(f, rec.step)
    /\ \A p \in Phases : Ran(w, p) => PlaceOf(p, rec)
    /\ rec.state \in Terminal => f.entry # "none"
    /\ rec.state = "completed" => OverIn(r, f)

OrderIn(f, w) ==
    /\ \A m \in 1..Steps : Ran(w, <<m, "step">>) => \A s \in 1..m - 1 : PassedIn(f, s, m)
    /\ \A m \in Judged : Ran(w, <<m, "judge">>) => CompletedIn(f, m)

WorkersIn(f, w) ==
    /\ \A p \in Phases : w[p].launches <= 1 /\ (w[p].launches = 0 => w[p].proc = "none")
    /\ \A m \in Judged : f.hb[<<m, "judge">>] \in TerminalHb => w[<<m, "judge">>].proc = "over"

\* Unless a tick has died, the entry's result is the one of the state.
EntriesIn(old, rec, f) ==
    /\ IF rec.state \in Terminal THEN f.entry = EntryOf(rec.state) ELSE f.entry = "none"
    /\ old.state \in Terminal => f.entry = EntryOf(old.state)

FilesIn(r, f, v) ==
    /\ GatesIn(f) /\ JudgedIn(f, v)
    /\ \A m \in Judged : v[m] \in Forward(m)
    /\ f.entry = "COMPLETED" => OverIn(r, f)

RunInv(r) ==
    /\ FilesIn(r, files[r], verdict[r])
    /\ OrderIn(files[r], worker[r]) /\ WorkersIn(files[r], worker[r])
    /\ RecIn(r, runs[r], files[r], worker[r]) /\ RecIn(r, mem[r], files[r], worker[r])
    /\ runs[r].step <= mem[r].step
    /\ r \in dispatch => mem[r].state = "claimed" /\ ~Ran(worker[r], Watched(mem[r]))
    /\ crashes = MaxCrashes => EntriesIn(runs[r], mem[r], files[r])

ControlInv ==
    /\ pc \in {"idle", "advance"} => dispatch = {}
    /\ pc \in {"idle", "spawn"} => mem = runs
    /\ crashes <= MaxCrashes

IInv == TypeOK /\ ControlInv /\ \A r \in Runs : RunInv(r)

LEMMA InvLegal ==
    ASSUME NEW r \in Runs, RunInv(r)
    PROVE  Legal(r)
  BY DEF RunInv, FilesIn, RecIn, Legal

LEMMA GrowsRec ==
    ASSUME NEW r \in Runs, NEW rec \in RunRecord, rec.step <= Length[r],
           NEW f \in RunFiles, NEW g \in RunFiles, Grows(f, g), NEW w, RecIn(r, rec, f, w)
    PROVE  RecIn(r, rec, g, w)
  <1>1. rec.step \in 1..Steps + 1 /\ rec.step \in 1..Steps
    BY StepPhase DEF RunRecord
  <1>2. PathIn(g, rec.step)
    BY <1>1, GrowsPath DEF RecIn
  <1>3. CompletedIn(f, rec.step) => CompletedIn(g, rec.step)
    BY <1>1, StepPhase DEF Grows, CompletedIn, TerminalHb
  <1>4. OverIn(r, f) => OverIn(r, g)
    BY GrowsOver
  <1>5. f.entry # "none" => g.entry # "none"
    BY DEF Grows
  <1>6. QED
    BY <1>2, <1>3, <1>4, <1>5 DEF RecIn

LEMMA GrowsOrder ==
    ASSUME NEW f \in RunFiles, NEW g \in RunFiles, Grows(f, g), NEW w, OrderIn(f, w)
    PROVE  OrderIn(g, w)
  <1>1. ASSUME NEW m \in 1..Steps, Ran(w, <<m, "step">>), NEW s \in 1..m - 1
        PROVE  PassedIn(g, s, m)
    <2>1. PassedIn(f, s, m) /\ m \in 1..Steps + 1
      BY <1>1, StepPhase DEF OrderIn
    <2>2. QED
      BY <2>1, GrowsPassed
  <1>2. \A m \in Judged : CompletedIn(f, m) => CompletedIn(g, m)
    BY StepPhase DEF Grows, CompletedIn, TerminalHb
  <1>3. QED
    BY <1>1, <1>2 DEF OrderIn

\* Two records that differ only in the age of a claim.
Alike(a, b) ==
    a.state = b.state /\ a.step = b.step /\ a.judging = b.judging /\ a.started = b.started

LEMMA AlikeRec ==
    ASSUME NEW r \in Runs, NEW a, NEW b, Alike(a, b), NEW f, NEW w, RecIn(r, a, f, w)
    PROVE  RecIn(r, b, f, w) /\ Watched(b) = Watched(a)
  <1>1. Watched(b) = Watched(a)
    BY DEF Alike, Watched
  <1>2. \A p \in Phases : PlaceOf(p, a) => PlaceOf(p, b)
    BY <1>1 DEF Alike, PlaceOf
  <1>3. QED
    BY <1>1, <1>2 DEF Alike, RecIn

\* Nothing happens to the files and the workers of a run, and at most its record is
\* taken from the disk again.
LEMMA Untouched ==
    ASSUME NEW r \in Runs, RunInv(r),
           files'[r] = files[r], verdict'[r] = verdict[r], worker'[r] = worker[r],
           Alike(runs[r], runs'[r]),
           \/ Alike(mem[r], mem'[r]) /\ (r \in dispatch' => r \in dispatch) /\ crashes' = crashes
           \/ Alike(runs[r], mem'[r]) /\ r \notin dispatch' /\ (crashes' = crashes => runs = mem)
              /\ crashes' \in {crashes, crashes - 1},
           crashes \in Nat, crashes <= MaxCrashes, runs[r].step \in Nat
    PROVE  RunInv(r)'
  <1>1. RecIn(r, runs[r], files[r], worker[r]) /\ RecIn(r, mem[r], files[r], worker[r])
    BY DEF RunInv
  <1>2. RecIn(r, runs'[r], files'[r], worker'[r]) /\ RecIn(r, mem'[r], files'[r], worker'[r])
    BY <1>1, AlikeRec
  <1>3. runs'[r].step <= mem'[r].step
    BY DEF RunInv, Alike
  <1>4. r \in dispatch' => mem'[r].state = "claimed" /\ ~Ran(worker'[r], Watched(mem'[r]))
    BY <1>1, AlikeRec DEF RunInv, Alike
  <1>5. crashes' = MaxCrashes => EntriesIn(runs'[r], mem'[r], files'[r])
    BY PipelineAssumption DEF RunInv, Alike, EntriesIn
  <1>6. QED
    BY <1>2, <1>3, <1>4, <1>5 DEF RunInv

LEMMA InitInv == Init => IInv
  <1>. SUFFICES ASSUME Init PROVE IInv
    OBVIOUS
  <1>1. TypeOK /\ MaxCrashes \in Nat
    BY InitType, PipelineAssumption
  <1>2. ControlInv
    BY <1>1 DEF Init, ControlInv
  <1>3. ASSUME NEW r \in Runs PROVE RunInv(r)
    <2>1. /\ runs[r].state = "queued" /\ runs[r].step = 1 /\ ~runs[r].judging /\ mem[r] = runs[r]
          /\ dispatch = {}
      BY DEF Init
    <2>2. /\ \A p \in Phases : files[r].hb[p] = "none"
          /\ \A m \in 1..Steps : files[r].gate[m] = NoOutcome
          /\ files[r].entry = "none"
          /\ \A m \in 1..Steps : verdict[r][m] = Stop
          /\ \A p \in Phases : worker[r][p].proc = "none" /\ worker[r][p].launches = 0
      BY DEF Init
    <2>3. FilesIn(r, files[r], verdict[r])
      <3>1. ~(NoOutcome > Stop) /\ \A m : Stop \in Forward(m)
        BY DEF NoOutcome, Stop, Forward
      <3>2. QED
        BY <2>2, <3>1, StepPhase DEF FilesIn, GatesIn, JudgedIn
    <2>4. \A p \in Phases : ~Ran(worker[r], p)
      BY <2>2 DEF Ran
    <2>5. OrderIn(files[r], worker[r]) /\ WorkersIn(files[r], worker[r])
      BY <2>2, <2>4, StepPhase DEF OrderIn, WorkersIn, TerminalHb
    <2>6. RecIn(r, runs[r], files[r], worker[r])
      BY <2>1, <2>4, StatesType DEF RecIn, PathIn
    <2>7. EntriesIn(runs[r], mem[r], files[r])
      BY <2>1, <2>2, StatesType DEF EntriesIn
    <2>8. QED
      BY <2>1, <2>3, <2>5, <2>6, <2>7 DEF RunInv
  <1>4. QED
    BY <1>1, <1>2, <1>3 DEF IInv
------------------------------------------------------------------------------
(* A run is advanced *)

LEMMA TurnRec ==
    ASSUME TypeOK, NEW r \in Runs, RunInv(r), NEW g \in Writes(r, verdict[r], files[r]),
           NEW rec, Turn(r, g, rec)
    PROVE  RecIn(r, rec, g, worker[r]) /\ runs[r].step <= rec.step
  <1>. DEFINE old == mem[r]
              w == worker[r]
  <1>1. /\ files[r] \in RunFiles /\ g \in RunFiles /\ Grows(files[r], g) /\ g.hb = files[r].hb
        /\ old \in RunRecord /\ rec \in RunRecord /\ Length[r] \in 1..Steps /\ Steps \in Nat
        /\ old.step \in 1..Length[r] /\ runs[r].step \in 1..Length[r] /\ runs[r].step <= old.step
        /\ rec.step \in old.step .. Length[r] /\ rec.started = old.started
    BY RunTypes, StepPhase DEF Writes, Turn, RunInv
  <1>2. runs[r].step <= rec.step
    BY <1>1
  <1>3. RecIn(r, old, g, w)
    BY <1>1, GrowsRec DEF RunInv
  <1>4. \A p \in Phases : p[1] \in 1..Steps
    BY StepPhase DEF Phases
  <1>5. \A p \in Phases : Ran(w, p) => p[1] <= old.step
    BY <1>1, <1>3, <1>4 DEF RecIn, PlaceOf, Watched
  <1>6. old.state \in RunState
    BY <1>1 DEF RunRecord
  <1>7. CASE /\ g = files[r] /\ rec.step = old.step /\ rec.judging = old.judging
             /\ \/ rec.state = old.state
                \/ /\ old.state \in InFlight \/ (old.judging /\ old.state \notin Terminal)
                   /\ rec.state \in InFlight
    <2>1. CASE rec.state = old.state
      BY <1>1, <1>2, <1>3, <1>7, <2>1, AlikeRec DEF Alike
    <2>2. CASE /\ old.state \in InFlight \/ (old.judging /\ old.state \notin Terminal)
               /\ rec.state \in InFlight
      <3>1. Watched(rec) = Watched(old)
        BY <1>7 DEF Watched
      <3>2. \A p \in Phases : Ran(w, p) => PlaceOf(p, rec)
        <4>1. old.state \notin Terminal
          BY <2>2, StatesType
        <4>2. \A p \in Phases : PlaceOf(p, old) => PlaceOf(p, rec)
          BY <1>7, <2>2, <3>1, <4>1 DEF PlaceOf
        <4>3. QED
          BY <1>3, <4>2 DEF RecIn
      <3>3. QED
        <4>1. rec.state \notin Terminal /\ rec.state # "completed" /\ rec.started
          BY <1>1, <1>3, <2>2, StatesType DEF RecIn, Terminal
        <4>2. QED
          BY <1>2, <1>3, <1>7, <3>2, <4>1 DEF RecIn
    <2>3. QED
      BY <1>7, <2>1, <2>2
  <1>8. CASE /\ g.entry = files[r].entry /\ rec.step = old.step /\ ~old.judging /\ rec.judging
             /\ old.state \in InFlight /\ rec.state = "queued" /\ CompletedIn(files[r], old.step)
    <2>1. \A p \in Phases : Ran(w, p) => PlaceOf(p, rec)
      BY <1>3, <1>8, StatesType DEF RecIn, PlaceOf, Watched
    <2>2. CompletedIn(g, rec.step)
      BY <1>1, <1>8 DEF CompletedIn
    <2>3. QED
      BY <1>1, <1>2, <1>3, <1>8, <2>1, <2>2, StatesType DEF RecIn
  <1>9. CASE /\ old.state \notin Terminal /\ rec.state \in Terminal
             /\ rec.step = old.step /\ ~rec.judging
             /\ g.entry # "none" /\ (files[r].entry = "none" => g.entry = EntryOf(rec.state))
             /\ rec.state = "completed" => OverIn(r, g)
    BY <1>2, <1>3, <1>5, <1>9, StatesType DEF RecIn, PlaceOf
  <1>10. CASE /\ old.state \notin Terminal /\ rec.state = "queued" /\ ~rec.judging
              /\ old.step < rec.step /\ PathIn(g, rec.step) /\ g.entry = files[r].entry
    <2>1. \A p \in Phases : Ran(w, p) => PlaceOf(p, rec)
      BY <1>1, <1>4, <1>5, <1>10 DEF PlaceOf
    <2>2. QED
      BY <1>2, <1>10, <2>1, StatesType DEF RecIn
  <1>11. QED
    BY <1>7, <1>8, <1>9, <1>10 DEF Turn

LEMMA TurnEntries ==
    ASSUME TypeOK, NEW r \in Runs, RunInv(r), NEW g \in Writes(r, verdict[r], files[r]),
           NEW rec, Turn(r, g, rec), EntriesIn(runs[r], mem[r], files[r])
    PROVE  EntriesIn(runs[r], rec, g)
  <1>1. Grows(files[r], g)
    BY DEF Writes
  <1>2. \A state : EntryOf(state) # "none"
    BY DEF EntryOf
  <1>3. runs[r].state \in Terminal => g.entry = EntryOf(runs[r].state)
    BY <1>1, <1>2 DEF EntriesIn, Grows
  <1>4. IF rec.state \in Terminal THEN g.entry = EntryOf(rec.state) ELSE g.entry = "none"
    BY StatesType DEF Turn, EntriesIn
  <1>5. QED
    BY <1>3, <1>4 DEF EntriesIn

LEMMA TurnedKept ==
    ASSUME IInv, NEW r \in Runs, pc = "advance", Turned(r)
    PROVE  IInv'
  <1>1. PICK g \in Writes(r, verdict[r], files[r]) :
           /\ files' = [files EXCEPT ![r] = g]
           /\ \/ Die
              \/ \E rec \in RunRecord :
                    /\ Turn(r, g, rec) /\ mem' = [mem EXCEPT ![r] = rec]
                    /\ MoveOn /\ CountPool /\ UNCHANGED <<dispatch, crashes>>
           /\ UNCHANGED <<runs, age, verdict, worker>>
    BY DEF Turned
  <1>2. TypeOK' /\ TypeOK /\ dispatch = {} /\ MaxCrashes \in Nat /\ crashes \in Nat
        /\ crashes <= MaxCrashes
    BY TurnedType, PipelineAssumption DEF IInv, ControlInv, TypeOK
  <1>3. /\ files'[r] = g /\ \A q \in Runs \ {r} : files'[q] = files[q]
        /\ g \in RunFiles /\ Grows(files[r], g) /\ g.hb = files[r].hb
        /\ g.entry = "COMPLETED" => files[r].entry = "COMPLETED" \/ OverIn(r, g)
        /\ GatesIn(g) /\ JudgedIn(g, verdict[r])
    BY <1>1, <1>2 DEF Writes, TypeOK
  <1>4. FilesIn(r, g, verdict[r])
    <2>1. OverIn(r, files[r]) => OverIn(r, g)
      BY <1>2, <1>3, RunTypes, GrowsOver
    <2>2. QED
      BY <1>3, <2>1 DEF IInv, RunInv, FilesIn
  <1>5. OrderIn(g, worker[r]) /\ WorkersIn(g, worker[r]) /\ RecIn(r, runs[r], g, worker[r])
    <2>1. RunInv(r)
      BY DEF IInv
    <2>2. OrderIn(g, worker[r])
      BY <1>2, <1>3, <2>1, RunTypes, GrowsOrder DEF RunInv
    <2>3. WorkersIn(g, worker[r])
      BY <1>3, <2>1 DEF RunInv, WorkersIn
    <2>4. runs[r].step <= Length[r]
      BY <1>2 DEF TypeOK
    <2>5. RecIn(r, runs[r], g, worker[r])
      BY <1>2, <1>3, <2>1, <2>4, RunTypes, GrowsRec DEF RunInv
    <2>6. QED
      BY <2>2, <2>3, <2>5
  <1>6. CASE Die
    <2>1. mem' = runs /\ dispatch' = {} /\ crashes' = crashes - 1 /\ pc' = "idle" /\ runs' = runs
          /\ verdict' = verdict /\ worker' = worker
      BY <1>1, <1>2, <1>6, DieType
    <2>2. RunInv(r)'
      <3>1. mem'[r] = runs[r] /\ runs[r].step <= runs[r].step /\ r \notin dispatch' /\ crashes' # MaxCrashes
        BY <1>2, <2>1, RunTypes
      <3>2. QED
        BY <1>3, <1>4, <1>5, <2>1, <3>1 DEF RunInv
    <2>3. ASSUME NEW q \in Runs \ {r} PROVE RunInv(q)'
      BY <1>1, <1>2, <1>3, <2>1, RunTypes, Untouched DEF IInv, Alike
    <2>4. ControlInv'
      BY <1>2, <2>1 DEF ControlInv
    <2>5. QED
      BY <1>2, <2>2, <2>3, <2>4 DEF IInv
  <1>7. ASSUME NEW rec \in RunRecord, Turn(r, g, rec), mem' = [mem EXCEPT ![r] = rec], MoveOn,
               UNCHANGED <<dispatch, crashes>>
        PROVE  IInv'
    <2>1. mem'[r] = rec /\ \A q \in Runs \ {r} : mem'[q] = mem[q]
      BY <1>2, <1>7 DEF TypeOK
    <2>2. RecIn(r, rec, g, worker[r]) /\ runs[r].step <= rec.step
      BY <1>2, <1>7, TurnRec DEF IInv
    <2>3. crashes = MaxCrashes => EntriesIn(runs[r], rec, g)
      BY <1>2, <1>7, TurnEntries DEF IInv, RunInv
    <2>4. RunInv(r)'
      BY <1>1, <1>2, <1>3, <1>4, <1>5, <1>7, <2>1, <2>2, <2>3 DEF RunInv
    <2>5. ASSUME NEW q \in Runs \ {r} PROVE RunInv(q)'
      BY <1>1, <1>2, <1>3, <1>7, <2>1, RunTypes, Untouched DEF IInv, Alike
    <2>6. ControlInv'
      <3>1. pc' \in {"advance", "dispatch", "persist"}
        BY <1>2, <1>7, MoveOnType
      <3>2. QED
        BY <1>2, <1>7, <3>1 DEF ControlInv
    <2>7. QED
      BY <1>2, <2>4, <2>5, <2>6 DEF IInv
  <1>8. QED
    BY <1>1, <1>6, <1>7
------------------------------------------------------------------------------
(* The other actions *)

\* A line in a heartbeat; a sentinel in that of a judge is another matter.
LEMMA LineKept ==
    ASSUME IInv, NEW r \in Runs, NEW p \in Phases, NEW line \in {"beat"} \cup TerminalHb,
           Line(r, p, line)
    PROVE  /\ FilesIn(r, files'[r], verdict[r]) /\ OrderIn(files'[r], worker[r])
           /\ RecIn(r, runs[r], files'[r], worker[r]) /\ RecIn(r, mem[r], files'[r], worker[r])
           /\ line = "beat" \/ p[2] # "judge" => WorkersIn(files'[r], worker[r])
           /\ crashes = MaxCrashes => EntriesIn(runs[r], mem[r], files'[r])
  <1>. DEFINE f == files[r]
              g == files'[r]
  <1>1. TypeOK /\ RunInv(r)
    BY DEF IInv
  <1>2. /\ f \in RunFiles /\ g \in RunFiles /\ Grows(f, g)
        /\ g.hb = [f.hb EXCEPT ![p] = AppendLine(f.hb[p], line)]
        /\ g.result = f.result /\ g.gate = f.gate /\ g.entry = f.entry
    <2>1. files' \in [Runs -> RunFiles]
      BY <1>1, LineType
    <2>2. f \in RunFiles /\ g \in RunFiles
      BY <1>1, <2>1, RunTypes
    <2>3. QED
      BY <1>1, <2>2, LineType
  <1>. HIDE DEF g, f
  <1>3. FilesIn(r, g, verdict[r])
    <2>1. OverIn(r, f) => OverIn(r, g)
      BY <1>2, GrowsOver
    <2>2. JudgedIn(f, verdict[r]) => JudgedIn(g, verdict[r])
      BY <1>2, StepPhase DEF JudgedIn, Grows, TerminalHb
    <2>3. QED
      BY <1>1, <1>2, <2>1, <2>2 DEF RunInv, FilesIn, GatesIn, f
  <1>4. OrderIn(g, worker[r])
    BY <1>1, <1>2, GrowsOrder DEF RunInv, f
  <1>5. RecIn(r, runs[r], g, worker[r]) /\ RecIn(r, mem[r], g, worker[r])
    <2>1. runs[r].step <= Length[r] /\ mem[r].step <= Length[r]
      BY <1>1 DEF TypeOK
    <2>2. QED
      BY <1>1, <1>2, <2>1, RunTypes, GrowsRec DEF RunInv, f
  <1>6. ASSUME line = "beat" \/ p[2] # "judge" PROVE WorkersIn(g, worker[r])
    <2>1. f.hb \in [Phases -> Heartbeat]
      BY <1>2, FilesType
    <2>2. ASSUME NEW m \in Judged, g.hb[<<m, "judge">>] \in TerminalHb
          PROVE  f.hb[<<m, "judge">>] \in TerminalHb
      <3>1. <<m, "judge">> \in Phases
        BY StepPhase
      <3>2. CASE p = <<m, "judge">>
        BY <1>2, <1>6, <2>1, <2>2, <3>1, <3>2 DEF AppendLine, TerminalHb
      <3>3. CASE p # <<m, "judge">>
        BY <1>2, <2>1, <2>2, <3>1, <3>3
      <3>4. QED
        BY <3>2, <3>3
    <2>3. QED
      BY <1>1, <2>2 DEF RunInv, WorkersIn, f
  <1>7. crashes = MaxCrashes => EntriesIn(runs[r], mem[r], g)
    BY <1>1, <1>2 DEF RunInv, EntriesIn, f
  <1>8. QED
    BY <1>3, <1>4, <1>5, <1>6, <1>7 DEF g

LEMMA QuietKept ==
    ASSUME IInv, Begin \/ Crash \/ Pass \/ (\E r \in Runs : PassOver(r) \/ Lose(r)) \/ UNCHANGED vars
    PROVE  \A r \in Runs : RunInv(r)'
  <1>. SUFFICES ASSUME NEW r \in Runs PROVE RunInv(r)'
    OBVIOUS
  <1>1. /\ TypeOK /\ RunInv(r) /\ crashes \in Nat /\ crashes <= MaxCrashes /\ runs[r].step \in Nat
        /\ MaxCrashes \in Nat
    <2>1. TypeOK /\ RunInv(r) /\ crashes \in Nat /\ crashes <= MaxCrashes /\ MaxCrashes \in Nat
      BY PipelineAssumption DEF IInv, ControlInv, TypeOK
    <2>2. runs[r] \in RunRecord /\ Steps \in Nat
      BY <2>1, RunTypes, StepPhase
    <2>3. QED
      BY <2>1, <2>2 DEF RunRecord
  <1>2. CASE Begin \/ (\E q \in Runs : PassOver(q)) \/ UNCHANGED vars
    BY <1>1, <1>2, Untouched DEF Begin, PassOver, vars, tick, Alike
  <1>3. CASE Crash
    <2>1. mem' = runs /\ dispatch' = {} /\ crashes' = crashes - 1
          /\ UNCHANGED <<runs, files, verdict, worker>>
      BY <1>1, <1>3, DieType DEF Crash
    <2>2. QED
      BY <1>1, <2>1, Untouched DEF Alike
  <1>4. CASE Pass
    <2>1. /\ mem' = runs' /\ UNCHANGED <<files, verdict, worker, pc, dispatch, crashes>>
          /\ Alike(runs[r], runs'[r])
      BY <1>1, <1>4, PassType DEF Alike
    <2>2. mem = runs
      BY <1>4 DEF Pass, IInv, ControlInv
    <2>3. QED
      BY <1>1, <2>1, <2>2, Untouched
  <1>5. ASSUME NEW q \in Runs, Lose(q) PROVE RunInv(r)'
    BY <1>1, <1>5, Untouched DEF Lose, Handled, Alike
  <1>6. QED
    BY <1>2, <1>3, <1>4, <1>5

LEMMA PersistKept ==
    ASSUME IInv, Persist, NEW r \in Runs
    PROVE  RunInv(r)'
  <1>1. /\ runs' = mem /\ UNCHANGED <<files, verdict, worker, mem, dispatch, crashes>>
        /\ mem[r].step \in Int
    BY RunTypes DEF Persist, IInv
  <1>2. RunInv(r)
    BY DEF IInv
  <1>3. crashes' = MaxCrashes => EntriesIn(runs'[r], mem'[r], files'[r])
    BY <1>1, <1>2 DEF RunInv, EntriesIn
  <1>4. QED
    BY <1>1, <1>2, <1>3 DEF RunInv

LEMMA ClaimKept ==
    ASSUME IInv, NEW r \in Runs, Claim(r)
    PROVE  \A q \in Runs : RunInv(q)'
  <1>1. /\ TypeOK /\ RunInv(r) /\ crashes \in Nat /\ crashes <= MaxCrashes
        /\ \A q \in Runs : runs[q].step \in Nat /\ mem[q] \in RunRecord
    BY RunTypes DEF IInv, ControlInv, TypeOK
  <1>2. /\ mem[r].state = "queued" /\ dispatch' = dispatch \cup {r}
        /\ UNCHANGED <<runs, verdict, worker, crashes>>
    BY DEF Claim, MayGo
  <1>3. /\ mem' = [mem EXCEPT ![r] = mem'[r]] /\ mem'[r].state = "claimed"
        /\ mem'[r].step = mem[r].step /\ mem'[r].judging = mem[r].judging /\ mem'[r].started
    BY <1>1, ClaimType
  <1>4. Watched(mem[r]) \in Phases /\ Watched(mem'[r]) = Watched(mem[r])
    BY <1>1, <1>3, RunTypes, WatchedType DEF Watched
  <1>5. Line(r, Watched(mem[r]), "beat") \/ files' = files
    BY DEF Claim
  <1>6. ASSUME NEW q \in Runs \ {r} PROVE RunInv(q)'
    <2>1. files'[q] = files[q] /\ mem'[q] = mem[q] /\ (q \in dispatch' => q \in dispatch) /\ RunInv(q)
      BY <1>1, <1>2, <1>3, <1>4, <1>5, LineType DEF IInv, TypeOK
    <2>2. QED
      BY <1>1, <1>2, <2>1, Untouched DEF Alike
  <1>7. /\ FilesIn(r, files'[r], verdict[r]) /\ OrderIn(files'[r], worker[r])
        /\ RecIn(r, runs[r], files'[r], worker[r]) /\ RecIn(r, mem[r], files'[r], worker[r])
        /\ WorkersIn(files'[r], worker[r])
        /\ crashes = MaxCrashes => EntriesIn(runs[r], mem[r], files'[r])
    <2>1. CASE Line(r, Watched(mem[r]), "beat")
      BY <1>4, <2>1, LineKept
    <2>2. CASE files' = files
      BY <1>1, <2>2 DEF RunInv
    <2>3. QED
      BY <1>5, <2>1, <2>2
  <1>8. \A p \in Phases : Ran(worker[r], p) => p[1] < mem[r].step
                                              \/ (p = <<mem[r].step, "step">> /\ mem[r].judging)
    BY <1>1, <1>2, StatesType DEF RunInv, RecIn, PlaceOf
  <1>9. ~Ran(worker[r], Watched(mem[r]))
    <2>. DEFINE p == Watched(mem[r])
    <2>1. p = IF mem[r].judging THEN <<mem[r].step, "judge">> ELSE <<mem[r].step, "step">>
      BY DEF Watched
    <2>2. mem[r].step \in Int /\ p[1] = mem[r].step
      BY <1>1, <2>1 DEF RunRecord
    <2>3. ~(p[1] < mem[r].step) /\ ~(p = <<mem[r].step, "step">> /\ mem[r].judging)
      BY <2>1, <2>2
    <2>. HIDE DEF p
    <2>4. QED
      BY <1>4, <1>8, <2>3 DEF p
  <1>10. RecIn(r, mem'[r], files'[r], worker[r])
    <2>1. \A p \in Phases : Ran(worker[r], p) => PlaceOf(p, mem'[r])
      BY <1>3, <1>8 DEF PlaceOf
    <2>2. mem'[r].state \notin Terminal /\ mem'[r].state # "completed"
      BY <1>3 DEF Terminal
    <2>3. QED
      BY <1>3, <1>7, <2>1, <2>2 DEF RecIn
  <1>11. crashes = MaxCrashes => EntriesIn(runs[r], mem'[r], files'[r])
    BY <1>2, <1>3, <1>7 DEF EntriesIn, Terminal
  <1>12. RunInv(r)'
    BY <1>1, <1>2, <1>3, <1>4, <1>7, <1>9, <1>10, <1>11 DEF RunInv
  <1>13. QED
    BY <1>6, <1>12

LEMMA SpawnFailsKept ==
    ASSUME IInv, NEW r \in Runs, SpawnFails(r)
    PROVE  \A q \in Runs : RunInv(q)'
  <1>1. /\ TypeOK /\ crashes \in Nat /\ crashes <= MaxCrashes
        /\ \A q \in Runs : RunInv(q) /\ runs[q].step \in Nat
    BY RunTypes DEF IInv, ControlInv, TypeOK
  <1>2. /\ Line(r, Watched(mem[r]), "FAILED") /\ Watched(mem[r]) \in Phases
        /\ Watched(mem[r])[2] # "judge"
    BY <1>1, RunTypes, WatchedType DEF SpawnFails, Subagent
  <1>3. dispatch' \subseteq dispatch /\ UNCHANGED <<runs, mem, verdict, worker, crashes>>
    BY DEF SpawnFails, Handled
  <1>4. ASSUME NEW q \in Runs \ {r} PROVE RunInv(q)'
    <2>1. files'[q] = files[q]
      BY <1>1, <1>2, LineType DEF TerminalHb
    <2>2. QED
      BY <1>1, <1>3, <2>1, Untouched DEF Alike
  <1>5. /\ FilesIn(r, files'[r], verdict[r]) /\ OrderIn(files'[r], worker[r])
        /\ RecIn(r, runs[r], files'[r], worker[r]) /\ RecIn(r, mem[r], files'[r], worker[r])
        /\ WorkersIn(files'[r], worker[r])
        /\ crashes = MaxCrashes => EntriesIn(runs[r], mem[r], files'[r])
    BY <1>2, LineKept DEF TerminalHb
  <1>6. RunInv(r)'
    BY <1>1, <1>3, <1>5 DEF RunInv
  <1>7. QED
    BY <1>4, <1>6

\* The step or judge that is launched has not had a worker before, and what must
\* precede it has.
LEMMA LaunchKept ==
    ASSUME IInv, NEW r \in Runs, Launch(r)
    PROVE  \A q \in Runs : RunInv(q)'
  <1>. DEFINE p == Watched(mem[r])
              w == worker'[r]
  <1>1. /\ TypeOK /\ crashes \in Nat /\ crashes <= MaxCrashes
        /\ \A q \in Runs : RunInv(q) /\ runs[q].step \in Nat
        /\ mem = runs
    BY RunTypes DEF IInv, ControlInv, TypeOK, Launch, NextToSpawn
  <1>2. /\ p \in Phases /\ mem[r] \in RunRecord
        /\ p = IF mem[r].judging THEN <<mem[r].step, "judge">> ELSE <<mem[r].step, "step">>
        /\ worker[r] \in Workers
    BY <1>1, RunTypes, WatchedType DEF Workers
  <1>3. /\ mem[r].state = "claimed" /\ ~Ran(worker[r], p)
    BY <1>1 DEF Launch, NextToSpawn, RunInv
  <1>4. dispatch' = dispatch \ {r} /\ UNCHANGED <<runs, mem, files, verdict, crashes>>
    BY DEF Launch, Handled
  <1>5. /\ \A q \in Runs \ {r} : worker'[q] = worker[q]
        /\ w[p] = [proc |-> "working", launches |-> worker[r][p].launches + 1]
        /\ \A x \in Phases \ {p} : w[x] = worker[r][x]
    BY <1>1, <1>2, LaunchType
  <1>6. ASSUME NEW q \in Runs \ {r} PROVE RunInv(q)'
    BY <1>1, <1>4, <1>5, Untouched DEF Alike
  <1>. HIDE DEF p, w
  <1>7. worker[r][p].launches = 0
    BY <1>2, <1>3 DEF Ran, Workers
  <1>8. \A x \in Phases : Ran(w, x) => x = p \/ Ran(worker[r], x)
    BY <1>5 DEF Ran
  <1>9. WorkersIn(files[r], w)
    <2>1. \A x \in Phases : w[x].launches <= 1 /\ (w[x].launches = 0 => w[x].proc = "none")
      BY <1>1, <1>5, <1>7 DEF RunInv, WorkersIn
    <2>2. ASSUME NEW m \in Judged, files[r].hb[<<m, "judge">>] \in TerminalHb
          PROVE  w[<<m, "judge">>].proc = "over"
      <3>1. worker[r][<<m, "judge">>].proc = "over" /\ <<m, "judge">> \in Phases
        BY <1>1, <2>2, StepPhase DEF RunInv, WorkersIn
      <3>2. worker[r][p].proc = "none"
        BY <1>1, <1>2, <1>7 DEF RunInv, WorkersIn
      <3>3. QED
        BY <1>5, <3>1, <3>2
    <2>3. QED
      BY <2>1, <2>2 DEF WorkersIn
  <1>10. RecIn(r, mem[r], files[r], worker[r])
    BY <1>1 DEF RunInv
  <1>11. OrderIn(files[r], w)
    <2>1. OrderIn(files[r], worker[r])
      BY <1>1 DEF RunInv
    <2>2. ASSUME NEW m \in 1..Steps, Ran(w, <<m, "step">>)
          PROVE  \A s \in 1..m - 1 : PassedIn(files[r], s, m)
      <3>1. CASE p = <<m, "step">>
        <4>1. m = mem[r].step
          BY <1>2, <3>1
        <4>2. QED
          BY <1>10, <4>1 DEF RecIn, PathIn
      <3>2. CASE p # <<m, "step">>
        BY <1>8, <2>1, <2>2, <3>2, StepPhase DEF OrderIn
      <3>3. QED
        BY <3>1, <3>2
    <2>3. ASSUME NEW m \in Judged, Ran(w, <<m, "judge">>)
          PROVE  CompletedIn(files[r], m)
      <3>1. CASE p = <<m, "judge">>
        <4>1. m = mem[r].step /\ mem[r].judging
          BY <1>2, <3>1
        <4>2. QED
          BY <1>10, <4>1 DEF RecIn
      <3>2. CASE p # <<m, "judge">>
        BY <1>8, <2>1, <2>3, <3>2, StepPhase DEF OrderIn
      <3>3. QED
        BY <3>1, <3>2
    <2>4. QED
      BY <2>2, <2>3 DEF OrderIn
  <1>12. RecIn(r, mem[r], files[r], w)
    <2>1. PlaceOf(p, mem[r])
      BY <1>3 DEF PlaceOf, InFlight, p
    <2>2. \A x \in Phases : Ran(w, x) => PlaceOf(x, mem[r])
      BY <1>8, <1>10, <2>1 DEF RecIn
    <2>3. QED
      BY <1>10, <2>2 DEF RecIn
  <1>13. RunInv(r)'
    BY <1>1, <1>4, <1>9, <1>11, <1>12 DEF RunInv, w
  <1>14. QED
    BY <1>6, <1>13

\* A worker stops, by itself or with a sentinel.
LEMMA OverKept ==
    ASSUME IInv, NEW r \in Runs, NEW p \in Phases, worker[r][p].proc = "working", Over(r, p)
    PROVE  /\ \A x \in Phases : Ran(worker'[r], x) <=> Ran(worker[r], x)
           /\ \A f : OrderIn(f, worker[r]) => OrderIn(f, worker'[r])
           /\ \A rec, f : RecIn(r, rec, f, worker[r]) => RecIn(r, rec, f, worker'[r])
           /\ WorkersIn(files[r], worker'[r])
  <1>1. /\ worker'[r][p].proc = "over"
        /\ \A x \in Phases : /\ worker'[r][x].launches = worker[r][x].launches
                             /\ x # p => worker'[r][x] = worker[r][x]
    BY OverType DEF IInv
  <1>2. \A x \in Phases : Ran(worker'[r], x) <=> Ran(worker[r], x)
    BY <1>1 DEF Ran
  <1>3. \A f : OrderIn(f, worker[r]) => OrderIn(f, worker'[r])
    BY <1>2, StepPhase DEF OrderIn
  <1>4. \A rec, f : RecIn(r, rec, f, worker[r]) => RecIn(r, rec, f, worker'[r])
    BY <1>2 DEF RecIn
  <1>5. WorkersIn(files[r], worker'[r])
    <2>1. WorkersIn(files[r], worker[r])
      BY DEF IInv, RunInv
    <2>2. QED
      BY <1>1, <2>1, StepPhase DEF WorkersIn
  <1>6. QED
    BY <1>2, <1>3, <1>4, <1>5

\* A judge's verdict and its sentinel appear together, and only once.
LEMMA ReportKept ==
    ASSUME IInv, NEW r \in Runs, NEW p \in Phases, NEW sentinel \in Sentinels, Report(r, p, sentinel)
    PROVE  RunInv(r)' /\ \A q \in Runs \ {r} : UNCHANGED <<files[q], verdict[q], worker[q]>>
  <1>1. /\ TypeOK /\ RunInv(r) /\ worker[r][p].proc = "working"
        /\ Line(r, p, sentinel) /\ Over(r, p) /\ sentinel \in TerminalHb
        /\ UNCHANGED <<runs, mem, dispatch, crashes>>
    BY PipelineAssumption DEF IInv, Report, Alive, tick
  <1>2. /\ FilesIn(r, files'[r], verdict[r]) /\ OrderIn(files'[r], worker[r])
        /\ RecIn(r, runs[r], files'[r], worker[r]) /\ RecIn(r, mem[r], files'[r], worker[r])
        /\ crashes = MaxCrashes => EntriesIn(runs[r], mem[r], files'[r])
    BY <1>1, LineKept
  <1>3. /\ \A x \in Phases : Ran(worker'[r], x) <=> Ran(worker[r], x)
        /\ OrderIn(files'[r], worker'[r])
        /\ RecIn(r, runs[r], files'[r], worker'[r]) /\ RecIn(r, mem[r], files'[r], worker'[r])
        /\ WorkersIn(files[r], worker'[r])
    BY <1>1, <1>2, OverKept
  <1>4. /\ files'[r].hb = [files[r].hb EXCEPT ![p] = AppendLine(files[r].hb[p], sentinel)]
        /\ files'[r].gate = files[r].gate /\ Grows(files[r], files'[r])
        /\ files[r].hb \in [Phases -> Heartbeat]
    <2>1. files[r] \in RunFiles
      BY <1>1, RunTypes
    <2>2. files[r].hb \in [Phases -> Heartbeat]
      BY <2>1, FilesType
    <2>3. sentinel \in {"beat"} \cup TerminalHb
      BY <1>1
    <2>4. /\ files'[r].hb = [files[r].hb EXCEPT ![p] = AppendLine(files[r].hb[p], sentinel)]
          /\ files'[r].gate = files[r].gate /\ Grows(files[r], files'[r])
      BY <1>1, <2>3, LineType
    <2>5. QED
      BY <2>2, <2>4
  <1>5. WorkersIn(files'[r], worker'[r])
    <2>1. worker'[r][p].proc = "over"
      BY <1>1, OverType
    <2>2. ASSUME NEW m \in Judged, files'[r].hb[<<m, "judge">>] \in TerminalHb
          PROVE  worker'[r][<<m, "judge">>].proc = "over"
      <3>1. <<m, "judge">> \in Phases
        BY StepPhase
      <3>2. CASE p = <<m, "judge">>
        BY <2>1, <3>2
      <3>3. CASE p # <<m, "judge">>
        BY <1>3, <1>4, <2>2, <3>1, <3>3 DEF WorkersIn
      <3>4. QED
        BY <3>2, <3>3
    <2>3. QED
      BY <1>3, <2>2 DEF WorkersIn
  <1>6. FilesIn(r, files'[r], verdict'[r]) /\ \A q \in Runs \ {r} : verdict'[q] = verdict[q]
    <2>1. CASE p[2] = "judge"
      <3>. DEFINE m == p[1]
      <3>1. p = <<m, "judge">> /\ m \in Judged /\ m \in 1..Steps
        BY <2>1, StepPhase DEF Phases
      <3>2. PICK outcome \in Outcomes[m] \cup {Stop} : verdict' = [verdict EXCEPT ![r][m] = outcome]
        BY <1>1, <2>1 DEF Report
      <3>3. outcome \in Forward(m)
        BY <3>1, <3>2, ForwardAssumption DEF Forward
      <3>4. /\ verdict'[r] = [verdict[r] EXCEPT ![m] = outcome]
            /\ \A q \in Runs \ {r} : verdict'[q] = verdict[q]
            /\ verdict[r] \in [1..Steps -> Stop..Steps + 1]
        BY <1>1, <3>2 DEF TypeOK
      <3>5. files[r].hb[p] \notin TerminalHb
        BY <1>1, <3>1 DEF RunInv, WorkersIn
      <3>6. ~(files'[r].gate[m] > Stop)
        BY <1>1, <1>4, <3>1, <3>5 DEF RunInv, FilesIn, JudgedIn, TerminalHb
      <3>. HIDE DEF m
      <3>7. JudgedIn(files'[r], verdict'[r])
        BY <1>2, <3>4, <3>6, StepPhase DEF FilesIn, JudgedIn
      <3>8. \A n \in Judged : verdict'[r][n] \in Forward(n)
        BY <1>2, <3>3, <3>4, StepPhase DEF FilesIn
      <3>9. QED
        BY <1>2, <3>4, <3>7, <3>8 DEF FilesIn
    <2>2. CASE p[2] # "judge"
      BY <1>1, <1>2, <2>2 DEF Report
    <2>3. QED
      BY <2>1, <2>2
  <1>7. RunInv(r)'
    <2>1. Watched(mem[r]) \in Phases
      BY <1>1, RunTypes, WatchedType
    <2>2. r \in dispatch => mem[r].state = "claimed" /\ ~Ran(worker'[r], Watched(mem[r]))
      BY <1>1, <1>3, <2>1 DEF RunInv
    <2>3. QED
      BY <1>1, <1>2, <1>3, <1>5, <1>6, <2>2 DEF RunInv
  <1>8. \A q \in Runs \ {r} : files'[q] = files[q] /\ worker'[q] = worker[q]
    BY <1>1, LineType, OverType
  <1>9. QED
    BY <1>6, <1>7, <1>8

LEMMA WorkerKept ==
    ASSUME IInv, NEW r \in Runs, NEW p \in Phases, WorkerStep(r, p)
    PROVE  \A q \in Runs : RunInv(q)'
  <1>1. /\ TypeOK /\ crashes \in Nat /\ crashes <= MaxCrashes
        /\ \A q \in Runs : RunInv(q) /\ runs[q].step \in Nat
    BY RunTypes DEF IInv, ControlInv, TypeOK
  <1>2. UNCHANGED <<runs, mem, dispatch, crashes>>
    BY DEF WorkerStep, Beat, Report, FallSilent, tick
  <1>3. RunInv(r)' /\ \A q \in Runs \ {r} : UNCHANGED <<files[q], verdict[q], worker[q]>>
    <2>1. CASE Beat(r, p)
      <3>1. Line(r, p, "beat") /\ verdict' = verdict /\ worker' = worker
        BY <2>1 DEF Beat
      <3>2. /\ FilesIn(r, files'[r], verdict[r]) /\ OrderIn(files'[r], worker[r])
            /\ RecIn(r, runs[r], files'[r], worker[r]) /\ RecIn(r, mem[r], files'[r], worker[r])
            /\ WorkersIn(files'[r], worker[r])
            /\ crashes = MaxCrashes => EntriesIn(runs[r], mem[r], files'[r])
        BY <3>1, LineKept
      <3>3. \A q \in Runs \ {r} : files'[q] = files[q]
        BY <1>1, <3>1, LineType
      <3>4. RunInv(r)'
        BY <1>1, <1>2, <3>1, <3>2 DEF RunInv
      <3>5. QED
        BY <3>1, <3>3, <3>4
    <2>2. CASE FallSilent(r, p)
      <3>1. worker[r][p].proc = "working" /\ Over(r, p) /\ UNCHANGED <<files, verdict>>
        BY <2>2 DEF FallSilent, Alive
      <3>2. /\ \A x \in Phases : Ran(worker'[r], x) <=> Ran(worker[r], x)
            /\ OrderIn(files[r], worker'[r]) /\ WorkersIn(files[r], worker'[r])
            /\ RecIn(r, runs[r], files[r], worker'[r]) /\ RecIn(r, mem[r], files[r], worker'[r])
        BY <1>1, <3>1, OverKept DEF RunInv
      <3>3. Watched(mem[r]) \in Phases
        BY <1>1, RunTypes, WatchedType
      <3>4. r \in dispatch => mem[r].state = "claimed" /\ ~Ran(worker'[r], Watched(mem[r]))
        BY <1>1, <3>2, <3>3 DEF RunInv
      <3>5. RunInv(r)'
        BY <1>1, <1>2, <3>1, <3>2, <3>4 DEF RunInv
      <3>6. QED
        BY <1>1, <3>1, <3>5, OverType
    <2>3. CASE \E sentinel \in Sentinels : Report(r, p, sentinel)
      BY <2>3, ReportKept
    <2>4. QED
      BY <2>1, <2>2, <2>3 DEF WorkerStep
  <1>4. ASSUME NEW q \in Runs \ {r} PROVE RunInv(q)'
    BY <1>1, <1>2, <1>3, Untouched DEF Alike
  <1>5. QED
    BY <1>3, <1>4

LEMMA ControlKept ==
    ASSUME IInv, [Next]_vars, \A r \in Runs : ~Advances(r)
    PROVE  ControlInv'
  <1>1. ControlInv /\ TypeOK
    BY DEF IInv
  <1>2. CASE Begin \/ Persist
    BY <1>1, <1>2 DEF Begin, Persist, ControlInv
  <1>3. ASSUME NEW r \in Runs, PassOver(r) \/ Claim(r) PROVE ControlInv'
    <2>1. MoveOn /\ pc = "dispatch" /\ crashes' = crashes
      BY <1>3 DEF PassOver, Claim
    <2>2. pc' \in {"dispatch", "persist"}
      BY <1>1, <2>1, MoveOnType
    <2>3. QED
      BY <1>1, <2>1, <2>2 DEF ControlInv
  <1>4. ASSUME NEW r \in Runs, Launch(r) \/ Lose(r) \/ SpawnFails(r) PROVE ControlInv'
    <2>1. Handled(r) /\ pc = "spawn"
      BY <1>4 DEF Launch, Lose, SpawnFails, NextToSpawn
    <2>2. QED
      BY <1>1, <2>1 DEF Handled, ControlInv
  <1>5. CASE Crash
    <2>1. mem' = runs /\ runs' = runs /\ dispatch' = {} /\ crashes' = crashes - 1 /\ crashes \in Nat
      BY <1>1, <1>5, DieType DEF Crash, TypeOK
    <2>2. QED
      BY <1>1, <2>1, PipelineAssumption DEF ControlInv
  <1>6. CASE Pass
    BY <1>1, <1>6, PassType DEF ControlInv, Pass
  <1>7. ASSUME NEW r \in Runs, NEW p \in Phases, WorkerStep(r, p) PROVE ControlInv'
    BY <1>1, <1>7 DEF WorkerStep, Beat, Report, FallSilent, tick, ControlInv
  <1>8. CASE UNCHANGED vars
    BY <1>1, <1>8 DEF vars, tick, ControlInv
  <1>9. QED
    BY <1>2, <1>3, <1>4, <1>5, <1>6, <1>7, <1>8 DEF Next, TickStep, Advances

LEMMA NextInv ==
    ASSUME IInv, [Next]_vars
    PROVE  IInv'
  <1>1. TypeOK' /\ TypeOK
    BY InvLegal, NextType DEF IInv
  <1>2. CASE \E r \in Runs : Advances(r)
    <2>1. PICK r \in Runs : Advances(r)
      BY <1>2
    <2>2. QED
      BY <1>1, <2>1, InvLegal, Advancing, TurnedKept DEF IInv
  <1>3. CASE \A r \in Runs : ~Advances(r)
    <2>1. ControlInv'
      BY <1>3, ControlKept
    <2>2. \A r \in Runs : RunInv(r)'
      <3>1. CASE Begin \/ Crash \/ Pass \/ (\E r \in Runs : PassOver(r) \/ Lose(r)) \/ UNCHANGED vars
        BY <3>1, QuietKept
      <3>2. CASE Persist
        BY <3>2, PersistKept
      <3>3. ASSUME NEW r \in Runs, Claim(r) \/ Launch(r) \/ SpawnFails(r)
            PROVE  \A q \in Runs : RunInv(q)'
        BY <3>3, ClaimKept, LaunchKept, SpawnFailsKept
      <3>4. ASSUME NEW r \in Runs, NEW p \in Phases, WorkerStep(r, p)
            PROVE  \A q \in Runs : RunInv(q)'
        BY <3>4, WorkerKept
      <3>5. QED
        BY <1>3, <3>1, <3>2, <3>3, <3>4 DEF Next, TickStep, Advances
    <2>3. QED
      BY <1>1, <2>1, <2>2 DEF IInv
  <1>4. QED
    BY <1>2, <1>3

LEMMA Invariance == Spec => []IInv
  <1>1. Init => IInv
    BY InitInv
  <1>2. IInv /\ [Next]_vars => IInv'
    BY NextInv
  <1>3. QED
    BY <1>1, <1>2, PTL DEF Spec
------------------------------------------------------------------------------
(* The theorems *)

\* Types, whatever the crashes and the silent workers.
THEOREM PipelineTypeCorrect == Spec => []TypeOK
  <1>1. IInv => TypeOK
    BY DEF IInv
  <1>2. QED
    BY <1>1, Invariance, PTL

\* A step starts only when each step before it is completed and let the run pass, or
\* was skipped; a judge starts only on a completed step.
THEOREM StepsGoInOrder == Spec => []StepsInOrder
  <1>1. ASSUME IInv PROVE StepsInOrder
    <2>. SUFFICES ASSUME NEW r \in Runs
                  PROVE  /\ \A m \in 1..Steps : Launched(r, <<m, "step">>) =>
                               \A s \in 1..m - 1 :
                                  \/ Completed(r, s) /\ (s \in Gated => files[r].gate[s] \in s + 1 .. m)
                                  \/ Skipped(r, s)
                         /\ \A m \in Judged : Launched(r, <<m, "judge">>) => Completed(r, m)
      BY DEF StepsInOrder
    <2>1. OrderIn(files[r], worker[r])
      BY <1>1 DEF IInv, RunInv
    <2>2. QED
      BY <2>1 DEF OrderIn, Ran, Launched, PassedIn, CompletedIn, SkippedIn, Completed, Skipped
  <1>2. QED
    BY <1>1, Invariance, PTL

\* Wherever a tick dies, no step and no judge has a second worker.
THEOREM StepsRunOnce == Spec => []NothingRunsTwice
  <1>1. IInv => NothingRunsTwice
    BY DEF IInv, RunInv, WorkersIn, NothingRunsTwice
  <1>2. QED
    BY <1>1, Invariance, PTL

\* Beyond a judged step, a run went only on the verdict its judge completed with.
THEOREM JudgesFailClosed == Spec => []FailClosed
  <1>1. IInv => FailClosed
    BY DEF IInv, RunInv, FilesIn, JudgedIn, FailClosed
  <1>2. QED
    BY <1>1, Invariance, PTL

\* The entry result of a run that is over is there and is true of its steps, and
\* without a crash it is the one its state stands for.
THEOREM EntryResultsAreTrue == Spec => []EntryResultIsTrue
  <1>1. ASSUME IInv PROVE EntryResultIsTrue
    <2>. SUFFICES ASSUME NEW r \in Runs
                  PROVE  /\ runs[r].state \in Terminal => files[r].entry # "none"
                         /\ runs[r].state = "completed" \/ files[r].entry = "COMPLETED" =>
                               \A m \in 1..Length[r] : Completed(r, m) \/ Skipped(r, m)
                         /\ crashes = MaxCrashes /\ runs[r].state \in Terminal =>
                               CASE runs[r].state = "completed" -> files[r].entry = "COMPLETED"
                                 [] runs[r].state = "abandoned" -> files[r].entry = "ABANDONED"
                                 [] OTHER -> files[r].entry = "FAILED"
      BY DEF EntryResultIsTrue
    <2>1. RunInv(r)
      BY <1>1 DEF IInv
    <2>2. RecIn(r, runs[r], files[r], worker[r])
      BY <2>1 DEF RunInv
    <2>3. runs[r].state \in Terminal => files[r].entry # "none"
      BY <2>2 DEF RecIn
    <2>4. runs[r].state = "completed" \/ files[r].entry = "COMPLETED" => OverIn(r, files[r])
      BY <2>1, <2>2 DEF RunInv, FilesIn, RecIn
    <2>5. OverIn(r, files[r]) => \A m \in 1..Length[r] : Completed(r, m) \/ Skipped(r, m)
      BY DEF OverIn, CompletedIn, SkippedIn, Completed, Skipped
    <2>6. crashes = MaxCrashes /\ runs[r].state \in Terminal => files[r].entry = EntryOf(runs[r].state)
      BY <2>1 DEF RunInv, EntriesIn
    <2>7. QED
      BY <2>3, <2>4, <2>5, <2>6 DEF EntryOf
  <1>2. QED
    BY <1>1, Invariance, PTL
------------------------------------------------------------------------------
(* Slots *)

Held(rs) == {r \in Runs : rs[r].started /\ rs[r].state \notin Terminal}

\* A slot is counted when dispatch begins and taken before it is used.
PoolInv ==
    /\ Cardinality(Held(runs)) <= PoolSize
    /\ pc \in {"idle", "advance"} => Held(mem) \subseteq Held(runs)
    /\ pc = "dispatch" => inflight = Cardinality(Held(mem)) /\ inflight <= PoolSize
    /\ pc \in {"persist", "spawn"} => Cardinality(Held(mem)) <= PoolSize

LEMMA HeldFinite ==
    \A rs : IsFiniteSet(Held(rs)) /\ Cardinality(Held(rs)) \in Nat
  BY FiniteRuns DEF Held

LEMMA HeldSmaller ==
    ASSUME NEW a, NEW b, Held(a) \subseteq Held(b)
    PROVE  Cardinality(Held(a)) <= Cardinality(Held(b))
  BY HeldFinite, FS_Subset

LEMMA HeldIsHeld ==
    ASSUME IInv'
    PROVE  {r \in Runs : HoldsSlot(mem'[r])} = Held(mem')
  <1>1. \A r \in Runs : mem'[r].state \in InFlight => mem'[r].started
    BY DEF IInv, RunInv, RecIn
  <1>2. QED
    BY <1>1, StatesType DEF HoldsSlot, Held

\* Slots are counted once all runs are advanced, and the count is kept until then.
LEMMA PoolMove ==
    ASSUME IInv, IInv', PoolInv, pc = "advance", MoveOn, CountPool, runs' = runs,
           Held(mem') \subseteq Held(mem)
    PROVE  PoolInv'
  <1>1. /\ Cardinality(Held(runs)) <= PoolSize /\ Held(mem') \subseteq Held(runs)
        /\ PoolSize \in Nat
    BY PipelineAssumption DEF PoolInv
  <1>2. Cardinality(Held(mem')) <= PoolSize
    BY <1>1, HeldSmaller, HeldFinite
  <1>3. pc' \in {"advance", "dispatch"}
    BY DEF MoveOn
  <1>4. pc' = "dispatch" => cur = NumRuns
    <2>1. cur \in 1..NumRuns /\ NumRuns \in Nat
      BY PipelineAssumption DEF IInv, TypeOK, Runs
    <2>2. QED
      BY <2>1 DEF MoveOn
  <1>5. pc' = "dispatch" => inflight' = Cardinality(Held(mem'))
    BY <1>4, HeldIsHeld DEF CountPool
  <1>6. QED
    BY <1>1, <1>2, <1>3, <1>5 DEF PoolInv

LEMMA PoolDie ==
    ASSUME PoolInv, Die, runs' = runs
    PROVE  PoolInv'
  BY DEF PoolInv, Die

LEMMA PoolKept ==
    ASSUME IInv, IInv', PoolInv, [Next]_vars
    PROVE  PoolInv'
  <1>1. TypeOK /\ ControlInv /\ PoolSize \in Nat
    BY PipelineAssumption DEF IInv
  <1>2. CASE Begin
    BY <1>1, <1>2 DEF Begin, PoolInv
  <1>3. CASE Persist
    <2>1. pc' \in {"idle", "spawn"} /\ runs' = mem /\ mem' = mem /\ Cardinality(Held(mem)) <= PoolSize
      BY <1>3 DEF Persist, PoolInv
    <2>2. QED
      BY <2>1 DEF PoolInv
  <1>4. ASSUME NEW r \in Runs, Advances(r) PROVE PoolInv'
    <2>1. Turned(r) /\ pc = "advance"
      BY <1>1, <1>4, InvLegal, Advancing DEF IInv
    <2>2. PICK g \in Writes(r, verdict[r], files[r]) :
             /\ \/ Die
                \/ \E rec \in RunRecord :
                      /\ Turn(r, g, rec) /\ mem' = [mem EXCEPT ![r] = rec] /\ MoveOn /\ CountPool
             /\ runs' = runs
      BY <2>1 DEF Turned
    <2>3. CASE Die
      BY <2>2, <2>3, PoolDie
    <2>4. ASSUME NEW rec \in RunRecord, Turn(r, g, rec), mem' = [mem EXCEPT ![r] = rec], MoveOn, CountPool
          PROVE  PoolInv'
      <3>1. rec.started = mem[r].started /\ (mem[r].state \in Terminal => rec.state \in Terminal)
        BY <2>4, StatesType DEF Turn
      <3>2. Held(mem') \subseteq Held(mem)
        BY <1>1, <2>4, <3>1 DEF Held, TypeOK
      <3>3. QED
        BY <2>1, <2>2, <2>4, <3>2, PoolMove
    <2>5. QED
      BY <2>2, <2>3, <2>4
  <1>5. ASSUME NEW r \in Runs, PassOver(r) PROVE PoolInv'
    <2>1. pc = "dispatch" /\ pc' \in {"dispatch", "persist"} /\ UNCHANGED <<runs, mem, inflight>>
      BY <1>1, <1>5, MoveOnType DEF PassOver
    <2>2. QED
      BY <2>1 DEF PoolInv
  <1>6. ASSUME NEW r \in Runs, Claim(r) PROVE PoolInv'
    <2>1. /\ pc = "dispatch" /\ MoveOn /\ runs' = runs /\ mem[r].state = "queued"
          /\ mem[r].started \/ inflight < PoolSize
          /\ inflight' = IF mem[r].started THEN inflight ELSE inflight + 1
      BY <1>6 DEF Claim, MayGo
    <2>2. pc' \in {"dispatch", "persist"}
      BY <1>1, <2>1, MoveOnType
    <2>3. mem' = [mem EXCEPT ![r] = mem'[r]] /\ mem'[r].state = "claimed" /\ mem'[r].started
      BY <1>1, <1>6, ClaimType
    <2>4. Held(mem') = Held(mem) \cup {r} /\ (r \in Held(mem) <=> mem[r].started)
      <3>1. "claimed" \notin Terminal /\ "queued" \notin Terminal
        BY DEF Terminal
      <3>2. \A q \in Runs \ {r} : mem'[q] = mem[q]
        BY <1>1, <2>3 DEF TypeOK
      <3>3. QED
        BY <2>1, <2>3, <3>1, <3>2 DEF Held
    <2>5. Cardinality(Held(mem')) = IF mem[r].started THEN Cardinality(Held(mem))
                                                      ELSE Cardinality(Held(mem)) + 1
      BY <2>4, HeldFinite, FS_AddElement
    <2>6. inflight = Cardinality(Held(mem)) /\ inflight <= PoolSize /\ Cardinality(Held(mem)) \in Nat
      BY <2>1, HeldFinite DEF PoolInv
    <2>7. inflight' = Cardinality(Held(mem')) /\ inflight' <= PoolSize
      BY <1>1, <2>1, <2>5, <2>6
    <2>8. QED
      BY <2>1, <2>2, <2>7 DEF PoolInv
  <1>7. ASSUME NEW r \in Runs, Launch(r) \/ Lose(r) \/ SpawnFails(r) PROVE PoolInv'
    <2>1. Handled(r) /\ pc = "spawn"
      BY <1>7 DEF Launch, Lose, SpawnFails, NextToSpawn
    <2>2. QED
      BY <1>1, <2>1 DEF Handled, ControlInv, PoolInv
  <1>8. CASE Crash
    BY <1>8, PoolDie DEF Crash
  <1>9. CASE Pass
    <2>1. /\ mem' = runs' /\ pc = "idle" /\ pc' = pc
          /\ \A r \in Runs : runs'[r].state = runs[r].state /\ runs'[r].started = runs[r].started
      BY <1>1, <1>9, PassType DEF Pass
    <2>2. Held(runs') = Held(runs)
      BY <2>1 DEF Held
    <2>3. QED
      BY <2>1, <2>2 DEF PoolInv
  <1>10. ASSUME NEW r \in Runs, NEW p \in Phases, WorkerStep(r, p) PROVE PoolInv'
    BY <1>10 DEF WorkerStep, Beat, Report, FallSilent, tick, PoolInv
  <1>11. CASE UNCHANGED vars
    BY <1>11 DEF vars, tick, PoolInv
  <1>12. QED
    BY <1>2, <1>3, <1>4, <1>5, <1>6, <1>7, <1>8, <1>9, <1>10, <1>11 DEF Next, TickStep, Advances

\* A run keeps its slot from its first step to its end, between its steps and across
\* crashes, and the pool never holds more of them than it has slots.
THEOREM PoolNeverOverfull == Spec => []SlotsAreKept
  <1>1. ASSUME Init PROVE PoolInv
    <2>1. Held(runs) = {} /\ Held(mem) = {} /\ pc = "idle"
      BY <1>1 DEF Init, Held
    <2>2. QED
      BY <2>1, FS_EmptySet, PipelineAssumption DEF PoolInv
  <1>2. IInv /\ IInv' /\ PoolInv /\ [Next]_vars => PoolInv'
    BY PoolKept
  <1>3. PoolInv => SlotsAreKept
    BY DEF PoolInv, SlotsAreKept, Held
  <1>4. QED
    BY <1>1, <1>2, <1>3, Invariance, PTL DEF Spec
=============================================================================
