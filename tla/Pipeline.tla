------------------------------- MODULE Pipeline -------------------------------
(***************************************************************************)
(* Multi-step jobs: the steps of a run are dispatched one after the other, *)
(* each with a heartbeat and a result of its own, and the run keeps its    *)
(* pool slot until it ends.  After a step that completed, a gate decides   *)
(* where the run goes: a command whose exit code is looked up, or a judge, *)
(* a subagent of its own whose verdict is read from its heartbeat.  The    *)
(* outcome is kept in gate.json.                                           *)
(*                                                                         *)
(* An outcome is the step the run goes on at: halt and internal_error are  *)
(* Stop, continue and behavior-flag the next step, skip-to-next a later    *)
(* one, and a number beyond the last step the end of the job.              *)
(*                                                                         *)
(* On disk: runs (harness_status.json), files.  A crash of the tick loses: *)
(* mem, pc, cur, inflight, dispatch.                                       *)
(*                                                                         *)
(* Simplifications, beside those of TickEngine: no controls, no done_check *)
(* and no clock jump; no step runs in log mode, whose adapter alone puts a *)
(* PID into the lock of a step; when the output of a silent step is found  *)
(* stale is a free choice, and never where it cannot be measured.          *)
(***************************************************************************)
EXTENDS RunStates, Sequences, FiniteSets

CONSTANTS
    NumRuns,
    Steps,      \* the most steps a job has
    Length,     \* [Runs -> 1..Steps]: the steps of each job
    Shell,      \* the steps the ticker spawns; the others are subagents
    Gated,      \* the steps that have a gate
    Judged,     \* the gated steps whose gate is a judge
    Measurable, \* the runs whose output area exists and holds files
    Outcomes,   \* [1..Steps -> set of outcomes]: what each gate may say
    PoolSize,
    Sentinels,  \* the terminal sentinels workers may write
    Stall, ReclaimAfter, Grace, HardCap, AgeCap,  \* thresholds
    MaxCrashes

Runs == 1..NumRuns
Stop == 0

ASSUME PipelineAssumption ==
    /\ NumRuns \in Nat \ {0} /\ Steps \in Nat \ {0} /\ PoolSize \in Nat \ {0}
    /\ Length \in [Runs -> 1..Steps]
    /\ Shell \subseteq 1..Steps /\ Gated \subseteq 1..Steps /\ Judged \subseteq Gated
    /\ Measurable \subseteq Runs
    /\ Sentinels \subseteq TerminalHb /\ MaxCrashes \in Nat

\* The plan's skips go forward (check_plan does not insist on it).
ASSUME ForwardAssumption ==
    \A m \in 1..Steps : Outcomes[m] \subseteq {Stop} \cup m + 1 .. Steps + 1

ASSUME AgeAssumption ==
    /\ Stall \in Nat /\ ReclaimAfter \in Nat /\ Grace \in Nat /\ HardCap \in Nat /\ AgeCap \in Nat
    /\ Stall < AgeCap /\ ReclaimAfter < AgeCap /\ Grace < AgeCap /\ HardCap < AgeCap

VARIABLES
    runs,      \* harness_status.json
    mem,       \* the copy the running tick mutates
    files,     \* per run: heartbeats, step results, gate.json files, entry result
    age,       \* per run: age of the last line of the heartbeat that is watched
    verdict,   \* per run and step: the outcome in the judge's COMPLETED line
    worker,    \* per run and phase: the process and how often it was launched
    pc, cur, inflight, dispatch,
    crashes

tick == <<mem, pc, cur, inflight, dispatch>>
vars == <<runs, files, age, verdict, worker, tick, crashes>>
------------------------------------------------------------------------------
\* A run has one worker at a time: that of a step or that of its judge.
Phases == ((1..Steps) \X {"step"}) \cup (Judged \X {"judge"})

NoOutcome == -1

RunRecord == [state: RunState, step: 1..Steps, judging: BOOLEAN, started: BOOLEAN,
              claimAge: 0..AgeCap]

StepResult == {"none", "SKIPPED"} \cup TerminalHb

RunFiles == [hb: [Phases -> Heartbeat], result: [1..Steps -> StepResult],
             gate: [1..Steps -> NoOutcome..Steps + 1], entry: {"none"} \cup TerminalHb]

TypeOK ==
    /\ runs \in [Runs -> RunRecord] /\ mem \in [Runs -> RunRecord]
    /\ files \in [Runs -> RunFiles]
    /\ age \in [Runs -> 0..AgeCap]
    /\ verdict \in [Runs -> [1..Steps -> Stop..Steps + 1]]
    /\ worker \in [Runs -> [Phases -> [proc: {"none", "working", "over"}, launches: Nat]]]
    /\ pc \in {"idle", "advance", "dispatch", "persist", "spawn"}
    /\ cur \in Runs /\ inflight \in Nat /\ dispatch \subseteq Runs /\ crashes \in Nat
    /\ \A r \in Runs : \A rec \in {runs[r], mem[r]} :
          rec.step <= Length[r] /\ (rec.judging => rec.step \in Judged)

Init ==
    /\ runs = [r \in Runs |-> [state |-> "queued", step |-> 1, judging |-> FALSE,
                               started |-> FALSE, claimAge |-> 0]]
    /\ mem = runs
    /\ files = [r \in Runs |-> [hb |-> [p \in Phases |-> "none"],
                                result |-> [m \in 1..Steps |-> "none"],
                                gate |-> [m \in 1..Steps |-> NoOutcome],
                                entry |-> "none"]]
    /\ age = [r \in Runs |-> 0]
    /\ verdict = [r \in Runs |-> [m \in 1..Steps |-> Stop]]
    /\ worker = [r \in Runs |-> [p \in Phases |-> [proc |-> "none", launches |-> 0]]]
    /\ pc = "idle" /\ cur = 1 /\ inflight = 0 /\ dispatch = {}
    /\ crashes = MaxCrashes
------------------------------------------------------------------------------
(* What a step of the tick writes, as the trail of contents of a run's files *)

Final(trail) == trail[Len(trail)]

\* Step results and the entry result are written once and never again.
Reaped(f, m, sentinel) ==
    IF f.result[m] = "none" THEN [f EXCEPT !.result[m] = sentinel] ELSE f

Ended(f, sentinel) == IF f.entry = "none" THEN [f EXCEPT !.entry = sentinel] ELSE f

\* Mutant: the steps that are skipped get no result.
SkippedSilently(f, m, last) == f

SkippedTo(f, m, last) ==
    [f EXCEPT !.result = [s \in 1..Steps |-> IF s \in m + 1 .. last THEN "SKIPPED" ELSE @[s]]]

\* Mutant: the entry gets no result of its own.
FailureOfStep(f, m, sentinel, entry) == <<f, Reaped(f, m, sentinel)>>

\* Step m failed: its result, then the entry's.
Failure(f, m, sentinel, entry) ==
    <<f, Reaped(f, m, sentinel), Ended(Reaped(f, m, sentinel), entry)>>

\* From step m to the outcome: a result for every step in between, then the
\* entry's if this ends the job.
Way(r, f, m, outcome) ==
    IF outcome = Stop THEN <<f, Ended(f, "FAILED")>>
    ELSE LET dest == IF outcome > Length[r] THEN Length[r] + 1 ELSE outcome
             skipping == [k \in 1 .. dest - m |-> SkippedTo(f, m, m + k - 1)]
         IN  IF dest > Length[r]
             THEN Append(skipping, Ended(Final(skipping), "COMPLETED"))
             ELSE skipping

Become(r, state) == [mem[r] EXCEPT !.state = state, !.claimAge = 0]

\* Mutant: the step index stays where it was.
WentNowhere(r, outcome) ==
    IF outcome = Stop THEN [Become(r, "failed") EXCEPT !.judging = FALSE]
    ELSE IF outcome > Length[r] THEN [Become(r, "completed") EXCEPT !.judging = FALSE]
    ELSE [Become(r, "queued") EXCEPT !.judging = FALSE]

\* Mutant: the run goes on after its last step.
WentPastTheEnd(r, outcome) ==
    IF outcome = Stop THEN [Become(r, "failed") EXCEPT !.judging = FALSE]
    ELSE [Become(r, "queued") EXCEPT !.judging = FALSE, !.step = outcome]

Went(r, outcome) ==
    IF outcome = Stop THEN [Become(r, "failed") EXCEPT !.judging = FALSE]
    ELSE IF outcome > Length[r] THEN [Become(r, "completed") EXCEPT !.judging = FALSE]
    ELSE [Become(r, "queued") EXCEPT !.judging = FALSE, !.step = outcome]
------------------------------------------------------------------------------
(* One tick: every run is advanced, then dispatched, in the order of names *)

\* Mutant: a run between two steps holds no slot.
HoldsSlotInFlight(rec) == rec.state \in InFlight

HoldsSlot(rec) == rec.state \in InFlight \/ (rec.started /\ rec.state \notin Terminal)

MoveOn ==
    /\ cur' = IF cur = NumRuns THEN 1 ELSE cur + 1
    /\ pc' = IF cur < NumRuns THEN pc ELSE IF pc = "advance" THEN "dispatch" ELSE "persist"

\* The pool is counted when dispatch begins.
CountPool ==
    inflight' = IF cur = NumRuns /\ pc = "advance"
                THEN Cardinality({r \in Runs : HoldsSlot(mem'[r])}) ELSE inflight

Die ==
    /\ crashes > 0 /\ crashes' = crashes - 1
    /\ mem' = runs /\ pc' = "idle" /\ cur' = 1 /\ inflight' = 0 /\ dispatch' = {}

Begin ==
    /\ pc = "idle" /\ pc' = "advance" /\ cur' = 1
    /\ UNCHANGED <<runs, files, age, verdict, worker, mem, inflight, dispatch, crashes>>

\* The run's files go through trail, its record becomes rec; or the process dies.
Perform(r, trail, rec) ==
    /\ \/ /\ files' = [files EXCEPT ![r] = Final(trail)]
          /\ mem' = [mem EXCEPT ![r] = rec]
          /\ MoveOn /\ CountPool
          /\ UNCHANGED <<dispatch, crashes>>
       \/ \E k \in 1..Len(trail) : files' = [files EXCEPT ![r] = trail[k]] /\ Die
    /\ UNCHANGED <<runs, age, verdict, worker>>

Watched(rec) == <<rec.step, IF rec.judging THEN "judge" ELSE "step">>

Heard(r) == files[r].hb[Watched(mem[r])]

\* The step that is under way, or the judge, is looked at.
AtStep(r)  == pc = "advance" /\ r = cur /\ ~mem[r].judging
                  /\ mem[r].state \notin Terminal \cup {"queued"}
AtJudge(r) == pc = "advance" /\ r = cur /\ mem[r].judging /\ mem[r].state \notin Terminal

StepFails(r) ==
    /\ AtStep(r) /\ Heard(r) \in {"FAILED", "ABANDONED"}
    /\ Perform(r, Failure(files[r], mem[r].step, Heard(r), "FAILED"), Become(r, "failed"))

AwaitsJudge(r) == mem[r].step \in Judged /\ files[r].gate[mem[r].step] = NoOutcome

\* What the gate may say, and what is on disk once it has said it.  A verdict
\* that is there already is read and not asked for again.
Say(r) ==
    LET m == mem[r].step
        said == files[r].gate[m]
    IN  IF m \notin Gated THEN {m + 1} ELSE IF said # NoOutcome THEN {said} ELSE Outcomes[m]

WithGate(f, m, outcome) == IF m \in Gated THEN [f EXCEPT !.gate[m] = outcome] ELSE f

StepCompletes(r) ==
    /\ AtStep(r) /\ Heard(r) = "COMPLETED" /\ ~AwaitsJudge(r)
    /\ LET m == mem[r].step
           reaped == Reaped(files[r], m, "COMPLETED")
       IN  \E outcome \in Say(r) :
              Perform(r, <<files[r], reaped>> \o Way(r, WithGate(reaped, m, outcome), m, outcome),
                      Went(r, outcome))

\* The judge is dispatched next, and heard on a later tick.
AskJudge(r) ==
    /\ AtStep(r) /\ Heard(r) = "COMPLETED" /\ AwaitsJudge(r)
    /\ Perform(r, <<files[r], Reaped(files[r], mem[r].step, "COMPLETED")>>,
               [Become(r, "queued") EXCEPT !.judging = TRUE])

\* _finish: the verdict is written to gate.json, whatever is there, and obeyed.
Obey(r, outcome) ==
    LET m == mem[r].step
    IN  Perform(r, <<files[r]>> \o Way(r, WithGate(files[r], m, outcome), m, outcome),
                Went(r, outcome))

\* Mutant: the verdict of a judge that failed is taken.
VerdictOfAny(r) == verdict[r][mem[r].step]

VerdictOf(r) == IF Heard(r) = "COMPLETED" THEN verdict[r][mem[r].step] ELSE Stop

JudgeAnswers(r) == AtJudge(r) /\ Heard(r) \in TerminalHb /\ Obey(r, VerdictOf(r))

ClaimOlderThan(r, limit) ==
    mem[r].state = "claimed" /\ Heard(r) = "none" /\ mem[r].claimAge > limit

JudgeGivenUp(r) == AtJudge(r) /\ ClaimOlderThan(r, HardCap) /\ Obey(r, Stop)

\* Mutant: a subagent is never given up.
LaunchLimitShellOnly(m) == IF m \in Shell THEN Grace ELSE AgeCap

LaunchLimit(m) == IF m \in Shell THEN Grace ELSE HardCap

LaunchFails(r) ==
    /\ AtStep(r) /\ ClaimOlderThan(r, LaunchLimit(mem[r].step))
    /\ Perform(r, Failure(files[r], mem[r].step, "FAILED", "FAILED"),
               Become(r, "auth_or_launch_failed"))

Quiet(r) == Heard(r) = "beat" /\ age[r] > Stall

\* A silent step whose output is stale as well; there is no such end for a judge, nor
\* for a step whose output cannot be measured.
Reclaim(r) ==
    /\ AtStep(r) /\ Quiet(r) /\ age[r] > ReclaimAfter /\ r \in Measurable
    /\ Perform(r, Failure(files[r], mem[r].step, "ABANDONED", "ABANDONED"), Become(r, "abandoned"))

MarkStalled(r) ==
    /\ AtStep(r) \/ AtJudge(r)
    /\ Quiet(r)
    /\ Perform(r, <<files[r]>>, Become(r, "stalled"))

MarkRunning(r) ==
    /\ AtStep(r) \/ AtJudge(r)
    /\ Heard(r) = "beat" /\ ~Quiet(r) /\ mem[r].state \in {"claimed", "stalled"}
    /\ Perform(r, <<files[r]>>, Become(r, "running"))

LeaveAlone(r) ==
    /\ pc = "advance" /\ r = cur
    /\ \/ mem[r].state \in Terminal
       \/ mem[r].state = "queued" /\ ~mem[r].judging
       \/ AtStep(r) /\ Heard(r) = "none" /\ ~ClaimOlderThan(r, LaunchLimit(mem[r].step))
       \/ AtJudge(r) /\ Heard(r) = "none" /\ ~ClaimOlderThan(r, HardCap)
       \/ /\ AtStep(r) \/ AtJudge(r)
          /\ Heard(r) = "beat" /\ ~Quiet(r) /\ mem[r].state \notin {"claimed", "stalled"}
    /\ Perform(r, <<files[r]>>, mem[r])
------------------------------------------------------------------------------
(* _dispatch, _dispatch_step, _dispatch_judge *)

MayGo(r) == mem[r].state = "queued" /\ (mem[r].started \/ inflight < PoolSize)

PassOver(r) ==
    /\ pc = "dispatch" /\ r = cur /\ ~MayGo(r)
    /\ MoveOn
    /\ UNCHANGED <<runs, files, age, verdict, worker, mem, inflight, dispatch, crashes>>

Subagent(p) == p[2] = "judge" \/ p[1] \notin Shell

Line(r, p, line) == files' = [files EXCEPT ![r].hb[p] = AppendLine(@, line)]
                    /\ age' = [age EXCEPT ![r] = 0]

\* The engine writes STARTING for a subagent, unless the write silently fails.
Claim(r) ==
    /\ pc = "dispatch" /\ r = cur /\ MayGo(r)
    /\ mem' = [mem EXCEPT ![r] = [Become(r, "claimed") EXCEPT !.started = TRUE]]
    /\ inflight' = IF mem[r].started THEN inflight ELSE inflight + 1
    /\ dispatch' = dispatch \cup {r}
    /\ \/ Subagent(Watched(mem[r])) /\ Line(r, Watched(mem[r]), "beat")
       \/ UNCHANGED <<files, age>>
    /\ MoveOn
    /\ UNCHANGED <<runs, verdict, worker, crashes>>

Persist ==
    /\ pc = "persist"
    /\ runs' = mem
    /\ inflight' = 0
    /\ pc' = IF dispatch = {} THEN "idle" ELSE "spawn"
    /\ UNCHANGED <<files, age, verdict, worker, mem, cur, dispatch, crashes>>
------------------------------------------------------------------------------
(* Spawning the dispatch list *)

NextToSpawn(r) == pc = "spawn" /\ r \in dispatch /\ \A q \in dispatch : r <= q

Handled(r) ==
    /\ dispatch' = dispatch \ {r}
    /\ pc' = IF dispatch = {r} THEN "idle" ELSE "spawn"
    /\ UNCHANGED <<runs, verdict, mem, cur, inflight, crashes>>

Launch(r) ==
    /\ NextToSpawn(r)
    /\ worker' = [worker EXCEPT ![r][Watched(mem[r])] =
                     [proc |-> "working", launches |-> @.launches + 1]]
    /\ Handled(r) /\ UNCHANGED <<files, age>>

\* The orchestrator never launches the subagent.
Lose(r) ==
    /\ NextToSpawn(r) /\ Subagent(Watched(mem[r]))
    /\ Handled(r) /\ UNCHANGED <<files, age, worker>>

SpawnFails(r) ==
    /\ NextToSpawn(r) /\ ~Subagent(Watched(mem[r]))
    /\ Line(r, Watched(mem[r]), "FAILED")
    /\ Handled(r) /\ UNCHANGED worker

Crash ==
    /\ pc # "idle" /\ Die
    /\ UNCHANGED <<runs, files, age, verdict, worker>>
------------------------------------------------------------------------------
(* Workers, and the clock between two ticks *)

\* What a worker does once its run is over is not followed: nobody reads it.
Alive(r, p) == worker[r][p].proc = "working" /\ runs[r].state \notin Terminal

Beat(r, p) ==
    /\ Alive(r, p) /\ Line(r, p, "beat")
    /\ UNCHANGED <<runs, verdict, worker, tick, crashes>>

Over(r, p) == worker' = [worker EXCEPT ![r][p].proc = "over"]

\* A judge that completes gives a verdict; a malformed one counts as Stop.
Report(r, p, sentinel) ==
    /\ Alive(r, p) /\ Line(r, p, sentinel) /\ Over(r, p)
    /\ IF p[2] = "judge"
       THEN \E outcome \in Outcomes[p[1]] \cup {Stop} :
               verdict' = [verdict EXCEPT ![r][p[1]] = outcome]
       ELSE UNCHANGED verdict
    /\ UNCHANGED <<runs, tick, crashes>>

\* It hangs, or dies without a word.
FallSilent(r, p) ==
    /\ Alive(r, p) /\ Over(r, p)
    /\ UNCHANGED <<runs, files, age, verdict, tick, crashes>>

Older(n) == IF n < AgeCap THEN n + 1 ELSE n

Pass ==
    /\ pc = "idle"
    /\ runs' = [r \in Runs |-> [runs[r] EXCEPT !.claimAge =
                                   IF runs[r].state = "claimed" THEN Older(@) ELSE @]]
    /\ mem' = runs'
    /\ age' = [r \in Runs |-> IF files[r].hb[Watched(runs[r])] = "beat" THEN Older(age[r])
                                                                        ELSE age[r]]
    /\ UNCHANGED <<files, verdict, worker, pc, cur, inflight, dispatch, crashes>>
------------------------------------------------------------------------------
TickStep ==
    \/ Begin \/ Persist
    \/ \E r \in Runs :
          \/ StepFails(r) \/ StepCompletes(r) \/ AskJudge(r) \/ LaunchFails(r) \/ Reclaim(r)
          \/ JudgeAnswers(r) \/ JudgeGivenUp(r)
          \/ MarkStalled(r) \/ MarkRunning(r) \/ LeaveAlone(r)
          \/ PassOver(r) \/ Claim(r) \/ Launch(r) \/ Lose(r) \/ SpawnFails(r)

WorkerStep(r, p) ==
    Beat(r, p) \/ FallSilent(r, p) \/ \E sentinel \in Sentinels : Report(r, p, sentinel)

Next ==
    \/ TickStep \/ Crash \/ Pass
    \/ \E r \in Runs : \E p \in Phases : WorkerStep(r, p)

Spec == Init /\ [][Next]_vars

\* Ticks recur and finish, time passes, no worker works for ever; and nobody but its
\* worker writes for ever to an output that can be measured, so that it goes stale.
Fairness ==
    /\ WF_vars(TickStep) /\ SF_vars(Pass)
    /\ \A r \in Measurable : SF_vars(Reclaim(r))
    /\ \A r \in Runs : \A p \in Phases :
          WF_vars(FallSilent(r, p) \/ \E sentinel \in Sentinels : Report(r, p, sentinel))

FairSpec == Spec /\ Fairness
------------------------------------------------------------------------------
(* Properties *)

Completed(r, m) == files[r].hb[<<m, "step">>] = "COMPLETED"

Skipped(r, s) == files[r].result[s] = "SKIPPED" /\ \E g \in 1..s - 1 : files[r].gate[g] > s

Launched(r, p) == worker[r][p].launches > 0

\* A step starts only when each step before it has reported COMPLETED and, if it has
\* a gate, the recorded outcome lets the run pass; or was skipped by such an outcome.
\* A judge starts only on a completed step.
StepsInOrder ==
    \A r \in Runs :
        /\ \A m \in 1..Steps : Launched(r, <<m, "step">>) =>
              \A s \in 1..m - 1 :
                 \/ Completed(r, s) /\ (s \in Gated => files[r].gate[s] \in s + 1 .. m)
                 \/ Skipped(r, s)
        /\ \A m \in Judged : Launched(r, <<m, "judge">>) => Completed(r, m)

\* "A reaped step is never re-run": wherever the tick dies, no step and no judge is
\* launched a second time.
NothingRunsTwice ==
    \A r \in Runs : \A p \in Phases : worker[r][p].launches <= 1

\* A run that is over has its entry result; one that says COMPLETED, in the status
\* or in that result, covers steps that all completed or were skipped; and if no
\* tick died, status and result agree.
EntryResultIsTrue ==
    \A r \in Runs :
        LET state == runs[r].state
            entry == files[r].entry
        IN  /\ state \in Terminal => entry # "none"
            /\ state = "completed" \/ entry = "COMPLETED" =>
                   \A m \in 1..Length[r] : Completed(r, m) \/ Skipped(r, m)
            /\ crashes = MaxCrashes /\ state \in Terminal =>
                   CASE state = "completed" -> entry = "COMPLETED"
                     [] state = "abandoned" -> entry = "ABANDONED"
                     [] OTHER -> entry = "FAILED"

\* A judge that did not complete lets nobody pass, whatever it wrote: the run goes
\* beyond a judged step only on a verdict its judge completed with.
FailClosed ==
    \A r \in Runs : \A m \in Judged :
        files[r].gate[m] > Stop => /\ files[r].hb[<<m, "judge">>] = "COMPLETED"
                                   /\ files[r].gate[m] = verdict[r][m]

\* A run keeps its slot from its first step to its end, and the pool never holds
\* more of them than it has slots.
SlotsAreKept ==
    Cardinality({r \in Runs : runs[r].started /\ runs[r].state \notin Terminal}) <= PoolSize

\* Every job ends, unless one keeps the slot for ever: for a judge that never answers,
\* or for a silent step whose output cannot be measured.
EveryJobEnds ==
    \/ \A r \in Runs : <>(runs[r].state \in Terminal)
    \/ \E r \in Runs : <>[](runs[r].judging)
    \/ \E r \in Runs \ Measurable : <>[](runs[r].state = "stalled")
=============================================================================
