---------------------------- MODULE PipelineTurns -----------------------------
(***************************************************************************)
(* Lemmas about Pipeline: what the files of one run promise, what a tick   *)
(* may write into them wherever it dies, and what advancing a run may do   *)
(* to its record.  Every action of the advance phase is shown to be such a *)
(* turn, so that the invariant of PipelineProofs has one case for them all.*)
(***************************************************************************)
EXTENDS Pipeline, FiniteSetTheorems, SequenceTheorems, TLAPS

CompletedIn(f, m) == f.hb[<<m, "step">>] = "COMPLETED"

SkippedIn(f, s) == f.result[s] = "SKIPPED" /\ \E g \in 1..s - 1 : f.gate[g] > s

\* Step s is behind a run that is at step n.
PassedIn(f, s, n) ==
    \/ CompletedIn(f, s) /\ (s \in Gated => f.gate[s] \in s + 1 .. n)
    \/ SkippedIn(f, s)

PathIn(f, n) == \A s \in 1..n - 1 : PassedIn(f, s, n)

OverIn(r, f) == \A m \in 1..Length[r] : CompletedIn(f, m) \/ SkippedIn(f, m)

Forward(m) == {Stop} \cup m + 1 .. Steps + 1

GatesIn(f) == \A m \in 1..Steps : f.gate[m] \in {NoOutcome} \cup Forward(m)

\* A judged gate lets the run pass only on the verdict v of a judge that completed.
JudgedIn(f, v) ==
    \A m \in Judged : f.gate[m] > Stop => /\ f.hb[<<m, "judge">>] = "COMPLETED"
                                         /\ f.gate[m] = v[m]

\* What never changes once it is in the files of a run.
Grows(f, g) ==
    /\ \A p \in Phases : f.hb[p] \in TerminalHb => g.hb[p] = f.hb[p]
    /\ \A m \in 1..Steps : /\ f.result[m] = "SKIPPED" => g.result[m] = "SKIPPED"
                           /\ f.gate[m] > Stop => g.gate[m] = f.gate[m]
    /\ f.entry # "none" => g.entry = f.entry

\* The files a tick may leave behind when it starts from f.
Writes(r, v, f) ==
    {g \in RunFiles : /\ Grows(f, g) /\ g.hb = f.hb /\ GatesIn(g) /\ JudgedIn(g, v)
                      /\ g.entry = "COMPLETED" => f.entry = "COMPLETED" \/ OverIn(r, g)}

LEMMA FilesType ==
    ASSUME NEW f \in RunFiles
    PROVE  /\ f.hb \in [Phases -> Heartbeat] /\ f.result \in [1..Steps -> StepResult]
           /\ f.gate \in [1..Steps -> NoOutcome..Steps + 1]
           /\ f.entry \in {"none"} \cup TerminalHb
  BY DEF RunFiles

LEMMA StepPhase ==
    /\ Steps \in Nat \ {0}
    /\ \A m \in 1..Steps : <<m, "step">> \in Phases
    /\ \A m \in Judged : <<m, "judge">> \in Phases /\ m \in 1..Steps
    /\ \A r \in Runs : Length[r] \in 1..Steps
  BY PipelineAssumption DEF Phases

LEMMA GrowsStep ==
    ASSUME NEW f \in RunFiles, NEW g \in RunFiles, Grows(f, g), NEW s \in 1..Steps
    PROVE  /\ CompletedIn(f, s) => CompletedIn(g, s)
           /\ SkippedIn(f, s) => SkippedIn(g, s)
           /\ \A n : f.gate[s] \in s + 1 .. n => g.gate[s] \in s + 1 .. n
  <1>1. /\ f.gate \in [1..Steps -> NoOutcome..Steps + 1] /\ Steps \in Nat \ {0}
        /\ \A m \in 1..Steps : f.gate[m] > Stop => g.gate[m] = f.gate[m]
        /\ f.result[s] = "SKIPPED" => g.result[s] = "SKIPPED"
    BY FilesType, StepPhase DEF Grows
  <1>2. ASSUME NEW h \in 1..Steps, NEW k \in Nat, f.gate[h] > k
        PROVE  g.gate[h] = f.gate[h]
    <2>1. f.gate[h] \in Int
      BY <1>1 DEF NoOutcome
    <2>2. f.gate[h] > Stop
      BY <1>2, <2>1 DEF Stop
    <2>3. QED
      BY <1>1, <2>2
  <1>3. CompletedIn(f, s) => CompletedIn(g, s)
    BY StepPhase DEF Grows, CompletedIn, TerminalHb
  <1>4. SkippedIn(f, s) => SkippedIn(g, s)
    <2>1. \A h \in 1..s - 1 : h \in 1..Steps
      BY <1>1
    <2>2. QED
      BY <1>1, <1>2, <2>1 DEF SkippedIn
  <1>5. ASSUME NEW n, f.gate[s] \in s + 1 .. n PROVE g.gate[s] \in s + 1 .. n
    <2>1. f.gate[s] > s /\ s \in Nat
      BY <1>5
    <2>2. QED
      BY <1>2, <1>5, <2>1
  <1>6. QED
    BY <1>3, <1>4, <1>5

LEMMA GrowsPassed ==
    ASSUME NEW f \in RunFiles, NEW g \in RunFiles, Grows(f, g),
           NEW n \in 1..Steps + 1, NEW s \in 1..n - 1, PassedIn(f, s, n)
    PROVE  PassedIn(g, s, n)
  <1>1. s \in 1..Steps
    BY StepPhase
  <1>2. QED
    BY <1>1, GrowsStep DEF PassedIn

LEMMA GrowsPath ==
    ASSUME NEW f \in RunFiles, NEW g \in RunFiles, Grows(f, g),
           NEW n \in 1..Steps + 1, PathIn(f, n)
    PROVE  PathIn(g, n)
  BY GrowsPassed DEF PathIn

LEMMA GrowsOver ==
    ASSUME NEW r \in Runs, NEW f \in RunFiles, NEW g \in RunFiles, Grows(f, g), OverIn(r, f)
    PROVE  OverIn(r, g)
  <1>1. 1..Length[r] \subseteq 1..Steps
    BY StepPhase
  <1>2. QED
    BY <1>1, GrowsStep DEF OverIn

LEMMA GrowsOn ==
    ASSUME NEW f \in RunFiles, NEW g \in RunFiles, NEW h \in RunFiles, Grows(f, g), Grows(g, h)
    PROVE  Grows(f, h)
  <1>1. \A p \in Phases : f.hb[p] \in TerminalHb => h.hb[p] = f.hb[p]
    BY DEF Grows
  <1>2. \A m \in 1..Steps : /\ f.result[m] = "SKIPPED" => h.result[m] = "SKIPPED"
                            /\ f.gate[m] > Stop => h.gate[m] = f.gate[m]
    BY DEF Grows
  <1>3. f.entry # "none" => h.entry = f.entry
    BY DEF Grows
  <1>4. QED
    BY <1>1, <1>2, <1>3 DEF Grows
------------------------------------------------------------------------------
(* The trails *)

LEMMA WritesNothing ==
    ASSUME NEW r, NEW v, NEW f \in RunFiles, GatesIn(f), JudgedIn(f, v)
    PROVE  f \in Writes(r, v, f)
  BY DEF Writes, Grows

LEMMA WritesOn ==
    ASSUME NEW r \in Runs, NEW v, NEW f \in RunFiles, NEW g \in Writes(r, v, f)
    PROVE  /\ g \in RunFiles /\ Writes(r, v, g) \subseteq Writes(r, v, f)
  <1>1. g \in RunFiles /\ Grows(f, g) /\ g.hb = f.hb
        /\ (g.entry = "COMPLETED" => f.entry = "COMPLETED" \/ OverIn(r, g))
    BY DEF Writes
  <1>2. ASSUME NEW h \in Writes(r, v, g) PROVE h \in Writes(r, v, f)
    <2>1. h \in RunFiles /\ Grows(g, h) /\ h.hb = g.hb /\ GatesIn(h) /\ JudgedIn(h, v)
          /\ (h.entry = "COMPLETED" => g.entry = "COMPLETED" \/ OverIn(r, h))
      BY <1>2 DEF Writes
    <2>2. Grows(f, h)
      BY <1>1, <2>1, GrowsOn
    <2>3. OverIn(r, g) => OverIn(r, h)
      BY <1>1, <2>1, GrowsOver
    <2>4. QED
      BY <1>1, <2>1, <2>2, <2>3 DEF Writes
  <1>3. QED
    BY <1>1, <1>2

LEMMA ReapedWrites ==
    ASSUME NEW r, NEW v, NEW f \in RunFiles, GatesIn(f), JudgedIn(f, v),
           NEW m \in 1..Steps, NEW sentinel \in TerminalHb
    PROVE  /\ Reaped(f, m, sentinel) \in Writes(r, v, f)
           /\ Reaped(f, m, sentinel).hb = f.hb /\ Reaped(f, m, sentinel).gate = f.gate
           /\ Reaped(f, m, sentinel).entry = f.entry
  <1>1. /\ Reaped(f, m, sentinel) \in RunFiles
        /\ Reaped(f, m, sentinel).hb = f.hb /\ Reaped(f, m, sentinel).gate = f.gate
        /\ Reaped(f, m, sentinel).entry = f.entry
        /\ \A s \in 1..Steps : f.result[s] = "SKIPPED" => Reaped(f, m, sentinel).result[s] = "SKIPPED"
    BY DEF Reaped, RunFiles, StepResult
  <1>2. QED
    BY <1>1 DEF Writes, Grows, GatesIn, JudgedIn

\* A result for the entry is written over no other.
LEMMA EndedWrites ==
    ASSUME NEW r \in Runs, NEW v, NEW f \in RunFiles, GatesIn(f), JudgedIn(f, v),
           NEW sentinel \in TerminalHb, sentinel = "COMPLETED" => OverIn(r, f)
    PROVE  /\ Ended(f, sentinel) \in Writes(r, v, f)
           /\ Ended(f, sentinel).hb = f.hb /\ Ended(f, sentinel).gate = f.gate
           /\ Ended(f, sentinel).result = f.result
           /\ Ended(f, sentinel).entry # "none"
           /\ f.entry = "none" => Ended(f, sentinel).entry = sentinel
  <1>1. /\ Ended(f, sentinel) \in RunFiles
        /\ Ended(f, sentinel).hb = f.hb /\ Ended(f, sentinel).gate = f.gate
        /\ Ended(f, sentinel).result = f.result
        /\ Ended(f, sentinel).entry = IF f.entry = "none" THEN sentinel ELSE f.entry
    BY DEF Ended, RunFiles
  <1>2. OverIn(r, f) => OverIn(r, Ended(f, sentinel))
    BY <1>1 DEF OverIn, CompletedIn, SkippedIn
  <1>3. sentinel # "none"
    BY DEF TerminalHb
  <1>4. QED
    BY <1>1, <1>2, <1>3 DEF Writes, Grows, GatesIn, JudgedIn

LEMMA FailureTrail ==
    ASSUME NEW r \in Runs, NEW v, NEW f \in RunFiles, GatesIn(f), JudgedIn(f, v),
           NEW m \in 1..Steps, NEW sentinel \in TerminalHb, NEW entry \in {"FAILED", "ABANDONED"}
    PROVE  LET t == Failure(f, m, sentinel, entry)
           IN  /\ t \in Seq(Writes(r, v, f)) /\ Len(t) \in Nat \ {0}
               /\ Final(t).entry # "none"
               /\ f.entry = "none" => Final(t).entry = entry
  <1>. DEFINE g == Reaped(f, m, sentinel)
              h == Ended(g, entry)
              t == Failure(f, m, sentinel, entry)
  <1>1. f \in Writes(r, v, f)
    BY WritesNothing
  <1>2. g \in Writes(r, v, f) /\ g.entry = f.entry
    BY ReapedWrites
  <1>3. h \in Writes(r, v, g) /\ h.entry # "none" /\ (g.entry = "none" => h.entry = entry)
    <2>1. g \in RunFiles /\ GatesIn(g) /\ JudgedIn(g, v)
      BY <1>2 DEF Writes
    <2>2. entry \in TerminalHb /\ entry # "COMPLETED"
      BY DEF TerminalHb
    <2>3. QED
      BY <2>1, <2>2, EndedWrites
  <1>4. h \in Writes(r, v, f)
    BY <1>2, <1>3, WritesOn
  <1>5. t = <<f, g, h>>
    BY DEF Failure
  <1>. HIDE DEF g, h, t
  <1>6. t \in Seq(Writes(r, v, f)) /\ Len(t) = 3 /\ t[3] = h
    BY <1>1, <1>2, <1>4, <1>5
  <1>7. QED
    BY <1>2, <1>3, <1>6 DEF Final, t

\* Marking the steps in between, one after the other.
LEMMA SkippedWrites ==
    ASSUME NEW r \in Runs, NEW v, NEW f \in RunFiles, GatesIn(f), JudgedIn(f, v),
           NEW m \in 1..Steps, NEW last \in m..Steps
    PROVE  LET g == SkippedTo(f, m, last)
           IN  /\ g \in Writes(r, v, f)
               /\ g.hb = f.hb /\ g.gate = f.gate /\ g.entry = f.entry
               /\ \A s \in m + 1 .. last : g.result[s] = "SKIPPED"
  <1>. DEFINE g == SkippedTo(f, m, last)
  <1>1. f.result \in [1..Steps -> StepResult] /\ Steps \in Nat
    BY FilesType, StepPhase
  <1>2. g.hb = f.hb /\ g.gate = f.gate /\ g.entry = f.entry
        /\ g.result = [s \in 1..Steps |-> IF s \in m + 1 .. last THEN "SKIPPED" ELSE f.result[s]]
    BY <1>1 DEF SkippedTo, RunFiles
  <1>3. g \in RunFiles
    <2>1. g.result \in [1..Steps -> StepResult]
      BY <1>1, <1>2 DEF StepResult
    <2>2. g = [f EXCEPT !.result = g.result]
      BY <1>2 DEF SkippedTo, RunFiles
    <2>. HIDE DEF g
    <2>3. QED
      BY <2>1, <2>2 DEF RunFiles
  <1>4. \A s \in 1..Steps : f.result[s] = "SKIPPED" => g.result[s] = "SKIPPED"
    BY <1>2
  <1>5. \A s \in m + 1 .. last : g.result[s] = "SKIPPED"
    BY <1>1, <1>2
  <1>. HIDE DEF g
  <1>6. Grows(f, g) /\ GatesIn(g) /\ JudgedIn(g, v)
    BY <1>2, <1>4 DEF Grows, GatesIn, JudgedIn
  <1>7. QED
    BY <1>2, <1>3, <1>5, <1>6 DEF Writes, g

LEMMA WayTrail ==
    ASSUME NEW r \in Runs, NEW v, NEW f \in RunFiles, GatesIn(f), JudgedIn(f, v),
           NEW m \in 1..Length[r], CompletedIn(f, m), PathIn(f, m),
           NEW outcome \in Forward(m),
           outcome # Stop => IF m \in Gated THEN f.gate[m] = outcome ELSE outcome = m + 1
    PROVE  LET t == Way(r, f, m, outcome)
               g == Final(t)
           IN  /\ t \in Seq(Writes(r, v, f)) /\ Len(t) \in Nat \ {0}
               /\ outcome = Stop => /\ g.entry # "none"
                                    /\ f.entry = "none" => g.entry = "FAILED"
               /\ outcome > Length[r] => /\ OverIn(r, g) /\ g.entry # "none"
                                         /\ f.entry = "none" => g.entry = "COMPLETED"
               /\ outcome # Stop /\ ~(outcome > Length[r]) => PathIn(g, outcome) /\ g.entry = f.entry
  <1>. DEFINE t == Way(r, f, m, outcome)
              W == Writes(r, v, f)
  <1>1. Length[r] \in 1..Steps /\ Steps \in Nat \ {0} /\ m \in 1..Steps /\ Stop = 0
    BY StepPhase DEF Stop
  <1>2. CASE outcome = Stop
    <2>. DEFINE e == Ended(f, "FAILED")
    <2>1. f \in W
      BY WritesNothing
    <2>2. e \in W /\ e.entry # "none" /\ (f.entry = "none" => e.entry = "FAILED")
      BY EndedWrites DEF TerminalHb
    <2>3. t = <<f, e>>
      BY <1>2 DEF Way
    <2>. HIDE DEF e, t, W
    <2>4. t \in Seq(W) /\ Len(t) = 2 /\ t[2] = e
      BY <2>1, <2>2, <2>3
    <2>5. QED
      BY <1>1, <1>2, <2>2, <2>4 DEF Final, t, W
  <1>3. CASE outcome # Stop
    <2>. DEFINE dest == IF outcome > Length[r] THEN Length[r] + 1 ELSE outcome
                skipping == [k \in 1 .. dest - m |-> SkippedTo(f, m, m + k - 1)]
                last == SkippedTo(f, m, dest - 1)
    <2>1. outcome \in m + 1 .. Steps + 1 /\ dest \in m + 1 .. Length[r] + 1 /\ dest - m \in Nat \ {0}
      BY <1>1, <1>3 DEF Forward
    <2>. HIDE DEF dest
    <2>2. \A k \in 1 .. dest - m : m + k - 1 \in m..Steps
      BY <1>1, <2>1
    <2>3. \A k \in 1 .. dest - m : skipping[k] \in W
      BY <1>1, <2>2, SkippedWrites
    <2>4. /\ skipping \in Seq(W) /\ Len(skipping) = dest - m /\ Final(skipping) = last
      <3>1. skipping \in [1 .. dest - m -> W]
        BY <2>3
      <3>2. skipping[dest - m] = last
        BY <1>1, <2>1
      <3>. HIDE DEF skipping, W
      <3>3. skipping \in Seq(W) /\ Len(skipping) = dest - m
        BY <2>1, <3>1
      <3>4. QED
        BY <3>2, <3>3 DEF Final
    <2>5. /\ last \in W /\ last.hb = f.hb /\ last.gate = f.gate /\ last.entry = f.entry
          /\ \A s \in m + 1 .. dest - 1 : last.result[s] = "SKIPPED"
      <3>1. dest - 1 \in m..Steps
        BY <1>1, <2>1
      <3>2. QED
        BY <1>1, <3>1, SkippedWrites
    <2>. HIDE DEF last, skipping
    <2>6. \A s \in 1 .. dest - 1 : IF s = m /\ outcome > Length[r] THEN CompletedIn(last, s)
                                                                   ELSE PassedIn(last, s, dest)
      <3>. SUFFICES ASSUME NEW s \in 1 .. dest - 1
                    PROVE  IF s = m /\ outcome > Length[r] THEN CompletedIn(last, s)
                                                           ELSE PassedIn(last, s, dest)
        OBVIOUS
      <3>1. last \in RunFiles /\ Grows(f, last) /\ last.gate = f.gate
        BY <2>5 DEF Writes
      <3>2. s \in 1..Steps /\ f.gate[s] \in Int
        <4>1. s \in 1..Steps
          BY <1>1, <2>1
        <4>2. f.gate \in [1..Steps -> NoOutcome..Steps + 1]
          BY FilesType
        <4>3. QED
          BY <1>1, <4>1, <4>2 DEF NoOutcome
      <3>3. CASE s < m
        <4>1. PassedIn(f, s, m)
          BY <1>1, <3>2, <3>3 DEF PathIn
        <4>2. PassedIn(last, s, m)
          <5>1. s \in 1..m - 1 /\ m \in 1..Steps + 1
            BY <1>1, <3>2, <3>3
          <5>2. QED
            BY <3>1, <4>1, <5>1, GrowsPassed
        <4>3. last.gate[s] \in s + 1 .. m => last.gate[s] \in s + 1 .. dest
          BY <1>1, <2>1, <3>1, <3>2
        <4>4. PassedIn(last, s, dest)
          BY <4>2, <4>3 DEF PassedIn
        <4>5. QED
          BY <1>1, <3>2, <3>3, <4>4
      <3>4. CASE s = m
        <4>1. CompletedIn(last, m)
          BY <2>5 DEF CompletedIn
        <4>2. m \in Gated /\ ~(outcome > Length[r]) => last.gate[m] \in m + 1 .. dest
          BY <1>1, <1>3, <2>1, <3>1 DEF dest
        <4>3. QED
          BY <3>4, <4>1, <4>2 DEF PassedIn
      <3>5. CASE s > m
        <4>1. last.result[s] = "SKIPPED"
          BY <1>1, <2>1, <2>5, <3>2, <3>5
        <4>2. m \in Gated
          BY <1>1, <1>3, <2>1, <3>5 DEF dest
        <4>3. last.gate[m] > s /\ m \in 1..s - 1
          BY <1>1, <1>3, <2>1, <3>1, <3>2, <3>5, <4>2 DEF dest
        <4>4. PassedIn(last, s, dest)
          BY <4>1, <4>3 DEF PassedIn, SkippedIn
        <4>5. QED
          BY <1>1, <3>2, <3>5, <4>4
      <3>6. QED
        BY <1>1, <3>2, <3>3, <3>4, <3>5
    <2>7. CASE outcome > Length[r]
      <3>. DEFINE e == Ended(last, "COMPLETED")
      <3>1. dest = Length[r] + 1
        BY <2>7 DEF dest
      <3>2. OverIn(r, last)
        <4>. SUFFICES ASSUME NEW s \in 1..Length[r] PROVE CompletedIn(last, s) \/ SkippedIn(last, s)
          BY DEF OverIn
        <4>1. s \in 1 .. dest - 1
          BY <1>1, <3>1
        <4>2. QED
          BY <2>6, <4>1 DEF PassedIn
      <3>3. last \in RunFiles /\ GatesIn(last) /\ JudgedIn(last, v)
        BY <2>5 DEF Writes
      <3>4. /\ e \in Writes(r, v, last) /\ e.hb = last.hb /\ e.gate = last.gate
            /\ e.result = last.result /\ e.entry # "none"
            /\ last.entry = "none" => e.entry = "COMPLETED"
        BY <3>2, <3>3, EndedWrites DEF TerminalHb
      <3>5. e \in W
        BY <2>5, <3>4, WritesOn
      <3>6. OverIn(r, e)
        BY <3>2, <3>4 DEF OverIn, CompletedIn, SkippedIn
      <3>7. t = Append(skipping, e)
        <4>1. t = Append(skipping, Ended(Final(skipping), "COMPLETED"))
          BY <1>1, <1>3, <2>7 DEF Way, skipping, dest
        <4>2. QED
          BY <2>4, <4>1
      <3>. HIDE DEF e, t, W
      <3>8. t \in Seq(W) /\ Len(t) = dest - m + 1 /\ t[dest - m + 1] = e
        BY <2>4, <3>5, <3>7, AppendProperties
      <3>9. Len(t) \in Nat \ {0} /\ Final(t) = e
        BY <2>1, <3>8 DEF Final
      <3>10. QED
        BY <1>3, <2>5, <2>7, <3>4, <3>6, <3>8, <3>9 DEF t, W
    <2>8. CASE ~(outcome > Length[r])
      <3>1. dest = outcome /\ t = skipping
        BY <1>3, <2>8 DEF Way, skipping, dest
      <3>2. PathIn(last, outcome)
        BY <2>6, <2>8, <3>1 DEF PathIn
      <3>. HIDE DEF t, W
      <3>3. t \in Seq(W) /\ Len(t) \in Nat \ {0} /\ Final(t) = last
        BY <2>1, <2>4, <3>1 DEF Final
      <3>4. QED
        BY <1>3, <2>5, <2>8, <3>2, <3>3 DEF t, W
    <2>9. QED
      BY <2>7, <2>8
  <1>4. QED
    BY <1>2, <1>3
------------------------------------------------------------------------------
(* What advancing one run may do *)

EntryOf(state) ==
    CASE state = "completed" -> "COMPLETED" [] state = "abandoned" -> "ABANDONED" [] OTHER -> "FAILED"

\* The run stays where it is, or its judge is asked, or it is over, or it goes on.
Turn(r, g, rec) ==
    LET old == mem[r]
        f == files[r]
    IN  /\ rec \in RunRecord /\ rec.started = old.started
        /\ rec.step \in old.step .. Length[r] /\ (rec.judging => rec.step \in Judged)
        /\ \/ /\ g = f /\ rec.step = old.step /\ rec.judging = old.judging
              /\ \/ rec.state = old.state
                 \/ /\ old.state \in InFlight \/ (old.judging /\ old.state \notin Terminal)
                    /\ rec.state \in InFlight
           \/ /\ g.entry = f.entry /\ rec.step = old.step /\ ~old.judging /\ rec.judging
              /\ old.state \in InFlight /\ rec.state = "queued" /\ CompletedIn(f, old.step)
           \/ /\ old.state \notin Terminal /\ rec.state \in Terminal
              /\ rec.step = old.step /\ ~rec.judging
              /\ g.entry # "none" /\ (f.entry = "none" => g.entry = EntryOf(rec.state))
              /\ rec.state = "completed" => OverIn(r, g)
           \/ /\ old.state \notin Terminal /\ rec.state = "queued" /\ ~rec.judging
              /\ old.step < rec.step /\ PathIn(g, rec.step) /\ g.entry = f.entry

Turned(r) ==
    \E g \in Writes(r, verdict[r], files[r]) :
       /\ files' = [files EXCEPT ![r] = g]
       /\ \/ Die
          \/ \E rec \in RunRecord :
                /\ Turn(r, g, rec) /\ mem' = [mem EXCEPT ![r] = rec]
                /\ MoveOn /\ CountPool /\ UNCHANGED <<dispatch, crashes>>
       /\ UNCHANGED <<runs, age, verdict, worker>>

\* What the files of a run say, and what its place in the job does not contradict.
Legal(r) ==
    /\ GatesIn(files[r]) /\ JudgedIn(files[r], verdict[r])
    /\ \A m \in Judged : verdict[r][m] \in Forward(m)
    /\ PathIn(files[r], mem[r].step)
    /\ mem[r].judging => CompletedIn(files[r], mem[r].step)

LEMMA PerformTurned ==
    ASSUME NEW r \in Runs, NEW trail \in Seq(Writes(r, verdict[r], files[r])), Len(trail) \in Nat \ {0},
           NEW rec \in RunRecord, Turn(r, Final(trail), rec), Perform(r, trail, rec)
    PROVE  Turned(r)
  <1>1. \A k \in 1..Len(trail) : trail[k] \in Writes(r, verdict[r], files[r])
    BY ElementOfSeq
  <1>2. Final(trail) \in Writes(r, verdict[r], files[r])
    BY <1>1 DEF Final
  <1>3. QED
    BY <1>1, <1>2 DEF Perform, Turned

LEMMA RunTypes ==
    ASSUME TypeOK, NEW r \in Runs
    PROVE  /\ files[r] \in RunFiles
           /\ mem[r] \in RunRecord /\ runs[r] \in RunRecord
           /\ mem[r].step \in 1..Length[r] /\ runs[r].step \in 1..Length[r] /\ Length[r] \in 1..Steps
           /\ mem[r].judging => mem[r].step \in Judged
           /\ runs[r].judging => runs[r].step \in Judged
           /\ verdict[r] \in [1..Steps -> Stop..Steps + 1]
           /\ worker[r] \in [Phases -> [proc: {"none", "working", "over"}, launches: Nat]]
  <1>1. files[r] \in RunFiles /\ mem[r] \in RunRecord /\ runs[r] \in RunRecord
    BY DEF TypeOK
  <1>2. Length[r] \in 1..Steps /\ Steps \in Nat
    BY StepPhase
  <1>3. \A rec \in {runs[r], mem[r]} : rec.step <= Length[r] /\ (rec.judging => rec.step \in Judged)
    BY DEF TypeOK
  <1>4. mem[r].step \in 1..Steps /\ runs[r].step \in 1..Steps
    BY <1>1 DEF RunRecord
  <1>5. mem[r].step \in 1..Length[r] /\ runs[r].step \in 1..Length[r]
    BY <1>2, <1>3, <1>4
  <1>6. /\ verdict[r] \in [1..Steps -> Stop..Steps + 1]
        /\ worker[r] \in [Phases -> [proc: {"none", "working", "over"}, launches: Nat]]
    BY DEF TypeOK
  <1>7. QED
    BY <1>1, <1>2, <1>3, <1>5, <1>6

LEMMA BecomeType ==
    ASSUME TypeOK, NEW r \in Runs, NEW state \in RunState
    PROVE  /\ Become(r, state) \in RunRecord /\ Become(r, state).state = state
           /\ Become(r, state).step = mem[r].step /\ Become(r, state).judging = mem[r].judging
           /\ Become(r, state).started = mem[r].started
  <1>1. mem[r] \in RunRecord /\ 0 \in 0..AgeCap
    BY RunTypes, AgeAssumption
  <1>2. QED
    BY <1>1 DEF Become, RunRecord

LEMMA StatesType ==
    /\ Terminal \subseteq RunState /\ InFlight \subseteq RunState /\ "queued" \in RunState
    /\ "queued" \notin Terminal /\ "queued" \notin InFlight /\ Terminal \cap InFlight = {}
    /\ RunState = {"queued"} \cup InFlight \cup Terminal
  BY DEF RunState, Terminal, InFlight

\* The run stays where it is.
LEMMA StayTurned ==
    ASSUME TypeOK, NEW r \in Runs, Legal(r), NEW rec,
           Perform(r, <<files[r]>>, rec),
           \/ rec = mem[r]
           \/ /\ mem[r].state \in InFlight \/ (mem[r].judging /\ mem[r].state \notin Terminal)
              /\ \E state \in InFlight : rec = Become(r, state)
    PROVE  Turned(r)
  <1>1. files[r] \in Writes(r, verdict[r], files[r])
    BY RunTypes, WritesNothing DEF Legal
  <1>2. Turn(r, files[r], rec) /\ rec \in RunRecord
    <2>1. CASE rec = mem[r]
      BY <2>1, RunTypes DEF Turn, RunRecord
    <2>2. CASE /\ mem[r].state \in InFlight \/ (mem[r].judging /\ mem[r].state \notin Terminal)
               /\ \E state \in InFlight : rec = Become(r, state)
      <3>1. PICK state \in InFlight : rec = Become(r, state)
        BY <2>2
      <3>2. /\ rec \in RunRecord /\ rec.state = state /\ rec.step = mem[r].step
            /\ rec.judging = mem[r].judging /\ rec.started = mem[r].started
        BY <3>1, BecomeType, StatesType
      <3>3. mem[r].step \in mem[r].step .. Length[r]
        BY RunTypes
      <3>4. QED
        BY <2>2, <3>2, <3>3, RunTypes DEF Turn
    <2>3. QED
      BY <2>1, <2>2
  <1>. DEFINE t == <<files[r]>>
  <1>3. t \in Seq(Writes(r, verdict[r], files[r])) /\ Len(t) \in Nat \ {0} /\ Final(t) = files[r]
    BY <1>1 DEF Final
  <1>4. Perform(r, t, rec)
    OBVIOUS
  <1>. HIDE DEF t
  <1>5. Turn(r, Final(t), rec)
    BY <1>2, <1>3
  <1>6. QED
    BY <1>2, <1>3, <1>4, <1>5, PerformTurned

\* Step or job has failed: its results, then the end.
LEMMA FailTurned ==
    ASSUME TypeOK, NEW r \in Runs, Legal(r), NEW sentinel \in TerminalHb,
           NEW entry \in {"FAILED", "ABANDONED"}, NEW state \in Terminal \ {"completed"},
           entry = EntryOf(state), AtStep(r),
           Perform(r, Failure(files[r], mem[r].step, sentinel, entry), Become(r, state))
    PROVE  Turned(r)
  <1>. DEFINE t == Failure(files[r], mem[r].step, sentinel, entry)
  <1>1. files[r] \in RunFiles /\ mem[r].step \in 1..Steps /\ mem[r].step \in mem[r].step .. Length[r]
    BY RunTypes, StepPhase
  <1>2. /\ t \in Seq(Writes(r, verdict[r], files[r])) /\ Len(t) \in Nat \ {0}
        /\ Final(t).entry # "none" /\ (files[r].entry = "none" => Final(t).entry = entry)
    BY <1>1, FailureTrail DEF Legal
  <1>. HIDE DEF t
  <1>3. /\ Become(r, state) \in RunRecord /\ Become(r, state).state = state
        /\ Become(r, state).step = mem[r].step /\ ~Become(r, state).judging
        /\ Become(r, state).started = mem[r].started
    BY BecomeType, StatesType DEF AtStep
  <1>4. Turn(r, Final(t), Become(r, state))
    BY <1>1, <1>2, <1>3, StatesType DEF Turn, AtStep
  <1>5. QED
    BY <1>2, <1>3, <1>4, PerformTurned DEF t

\* The outcome is put into gate.json, over none that lets the run pass.
LEMMA GateWrites ==
    ASSUME NEW r, NEW v, NEW f \in RunFiles, GatesIn(f), JudgedIn(f, v),
           NEW m \in 1..Steps, NEW outcome \in Forward(m),
           m \in Gated /\ f.gate[m] > Stop => outcome = f.gate[m],
           m \in Judged /\ outcome > Stop => f.hb[<<m, "judge">>] = "COMPLETED" /\ outcome = v[m]
    PROVE  LET g == WithGate(f, m, outcome)
           IN  /\ g \in Writes(r, v, f) /\ g.hb = f.hb /\ g.entry = f.entry
               /\ m \in Gated => g.gate[m] = outcome
  <1>1. CASE m \notin Gated
    BY <1>1, WritesNothing DEF WithGate
  <1>2. CASE m \in Gated
    <2>. DEFINE g == WithGate(f, m, outcome)
    <2>1. f.gate \in [1..Steps -> NoOutcome..Steps + 1] /\ Steps \in Nat
      BY FilesType, StepPhase
    <2>2. outcome \in NoOutcome..Steps + 1
      BY <2>1 DEF Forward, Stop, NoOutcome
    <2>3. g = [f EXCEPT !.gate[m] = outcome]
      BY <1>2 DEF WithGate
    <2>4. /\ g \in RunFiles /\ g.hb = f.hb /\ g.entry = f.entry /\ g.result = f.result
          /\ g.gate = [f.gate EXCEPT ![m] = outcome]
      BY <2>1, <2>2, <2>3 DEF RunFiles
    <2>. HIDE DEF g
    <2>5. Grows(f, g)
      BY <1>2, <2>1, <2>4 DEF Grows
    <2>6. GatesIn(g)
      BY <2>1, <2>4 DEF GatesIn
    <2>7. JudgedIn(g, v)
      BY <2>1, <2>4, StepPhase DEF JudgedIn
    <2>8. QED
      BY <2>1, <2>4, <2>5, <2>6, <2>7 DEF Writes, g
  <1>3. QED
    BY <1>1, <1>2

\* The run goes where the outcome sends it.
LEMMA GoTurned ==
    ASSUME TypeOK, NEW r \in Runs, Legal(r), mem[r].state \notin Terminal,
           CompletedIn(files[r], mem[r].step),
           NEW f \in Writes(r, verdict[r], files[r]), f.entry = files[r].entry,
           NEW outcome \in Forward(mem[r].step),
           outcome # Stop => IF mem[r].step \in Gated THEN f.gate[mem[r].step] = outcome
                                                      ELSE outcome = mem[r].step + 1,
           NEW pre \in Seq(Writes(r, verdict[r], files[r])),
           Perform(r, pre \o Way(r, f, mem[r].step, outcome), Went(r, outcome))
    PROVE  Turned(r)
  <1>. DEFINE m == mem[r].step
              v == verdict[r]
              W == Writes(r, v, files[r])
              way == Way(r, f, m, outcome)
              t == pre \o way
              rec == Went(r, outcome)
  <1>1. /\ files[r] \in RunFiles /\ mem[r] \in RunRecord
        /\ m \in 1..Length[r] /\ Length[r] \in 1..Steps /\ m \in 1..Steps /\ Steps \in Nat \ {0}
    BY RunTypes, StepPhase
  <1>2. f \in RunFiles /\ GatesIn(f) /\ JudgedIn(f, v) /\ Grows(files[r], f) /\ f.hb = files[r].hb
    BY DEF Writes
  <1>3. CompletedIn(f, m) /\ PathIn(f, m)
    BY <1>1, <1>2, GrowsPath DEF CompletedIn, Legal
  <1>4. /\ way \in Seq(Writes(r, v, f)) /\ Len(way) \in Nat \ {0}
        /\ outcome = Stop => /\ Final(way).entry # "none"
                             /\ f.entry = "none" => Final(way).entry = "FAILED"
        /\ outcome > Length[r] => /\ OverIn(r, Final(way)) /\ Final(way).entry # "none"
                                  /\ f.entry = "none" => Final(way).entry = "COMPLETED"
        /\ outcome # Stop /\ ~(outcome > Length[r]) => /\ PathIn(Final(way), outcome)
                                                       /\ Final(way).entry = f.entry
    BY <1>1, <1>2, <1>3, WayTrail
  <1>5. way \in Seq(W)
    BY <1>1, <1>4, WritesOn, SeqMonotonic
  <1>6. t \in Seq(W) /\ Len(t) \in Nat \ {0} /\ Final(t) = Final(way)
    <2>. HIDE DEF way, W
    <2>1. /\ t \in Seq(W) /\ Len(t) = Len(pre) + Len(way)
          /\ \A i \in 1 .. Len(pre) + Len(way) :
                 t[i] = IF i <= Len(pre) THEN pre[i] ELSE way[i - Len(pre)]
      BY <1>5, ConcatProperties, Zenon DEF W
    <2>2. Len(pre) \in Nat
      BY LenProperties
    <2>3. Len(t) \in Nat \ {0} /\ Len(t) - Len(pre) = Len(way) /\ ~(Len(t) <= Len(pre))
      BY <1>4, <2>1, <2>2
    <2>4. t[Len(t)] = way[Len(way)]
      BY <1>4, <2>1, <2>2, <2>3
    <2>5. QED
      BY <2>1, <2>3, <2>4 DEF Final
  <1>7. /\ outcome = Stop => rec = [Become(r, "failed") EXCEPT !.judging = FALSE]
        /\ outcome > Length[r] => rec = [Become(r, "completed") EXCEPT !.judging = FALSE]
        /\ outcome # Stop /\ ~(outcome > Length[r])
              => rec = [Become(r, "queued") EXCEPT !.judging = FALSE, !.step = outcome]
    BY <1>1 DEF Went, Stop
  <1>8. "failed" \in Terminal /\ "completed" \in Terminal /\ Terminal \cup {"queued"} \subseteq RunState
    BY DEF Terminal, RunState
  <1>. HIDE DEF way, t, rec
  <1>9. Perform(r, t, rec)
    BY DEF t, rec, way
  <1>10. CASE outcome = Stop
    <2>1. /\ rec \in RunRecord /\ rec.state = "failed" /\ rec.step = m /\ ~rec.judging
          /\ rec.started = mem[r].started
      <3>1. /\ Become(r, "failed") \in RunRecord /\ Become(r, "failed").state = "failed"
            /\ Become(r, "failed").step = m /\ Become(r, "failed").started = mem[r].started
        BY <1>8, BecomeType
      <3>2. rec = [Become(r, "failed") EXCEPT !.judging = FALSE]
        BY <1>7, <1>10
      <3>3. QED
        BY <3>1, <3>2 DEF RunRecord
    <2>2. Turn(r, Final(t), rec)
      BY <1>1, <1>4, <1>6, <1>8, <1>10, <2>1 DEF Turn, EntryOf
    <2>3. QED
      BY <1>6, <1>9, <2>1, <2>2, PerformTurned DEF W
  <1>11. CASE outcome > Length[r]
    <2>1. /\ rec \in RunRecord /\ rec.state = "completed" /\ rec.step = m /\ ~rec.judging
          /\ rec.started = mem[r].started
      <3>1. /\ Become(r, "completed") \in RunRecord /\ Become(r, "completed").state = "completed"
            /\ Become(r, "completed").step = m /\ Become(r, "completed").started = mem[r].started
        BY <1>8, BecomeType
      <3>2. rec = [Become(r, "completed") EXCEPT !.judging = FALSE]
        BY <1>7, <1>11
      <3>3. QED
        BY <3>1, <3>2 DEF RunRecord
    <2>2. Turn(r, Final(t), rec)
      BY <1>1, <1>4, <1>6, <1>8, <1>11, <2>1 DEF Turn, EntryOf
    <2>3. QED
      BY <1>6, <1>9, <2>1, <2>2, PerformTurned DEF W
  <1>12. CASE outcome # Stop /\ ~(outcome > Length[r])
    <2>1. outcome \in m + 1 .. Length[r] /\ outcome \in 1..Steps
      BY <1>1, <1>12 DEF Forward
    <2>2. /\ rec \in RunRecord /\ rec.state = "queued" /\ rec.step = outcome /\ ~rec.judging
          /\ rec.started = mem[r].started
      <3>1. /\ Become(r, "queued") \in RunRecord /\ Become(r, "queued").state = "queued"
            /\ Become(r, "queued").started = mem[r].started
        BY <1>8, BecomeType
      <3>2. rec = [Become(r, "queued") EXCEPT !.judging = FALSE, !.step = outcome]
        BY <1>7, <1>12
      <3>3. QED
        BY <2>1, <3>1, <3>2 DEF RunRecord
    <2>3. Turn(r, Final(t), rec)
      BY <1>1, <1>4, <1>6, <1>8, <1>12, <2>1, <2>2 DEF Turn
    <2>4. QED
      BY <1>6, <1>9, <2>2, <2>3, PerformTurned DEF W
  <1>13. QED
    BY <1>10, <1>11, <1>12

LEMMA StepCompletesTurned ==
    ASSUME TypeOK, NEW r \in Runs, Legal(r), StepCompletes(r)
    PROVE  Turned(r)
  <1>. DEFINE m == mem[r].step
              v == verdict[r]
              W == Writes(r, v, files[r])
              reaped == Reaped(files[r], m, "COMPLETED")
  <1>1. /\ files[r] \in RunFiles /\ m \in 1..Length[r] /\ m \in 1..Steps /\ Steps \in Nat \ {0}
        /\ GatesIn(files[r]) /\ JudgedIn(files[r], v)
    BY RunTypes, StepPhase DEF Legal
  <1>2. /\ ~mem[r].judging /\ mem[r].state \notin Terminal /\ CompletedIn(files[r], m)
        /\ ~AwaitsJudge(r)
    BY DEF StepCompletes, AtStep, Heard, Watched, CompletedIn
  <1>3. PICK outcome \in Say(r) :
            Perform(r, <<files[r], reaped>> \o Way(r, WithGate(reaped, m, outcome), m, outcome),
                    Went(r, outcome))
    BY DEF StepCompletes
  <1>4. /\ m \notin Gated => outcome = m + 1
        /\ m \in Gated /\ files[r].gate[m] # NoOutcome => outcome = files[r].gate[m]
        /\ m \in Gated /\ files[r].gate[m] = NoOutcome => outcome \in Outcomes[m]
    BY <1>3 DEF Say
  <1>5. outcome \in Forward(m)
    BY <1>1, <1>4, ForwardAssumption DEF Forward, GatesIn
  <1>6. files[r] \in W /\ reaped \in W /\ reaped.gate = files[r].gate /\ reaped.hb = files[r].hb
        /\ reaped.entry = files[r].entry
    BY <1>1, ReapedWrites, WritesNothing DEF TerminalHb
  <1>. DEFINE g == WithGate(reaped, m, outcome)
              pre == <<files[r], reaped>>
  <1>. HIDE DEF reaped
  <1>7. /\ g \in Writes(r, v, reaped) /\ g.entry = reaped.entry
        /\ m \in Gated => g.gate[m] = outcome
    <2>1. reaped \in RunFiles /\ GatesIn(reaped) /\ JudgedIn(reaped, v)
      BY <1>6 DEF Writes
    <2>2. m \in Gated /\ reaped.gate[m] > Stop => outcome = reaped.gate[m]
      BY <1>4, <1>6 DEF Stop, NoOutcome
    <2>3. m \in Judged => m \in Gated /\ files[r].gate[m] # NoOutcome
      BY <1>2, PipelineAssumption DEF AwaitsJudge
    <2>4. m \in Judged /\ outcome > Stop => reaped.hb[<<m, "judge">>] = "COMPLETED" /\ outcome = v[m]
      BY <1>1, <1>4, <1>6, <2>3 DEF JudgedIn
    <2>5. QED
      BY <1>1, <1>5, <2>1, <2>2, <2>4, GateWrites
  <1>. HIDE DEF g
  <1>8. g \in W /\ g.entry = files[r].entry
    BY <1>1, <1>6, <1>7, WritesOn
  <1>9. pre \in Seq(W)
    BY <1>6
  <1>10. Perform(r, pre \o Way(r, g, m, outcome), Went(r, outcome))
    BY <1>3 DEF g
  <1>. HIDE DEF pre
  <1>11. QED
    BY <1>2, <1>4, <1>5, <1>7, <1>8, <1>9, <1>10, GoTurned

LEMMA ObeyTurned ==
    ASSUME TypeOK, NEW r \in Runs, Legal(r), AtJudge(r), NEW outcome \in Forward(mem[r].step),
           files[r].gate[mem[r].step] > Stop => outcome = files[r].gate[mem[r].step],
           outcome > Stop => Heard(r) = "COMPLETED" /\ outcome = verdict[r][mem[r].step],
           Obey(r, outcome)
    PROVE  Turned(r)
  <1>. DEFINE m == mem[r].step
              v == verdict[r]
              W == Writes(r, v, files[r])
              g == WithGate(files[r], m, outcome)
              pre == <<files[r]>>
  <1>1. /\ files[r] \in RunFiles /\ m \in 1..Steps /\ m \in Judged /\ m \in Gated
        /\ GatesIn(files[r]) /\ JudgedIn(files[r], v)
        /\ mem[r].state \notin Terminal /\ CompletedIn(files[r], m)
    BY RunTypes, StepPhase, PipelineAssumption DEF Legal, AtJudge
  <1>2. Heard(r) = files[r].hb[<<m, "judge">>]
    BY DEF AtJudge, Heard, Watched
  <1>3. g \in W /\ g.entry = files[r].entry /\ g.gate[m] = outcome
    <2>1. m \in Gated /\ files[r].gate[m] > Stop => outcome = files[r].gate[m]
      OBVIOUS
    <2>2. m \in Judged /\ outcome > Stop => files[r].hb[<<m, "judge">>] = "COMPLETED" /\ outcome = v[m]
      BY <1>2
    <2>. HIDE DEF v
    <2>3. QED
      BY <1>1, <2>1, <2>2, GateWrites
  <1>4. files[r] \in W
    BY <1>1, WritesNothing
  <1>5. Perform(r, pre \o Way(r, g, m, outcome), Went(r, outcome))
    BY DEF Obey
  <1>. HIDE DEF g
  <1>6. pre \in Seq(W)
    BY <1>4
  <1>. HIDE DEF pre
  <1>7. QED
    BY <1>1, <1>3, <1>5, <1>6, GoTurned

LEMMA JudgeTurned ==
    ASSUME TypeOK, NEW r \in Runs, Legal(r), JudgeAnswers(r) \/ JudgeGivenUp(r)
    PROVE  Turned(r)
  <1>. DEFINE m == mem[r].step
  <1>1. /\ m \in 1..Steps /\ m \in Judged /\ AtJudge(r)
        /\ JudgedIn(files[r], verdict[r])
        /\ verdict[r][m] \in Forward(m)
    BY RunTypes, StepPhase DEF Legal, AtJudge, JudgeAnswers, JudgeGivenUp
  <1>2. Heard(r) = files[r].hb[<<m, "judge">>]
    BY <1>1 DEF AtJudge, Heard, Watched
  <1>3. files[r].gate[m] > Stop => Heard(r) = "COMPLETED" /\ files[r].gate[m] = verdict[r][m]
    BY <1>1, <1>2 DEF JudgedIn
  <1>4. CASE JudgeAnswers(r)
    <2>1. VerdictOf(r) = IF Heard(r) = "COMPLETED" THEN verdict[r][m] ELSE Stop
      BY DEF VerdictOf
    <2>2. VerdictOf(r) \in Forward(m) /\ ~(Stop > Stop)
      BY <1>1, <2>1 DEF Forward, Stop
    <2>3. QED
      BY <1>1, <1>3, <1>4, <2>1, <2>2, ObeyTurned DEF JudgeAnswers
  <1>5. CASE JudgeGivenUp(r)
    <2>1. Heard(r) = "none"
      BY <1>5 DEF JudgeGivenUp, ClaimOlderThan
    <2>2. Stop \in Forward(m) /\ ~(Stop > Stop)
      BY DEF Forward, Stop
    <2>3. QED
      BY <1>1, <1>3, <1>5, <2>1, <2>2, ObeyTurned DEF JudgeGivenUp
  <1>6. QED
    BY <1>4, <1>5

LEMMA AskTurned ==
    ASSUME TypeOK, NEW r \in Runs, Legal(r), mem[r].state # "queued", AskJudge(r)
    PROVE  Turned(r)
  <1>. DEFINE m == mem[r].step
              reaped == Reaped(files[r], m, "COMPLETED")
              W == Writes(r, verdict[r], files[r])
              t == <<files[r], reaped>>
              rec == [Become(r, "queued") EXCEPT !.judging = TRUE]
  <1>1. /\ files[r] \in RunFiles /\ mem[r] \in RunRecord
        /\ m \in 1..Length[r] /\ m \in 1..Steps /\ Steps \in Nat \ {0} /\ Length[r] \in 1..Steps
        /\ GatesIn(files[r]) /\ JudgedIn(files[r], verdict[r])
    BY RunTypes, StepPhase DEF Legal
  <1>2. /\ ~mem[r].judging /\ mem[r].state \in InFlight /\ CompletedIn(files[r], m) /\ m \in Judged
    <2>1. mem[r].state \in RunState
      BY <1>1 DEF RunRecord
    <2>2. QED
      BY <2>1, StatesType DEF AskJudge, AtStep, Heard, Watched, CompletedIn, AwaitsJudge
  <1>3. files[r] \in W /\ reaped \in W /\ reaped.entry = files[r].entry
    BY <1>1, ReapedWrites, WritesNothing DEF TerminalHb
  <1>4. Perform(r, t, rec)
    BY DEF AskJudge
  <1>5. /\ rec \in RunRecord /\ rec.state = "queued" /\ rec.step = m /\ rec.judging
        /\ rec.started = mem[r].started
    <2>1. /\ Become(r, "queued") \in RunRecord /\ Become(r, "queued").state = "queued"
          /\ Become(r, "queued").step = m /\ Become(r, "queued").started = mem[r].started
      BY BecomeType, StatesType
    <2>2. QED
      BY <2>1 DEF RunRecord
  <1>. HIDE DEF rec, reaped
  <1>6. t \in Seq(W) /\ Len(t) \in Nat \ {0} /\ Final(t) = reaped
    BY <1>3 DEF Final
  <1>7. Turn(r, reaped, rec)
    <2>1. rec.step \in m .. Length[r]
      BY <1>1, <1>5
    <2>2. QED
      BY <1>2, <1>3, <1>5, <2>1 DEF Turn
  <1>. HIDE DEF t
  <1>8. QED
    BY <1>4, <1>5, <1>6, <1>7, PerformTurned

Advances(r) ==
    \/ StepFails(r) \/ StepCompletes(r) \/ AskJudge(r) \/ LaunchFails(r) \/ Reclaim(r)
    \/ JudgeAnswers(r) \/ JudgeGivenUp(r)
    \/ MarkStalled(r) \/ MarkRunning(r) \/ LeaveAlone(r)

LEMMA Advancing ==
    ASSUME TypeOK, NEW r \in Runs, Legal(r), Advances(r)
    PROVE  Turned(r) /\ pc = "advance" /\ r = cur
  <1>1. pc = "advance" /\ r = cur
    BY DEF Advances, StepFails, StepCompletes, AskJudge, LaunchFails, Reclaim, JudgeAnswers,
           JudgeGivenUp, MarkStalled, MarkRunning, LeaveAlone, AtStep, AtJudge
  <1>2. mem[r].state \in RunState
    BY RunTypes DEF RunRecord
  <1>3. CASE StepFails(r)
    <2>1. Heard(r) \in TerminalHb /\ "FAILED" = EntryOf("failed") /\ "failed" \in Terminal \ {"completed"}
      BY <1>3 DEF StepFails, TerminalHb, EntryOf, Terminal
    <2>2. QED
      BY <1>1, <1>3, <2>1, FailTurned DEF StepFails
  <1>4. CASE LaunchFails(r)
    <2>1. /\ "FAILED" \in TerminalHb /\ "FAILED" = EntryOf("auth_or_launch_failed")
          /\ "auth_or_launch_failed" \in Terminal \ {"completed"}
      BY DEF TerminalHb, EntryOf, Terminal
    <2>2. QED
      BY <1>1, <1>4, <2>1, FailTurned DEF LaunchFails
  <1>5. CASE Reclaim(r)
    <2>1. /\ "ABANDONED" \in TerminalHb /\ "ABANDONED" = EntryOf("abandoned")
          /\ "abandoned" \in Terminal \ {"completed"}
      BY DEF TerminalHb, EntryOf, Terminal
    <2>2. QED
      BY <1>1, <1>5, <2>1, FailTurned DEF Reclaim
  <1>6. CASE MarkStalled(r) \/ MarkRunning(r)
    <2>1. mem[r].state \in InFlight \/ (mem[r].judging /\ mem[r].state \notin Terminal)
      BY <1>2, <1>6, StatesType DEF MarkStalled, MarkRunning, AtStep, AtJudge
    <2>2. PICK state \in InFlight : Perform(r, <<files[r]>>, Become(r, state))
      BY <1>6 DEF MarkStalled, MarkRunning, InFlight
    <2>3. QED
      BY <1>1, <2>1, <2>2, StayTurned
  <1>7. CASE LeaveAlone(r)
    BY <1>1, <1>7, StayTurned DEF LeaveAlone
  <1>8. QED
    <2>1. AskJudge(r) => mem[r].state # "queued"
      BY DEF AskJudge, AtStep
    <2>2. QED
      BY <1>1, <1>3, <1>4, <1>5, <1>6, <1>7, <2>1, StepCompletesTurned, JudgeTurned, AskTurned
         DEF Advances
=============================================================================
