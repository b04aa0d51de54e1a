---------------------------- MODULE AdaptersProofs ----------------------------
(***************************************************************************)
(* Proofs about Adapters, for every set of jobs, every log length, every   *)
(* interval and threshold and any number of kills and faults: types, that  *)
(* a verdict is earned, that a wrapped command is over when its run is     *)
(* failed, and that a living adapter is never taken for stalled.  The      *)
(* inductive invariant is TypeOK, ProcessInv, VerdictInv and, for the last *)
(* two results, SpawnInv with CommandInv or BeatInv.                       *)
(***************************************************************************)
EXTENDS Adapters, WellFoundedInduction, NaturalsInduction, TLAPS

USE DEF watched, reader, beats, locks, engine, budget

\* A job watches a child, another process or a log; wrap watches its child.
LEMMA JobFields ==
    ASSUME job \in Jobs
    PROVE  /\ job.adapter \in {"wrap", "tail"} /\ job.watches \in {"child", "pid", "log"}
           /\ job.adapter = "wrap" => job.watches = "child"
  BY AdapterAssumption DEF Job

\* The cap on ages is a natural number.
LEMMA AgeCapIsNat == AgeCap \in Nat /\ Stall \in Nat /\ Grace \in Nat
  BY AdapterAssumption DEF AgeCap

\* The initial states are well typed.
LEMMA TypeInit == Init => TypeOK
  <1> SUFFICES ASSUME Init PROVE TypeOK
    OBVIOUS
  <1> USE AgeCapIsNat, AdapterAssumption DEF Init
  <1>1. process \in [state: {"unborn", "running", "exited", "gone"}, code: {"none", "ok", "bad"}]
    OBVIOUS
  <1>2. log \in Seq(Marker) /\ heard \in 0..Len(log)
    OBVIOUS
  <1>3. quiet \in 0..AgeCap /\ seen \in [any: BOOLEAN, age: 0..AgeCap]
    BY DEF Unseen
  <1>4. /\ adapter = "unborn" /\ verdict = "none" /\ heartbeat \in Heartbeat
        /\ lock \in Pid /\ temp \in Pid /\ ticker = "spawning" /\ run \in RunState
    BY DEF Heartbeat, Pid, RunState, InFlight
  <1>5. kills \in 0..MaxKills /\ faults \in 0..MaxFaults
    OBVIOUS
  <1>6. job \in Jobs /\ flag \in BOOLEAN /\ primed \in BOOLEAN
    OBVIOUS
  <1> HIDE DEF Init
  <1>7. QED
    BY <1>1, <1>2, <1>3, <1>4, <1>5, <1>6 DEF TypeOK

\* Every step keeps the types.
LEMMA TypeStep ==
    ASSUME TypeOK, [Next]_vars
    PROVE  TypeOK'
  <1> USE JobFields, AgeCapIsNat, AdapterAssumption
  <1>1. CASE \E m \in Marker : WriteLine(m)
    BY <1>1 DEF WriteLine, TypeOK, Marker
  <1>2. CASE TouchSentinel
    BY <1>2 DEF TouchSentinel, TypeOK
  <1>3. CASE \E code \in {"ok", "bad"} : Exit(code)
    BY <1>3 DEF Exit, TypeOK
  <1>4. CASE EmitStarting
    BY <1>4 DEF EmitStarting, Say, AppendLine, TypeOK, Heartbeat, TerminalHb
  <1>5. CASE Launch
    BY <1>5 DEF Launch, AfterLaunch, HasSignal, TypeOK
  <1>6. CASE LaunchFails
    BY <1>6 DEF LaunchFails, Say, AppendLine, TypeOK, Heartbeat, TerminalHb
  <1>7. CASE WriteTemp
    BY <1>7 DEF WriteTemp, TypeOK, Pid
  <1>8. CASE PublishTemp
    BY <1>8 DEF PublishTemp, TypeOK, Pid
  <1>9. CASE RecordFails
    BY <1>9 DEF RecordFails, TypeOK
  <1>10. CASE ScanLog
    <2>1. heard' \in 0..Len(log)' /\ log' \in Seq(Marker)
      BY <1>10 DEF TypeOK, ScanLog
    <2>2. adapter' \in {"looking", "greeting", "ending", "beating", "resting"}
      BY <1>10 DEF ScanLog, Conclude
    <2>3. primed' \in BOOLEAN /\ verdict' \in {"none", "COMPLETED", "FAILED"}
      BY <1>10 DEF TypeOK, ScanLog, Conclude
    <2>4. UNCHANGED <<job, process, flag, heartbeat, quiet, lock, temp, ticker, seen,
                      run, kills, faults>>
      BY <1>10 DEF ScanLog
    <2>5. QED
      BY <2>1, <2>2, <2>3, <2>4 DEF TypeOK
  <1>11. CASE LookForSentinel
    <2>1. adapter' \in {"probing", "greeting", "ending", "beating", "resting"}
      BY <1>11 DEF LookForSentinel, Conclude
    <2>2. primed' \in BOOLEAN /\ verdict' \in {"none", "COMPLETED", "FAILED"}
      BY <1>11 DEF TypeOK, LookForSentinel, Conclude
    <2>3. UNCHANGED <<job, process, log, flag, heard, heartbeat, quiet, lock, temp, ticker,
                      seen, run, kills, faults>>
      BY <1>11 DEF LookForSentinel
    <2>4. QED
      BY <2>1, <2>2, <2>3 DEF TypeOK
  <1>12. CASE ProbeProcess
    BY <1>12 DEF ProbeProcess, Conclude, EndVerdict, ExitVerdict, Collected, TypeOK
  <1>13. CASE Greet
    BY <1>13 DEF Greet, Say, AppendLine, TypeOK, Heartbeat, TerminalHb
  <1>14. CASE Beat
    BY <1>14 DEF Beat, Say, AppendLine, TypeOK, Heartbeat, TerminalHb
  <1>15. CASE Poll
    BY <1>15 DEF Poll, TypeOK
  <1>16. CASE Wait
    BY <1>16 DEF Wait, ExitVerdict, Collected, TypeOK
  <1>17. CASE EmitTerminal
    BY <1>17 DEF EmitTerminal, Say, AppendLine, Collected, TypeOK, Heartbeat, TerminalHb
  <1>18. CASE AdapterFault
    <2>1. faults' \in 0..MaxFaults
      BY <1>18 DEF AdapterFault, Collapse, TypeOK
    <2>2. process' \in [state: {"unborn", "running", "exited", "gone"}, code: {"none", "ok", "bad"}]
      BY <1>18 DEF AdapterFault, Collapse, Collected, TypeOK
    <2>3. QED
      BY <1>18, <2>1, <2>2 DEF AdapterFault, Collapse, TypeOK
  <1>19. CASE Kill
    <2>1. kills' \in 0..MaxKills
      BY <1>19 DEF Kill, TypeOK
    <2>2. process' \in [state: {"unborn", "running", "exited", "gone"}, code: {"none", "ok", "bad"}]
      BY <1>19 DEF Kill, Collected, TypeOK
    <2>3. QED
      BY <1>19, <2>1, <2>2 DEF Kill, TypeOK
  <1>20. CASE Spawn
    BY <1>20 DEF Spawn, TypeOK
  <1>21. CASE SpawnFails
    BY <1>21 DEF SpawnFails, FailEntry, Say, AppendLine, TypeOK, Heartbeat, TerminalHb
  <1>22. CASE RecordPid
    BY <1>22 DEF RecordPid, TypeOK, Pid
  <1>23. CASE PublishPid
    BY <1>23 DEF PublishPid, TypeOK, Pid
  <1>24. CASE PublishFindsNothing
    BY <1>24 DEF PublishFindsNothing, FailEntry, Say, AppendLine, TypeOK, Heartbeat,
       TerminalHb
  <1>25. CASE RecordPidFails
    BY <1>25 DEF RecordPidFails, FailEntry, Say, AppendLine, TypeOK, Heartbeat,
       TerminalHb
  <1>26. CASE FailEntryFails
    BY <1>26 DEF FailEntryFails, TypeOK
  <1>27. CASE ReadHeartbeat
    BY <1>27 DEF ReadHeartbeat, TypeOK
  <1>28. CASE Reap
    BY <1>28 DEF Reap, ReapedState, Open, TypeOK, RunState, InFlight, Terminal
  <1>29. CASE Judge
    BY <1>29 DEF Judge, Judgement, Alive, Unseen, TypeOK, RunState, InFlight, Terminal
  <1>30. CASE Pass
    BY <1>30 DEF Pass, Open, Idle, TypeOK
  <1>31. CASE UNCHANGED vars
    BY <1>31 DEF vars, TypeOK
  <1>32. QED
    BY <1>1, <1>2, <1>3, <1>4, <1>5, <1>6, <1>7, <1>8, <1>9, <1>10, <1>11, <1>12, <1>13,
       <1>14, <1>15, <1>16, <1>17, <1>18, <1>19, <1>20, <1>21, <1>22, <1>23, <1>24, <1>25,
       <1>26, <1>27, <1>28, <1>29, <1>30, <1>31 DEF Next, ProcessStep, AdapterStep,
       TickerStep

\* Every variable keeps its type, for every set of jobs, interval and fault budget.
THEOREM AdapterTypeCorrect == Spec => []TypeOK
  BY TypeInit, TypeStep, PTL DEF Spec
------------------------------------------------------------------------------
\* A process that has ended has an exit code, and a child begins with its launch.
ProcessInv ==
    /\ Over => process.code # "none"
    /\ process.state = "unborn" =>
          job.watches = "child" /\ adapter \in {"unborn", "starting", "launching", "gone"}
    /\ job.watches = "child" /\ adapter \in {"unborn", "starting", "launching"} =>
          process.state = "unborn"

\* A verdict is earned, is the adapter's last word, and is all a completed run rests on.
VerdictInv ==
    /\ ticker = "spawning" => adapter = "unborn" /\ heartbeat = "none"
    /\ adapter = "ending" => verdict # "none"
    /\ verdict # "none" => adapter \in {"ending", "gone"}
    /\ \A v \in {"COMPLETED", "FAILED"} : verdict = v => Earned(v)
    /\ heartbeat = "COMPLETED" => verdict = "COMPLETED"
    /\ run = "completed" => verdict = "COMPLETED"

\* ProcessInv holds at first.
LEMMA ProcessInit == Init => ProcessInv
  BY JobFields DEF Init, ProcessInv, Over

\* ProcessInv is kept by every step.
LEMMA ProcessStepKept ==
    ASSUME TypeOK, ProcessInv, VerdictInv, [Next]_vars
    PROVE  ProcessInv'
  <1> USE JobFields DEF ProcessInv, Over
  <1>1. CASE \E m \in Marker : WriteLine(m)
    BY <1>1 DEF WriteLine, TypeOK
  <1>2. CASE TouchSentinel
    BY <1>2 DEF TouchSentinel, TypeOK
  <1>3. CASE \E code \in {"ok", "bad"} : Exit(code)
    BY <1>3 DEF Exit, TypeOK
  <1>4. CASE EmitStarting
    BY <1>4 DEF EmitStarting, Say, AppendLine, TypeOK
  <1>5. CASE Launch
    BY <1>5 DEF Launch, AfterLaunch, HasSignal, TypeOK
  <1>6. CASE LaunchFails
    BY <1>6 DEF LaunchFails, Say, AppendLine, TypeOK
  <1>7. CASE WriteTemp
    BY <1>7 DEF WriteTemp, TypeOK
  <1>8. CASE PublishTemp
    BY <1>8 DEF PublishTemp, TypeOK
  <1>9. CASE RecordFails
    BY <1>9 DEF RecordFails, TypeOK
  <1>10. CASE ScanLog
    BY <1>10 DEF ScanLog, Conclude, TypeOK
  <1>11. CASE LookForSentinel
    BY <1>11 DEF LookForSentinel, Conclude, TypeOK
  <1>12. CASE ProbeProcess
    BY <1>12 DEF ProbeProcess, Conclude, EndVerdict, ExitVerdict, Collected, TypeOK
  <1>13. CASE Greet
    BY <1>13 DEF Greet, Say, AppendLine, TypeOK
  <1>14. CASE Beat
    BY <1>14 DEF Beat, Say, AppendLine, TypeOK
  <1>15. CASE Poll
    BY <1>15 DEF Poll, TypeOK
  <1>16. CASE Wait
    BY <1>16 DEF Wait, ExitVerdict, Collected, TypeOK
  <1>17. CASE EmitTerminal
    BY <1>17 DEF EmitTerminal, Say, AppendLine, Collected, TypeOK
  <1>18. CASE AdapterFault
    BY <1>18 DEF AdapterFault, Collapse, Collected, TypeOK
  <1>19. CASE Kill
    BY <1>19 DEF Kill, Collected, TypeOK
  <1>20. CASE Spawn
    BY <1>20 DEF Spawn, TypeOK, VerdictInv
  <1>21. CASE SpawnFails
    BY <1>21 DEF SpawnFails, FailEntry, Say, AppendLine, TypeOK
  <1>22. CASE RecordPid
    BY <1>22 DEF RecordPid, TypeOK
  <1>23. CASE PublishPid
    BY <1>23 DEF PublishPid, TypeOK
  <1>24. CASE PublishFindsNothing
    BY <1>24 DEF PublishFindsNothing, FailEntry, Say, AppendLine, TypeOK
  <1>25. CASE RecordPidFails
    BY <1>25 DEF RecordPidFails, FailEntry, Say, AppendLine, TypeOK
  <1>26. CASE FailEntryFails
    BY <1>26 DEF FailEntryFails, TypeOK
  <1>27. CASE ReadHeartbeat
    BY <1>27 DEF ReadHeartbeat, TypeOK
  <1>28. CASE Reap
    BY <1>28 DEF Reap, ReapedState, Open, TypeOK
  <1>29. CASE Judge
    BY <1>29 DEF Judge, Judgement, Alive, Unseen, TypeOK
  <1>30. CASE Pass
    BY <1>30 DEF Pass, Open, Idle, TypeOK
  <1>31. CASE UNCHANGED vars
    BY <1>31 DEF vars, TypeOK
  <1>32. QED
    BY <1>1, <1>2, <1>3, <1>4, <1>5, <1>6, <1>7, <1>8, <1>9, <1>10, <1>11, <1>12, <1>13,
       <1>14, <1>15, <1>16, <1>17, <1>18, <1>19, <1>20, <1>21, <1>22, <1>23, <1>24, <1>25,
       <1>26, <1>27, <1>28, <1>29, <1>30, <1>31 DEF Next, ProcessStep, AdapterStep,
       TickerStep

\* What a verdict rests on does not go away: a process stays over with its exit code,
\* a marker stays in the log, the sentinel file stays.
LEMMA EvidenceStays ==
    ASSUME TypeOK, ProcessInv, [Next]_vars
    PROVE  /\ job' = job /\ (flag => flag')
           /\ Over => Over' /\ process'.code = process.code
           /\ \A i \in DOMAIN log : i \in DOMAIN log' /\ log'[i] = log[i]
  <1> USE DEF Over
  <1>1. CASE \E m \in Marker : WriteLine(m)
    BY <1>1 DEF WriteLine, TypeOK
  <1>2. CASE TouchSentinel
    BY <1>2 DEF TouchSentinel
  <1>3. CASE \E code \in {"ok", "bad"} : Exit(code)
    BY <1>3 DEF Exit, TypeOK
  <1>4. CASE EmitStarting
    BY <1>4 DEF EmitStarting, Say, AppendLine
  <1>5. CASE Launch
    BY <1>5 DEF Launch, AfterLaunch, HasSignal, TypeOK, ProcessInv
  <1>6. CASE LaunchFails
    BY <1>6 DEF LaunchFails, Say, AppendLine
  <1>7. CASE WriteTemp
    BY <1>7 DEF WriteTemp
  <1>8. CASE PublishTemp
    BY <1>8 DEF PublishTemp
  <1>9. CASE RecordFails
    BY <1>9 DEF RecordFails
  <1>10. CASE ScanLog
    BY <1>10 DEF ScanLog, Conclude
  <1>11. CASE LookForSentinel
    BY <1>11 DEF LookForSentinel, Conclude
  <1>12. CASE ProbeProcess
    BY <1>12 DEF ProbeProcess, Conclude, EndVerdict, ExitVerdict, Collected, TypeOK
  <1>13. CASE Greet
    BY <1>13 DEF Greet, Say, AppendLine
  <1>14. CASE Beat
    BY <1>14 DEF Beat, Say, AppendLine
  <1>15. CASE Poll
    BY <1>15 DEF Poll
  <1>16. CASE Wait
    BY <1>16 DEF Wait, ExitVerdict, Collected, TypeOK
  <1>17. CASE EmitTerminal
    BY <1>17 DEF EmitTerminal, Say, AppendLine, Collected, TypeOK
  <1>18. CASE AdapterFault
    BY <1>18 DEF AdapterFault, Collapse, Collected, TypeOK
  <1>19. CASE Kill
    BY <1>19 DEF Kill, Collected, TypeOK
  <1>20. CASE Spawn
    BY <1>20 DEF Spawn
  <1>21. CASE SpawnFails
    BY <1>21 DEF SpawnFails, FailEntry, Say, AppendLine
  <1>22. CASE RecordPid
    BY <1>22 DEF RecordPid
  <1>23. CASE PublishPid
    BY <1>23 DEF PublishPid
  <1>24. CASE PublishFindsNothing
    BY <1>24 DEF PublishFindsNothing, FailEntry, Say, AppendLine
  <1>25. CASE RecordPidFails
    BY <1>25 DEF RecordPidFails, FailEntry, Say, AppendLine
  <1>26. CASE FailEntryFails
    BY <1>26 DEF FailEntryFails
  <1>27. CASE ReadHeartbeat
    BY <1>27 DEF ReadHeartbeat
  <1>28. CASE Reap
    BY <1>28 DEF Reap, ReapedState, Open
  <1>29. CASE Judge
    BY <1>29 DEF Judge, Judgement, Alive, Unseen
  <1>30. CASE Pass
    BY <1>30 DEF Pass, Open, Idle
  <1>31. CASE UNCHANGED vars
    BY <1>31 DEF vars
  <1>32. QED
    BY <1>1, <1>2, <1>3, <1>4, <1>5, <1>6, <1>7, <1>8, <1>9, <1>10, <1>11, <1>12, <1>13,
       <1>14, <1>15, <1>16, <1>17, <1>18, <1>19, <1>20, <1>21, <1>22, <1>23, <1>24, <1>25,
       <1>26, <1>27, <1>28, <1>29, <1>30, <1>31 DEF Next, ProcessStep, AdapterStep,
       TickerStep

\* Hence a verdict that was earned stays earned.
LEMMA EarnedStays ==
    ASSUME TypeOK, ProcessInv, [Next]_vars, NEW v, Earned(v)
    PROVE  Earned(v)'
  <1>1. \A m : Says(m) => Says(m)'
    BY EvidenceStays DEF Says
  <1>2. QED
    BY <1>1, EvidenceStays DEF Earned, Over

\* The first of the new lines that carry a marker is one of them.
LEMMA DecisiveIsMarked ==
    ASSUME TypeOK, Marked # {}
    PROVE  Decisive \in Marked
  <1>1. Marked \subseteq Nat
    BY DEF TypeOK, Marked
  <1>2. PICK i \in Marked : \A j \in Marked : ~(<<j, i>> \in OpToRel(<, Nat))
    BY <1>1, NatLessThanWellFounded, WFMin
  <1>3. \A j \in Marked : i <= j
    <2>1. SUFFICES ASSUME NEW j \in Marked, ~(i <= j) PROVE FALSE
      OBVIOUS
    <2>2. i \in Nat /\ j \in Nat /\ j < i
      BY <1>1, <2>1
    <2>3. <<j, i>> \in {ss \in Nat \X Nat : ss[1] < ss[2]}
      BY <2>2
    <2>4. QED
      BY <1>2, <2>3 DEF OpToRel
  <1>4. QED
    BY <1>2, <1>3 DEF Decisive

\* VerdictInv holds at first: nothing has been decided or said.
LEMMA VerdictInit == Init => VerdictInv
  BY DEF Init, VerdictInv

\* The three steps at which a tail decides, and the one at which wrap does, decide on
\* what is there: a marker in the log, the sentinel file, the end of the process.
LEMMA NewVerdictIsEarned ==
    ASSUME TypeOK, ProcessInv, [Next]_vars, NEW v \in {"COMPLETED", "FAILED"},
           ScanLog \/ LookForSentinel \/ ProbeProcess \/ Wait, verdict' = v, verdict = "none"
    PROVE  Earned(v)
  <1>1. CASE ScanLog
    <2>1. Marked # {} /\ v = IF log[Decisive] = "good" THEN "COMPLETED" ELSE "FAILED"
      BY <1>1 DEF ScanLog, Conclude
    <2>2. Decisive \in DOMAIN log /\ log[Decisive] \in job.markers /\ log[Decisive] \in Marker
      BY <2>1, DecisiveIsMarked DEF TypeOK, Marked
    <2>3. QED
      BY <2>1, <2>2 DEF Earned, Says, Marker
  <1>2. CASE LookForSentinel
    BY <1>2 DEF LookForSentinel, Conclude, Earned
  <1>3. CASE ProbeProcess
    BY <1>3, JobFields DEF ProbeProcess, Conclude, EndVerdict, ExitVerdict, Earned, Over,
                           TypeOK, ProcessInv
  <1>4. CASE Wait
    BY <1>4, JobFields DEF Wait, ExitVerdict, Earned, Over, TypeOK, ProcessInv
  <1>5. QED
    BY <1>1, <1>2, <1>3, <1>4

\* VerdictInv is kept by every step.
LEMMA VerdictStepKept ==
    ASSUME TypeOK, ProcessInv, VerdictInv, [Next]_vars
    PROVE  VerdictInv'
  <1>0. \A v \in {"COMPLETED", "FAILED"} : Earned(v) => Earned(v)'
    BY EarnedStays
  <1> USE <1>0 DEF VerdictInv
  <1>1. CASE \E m \in Marker : WriteLine(m)
    BY <1>1 DEF WriteLine
  <1>2. CASE TouchSentinel
    BY <1>2 DEF TouchSentinel
  <1>3. CASE \E code \in {"ok", "bad"} : Exit(code)
    BY <1>3 DEF Exit
  <1>4. CASE EmitStarting
    BY <1>4 DEF EmitStarting, Say, AppendLine
  <1>5. CASE Launch
    BY <1>5 DEF Launch, AfterLaunch, HasSignal
  <1>6. CASE LaunchFails
    BY <1>6 DEF LaunchFails, Say, AppendLine
  <1>7. CASE WriteTemp
    BY <1>7 DEF WriteTemp
  <1>8. CASE PublishTemp
    BY <1>8 DEF PublishTemp
  <1>9. CASE RecordFails
    BY <1>9 DEF RecordFails
  <1>10. CASE ScanLog
    <2>1. verdict = "none"
      BY <1>10 DEF ScanLog
    <2>2. \A v \in {"COMPLETED", "FAILED"} : verdict' = v => Earned(v)
      BY <1>10, <2>1, NewVerdictIsEarned
    <2>3. verdict' # "none" => adapter' \in {"ending", "gone"}
      BY <1>10, <2>1 DEF ScanLog, Conclude
    <2>4. adapter' = "ending" => verdict' # "none"
      BY <1>10, <2>1 DEF ScanLog, Conclude
    <2>5. UNCHANGED <<ticker, heartbeat, run>>
      BY <1>10 DEF ScanLog
    <2>6. QED
      BY <1>0, <2>1, <2>2, <2>3, <2>4, <2>5, <1>10 DEF ScanLog
  <1>11. CASE LookForSentinel
    <2>1. verdict = "none"
      BY <1>11 DEF LookForSentinel
    <2>2. \A v \in {"COMPLETED", "FAILED"} : verdict' = v => Earned(v)
      BY <1>11, <2>1, NewVerdictIsEarned
    <2>3. verdict' # "none" => adapter' \in {"ending", "gone"}
      BY <1>11, <2>1 DEF LookForSentinel, Conclude
    <2>4. adapter' = "ending" => verdict' # "none"
      BY <1>11, <2>1 DEF LookForSentinel, Conclude
    <2>5. UNCHANGED <<ticker, heartbeat, run>>
      BY <1>11 DEF LookForSentinel
    <2>6. QED
      BY <1>0, <2>1, <2>2, <2>3, <2>4, <2>5, <1>11 DEF LookForSentinel
  <1>12. CASE ProbeProcess
    <2>1. verdict = "none"
      BY <1>12 DEF ProbeProcess
    <2>2. \A v \in {"COMPLETED", "FAILED"} : verdict' = v => Earned(v)
      BY <1>12, <2>1, NewVerdictIsEarned
    <2>3. verdict' # "none" => adapter' \in {"ending", "gone"}
      BY <1>12, <2>1 DEF ProbeProcess, Conclude
    <2>4. adapter' = "ending" => verdict' # "none"
      BY <1>12, <2>1 DEF ProbeProcess, Conclude
    <2>5. UNCHANGED <<ticker, heartbeat, run>>
      BY <1>12 DEF ProbeProcess
    <2>6. QED
      BY <1>0, <2>1, <2>2, <2>3, <2>4, <2>5, <1>12 DEF ProbeProcess
  <1>13. CASE Greet
    BY <1>13 DEF Greet, Say, AppendLine
  <1>14. CASE Beat
    BY <1>14 DEF Beat, Say, AppendLine
  <1>15. CASE Poll
    BY <1>15 DEF Poll
  <1>16. CASE Wait
    <2>1. verdict = "none"
      BY <1>16 DEF Wait
    <2>2. \A v \in {"COMPLETED", "FAILED"} : verdict' = v => Earned(v)
      BY <1>16, <2>1, NewVerdictIsEarned
    <2>3. verdict' # "none" => adapter' \in {"ending", "gone"}
      BY <1>16, <2>1 DEF Wait
    <2>4. adapter' = "ending" => verdict' # "none"
      BY <1>16, <2>1 DEF Wait, ExitVerdict
    <2>5. UNCHANGED <<ticker, heartbeat, run>>
      BY <1>16 DEF Wait
    <2>6. QED
      BY <1>0, <2>1, <2>2, <2>3, <2>4, <2>5, <1>16 DEF Wait
  <1>17. CASE EmitTerminal
    BY <1>17 DEF EmitTerminal, Say, AppendLine, Collected, TypeOK
  <1>18. CASE AdapterFault
    BY <1>18 DEF AdapterFault, Collapse, Collected
  <1>19. CASE Kill
    BY <1>19 DEF Kill, Collected
  <1>20. CASE Spawn
    BY <1>20 DEF Spawn
  <1>21. CASE SpawnFails
    BY <1>21 DEF SpawnFails, FailEntry, Say, AppendLine
  <1>22. CASE RecordPid
    BY <1>22 DEF RecordPid
  <1>23. CASE PublishPid
    BY <1>23 DEF PublishPid
  <1>24. CASE PublishFindsNothing
    BY <1>24 DEF PublishFindsNothing, FailEntry, Say, AppendLine
  <1>25. CASE RecordPidFails
    BY <1>25 DEF RecordPidFails, FailEntry, Say, AppendLine
  <1>26. CASE FailEntryFails
    BY <1>26 DEF FailEntryFails
  <1>27. CASE ReadHeartbeat
    BY <1>27 DEF ReadHeartbeat
  <1>28. CASE Reap
    BY <1>28 DEF Reap, ReapedState, Open, TypeOK, TerminalHb
  <1>29. CASE Judge
    BY <1>29 DEF Judge, Judgement, Alive, Unseen, TypeOK
  <1>30. CASE Pass
    BY <1>30 DEF Pass, Open, Idle
  <1>31. CASE UNCHANGED vars
    BY <1>31 DEF vars
  <1>32. QED
    BY <1>1, <1>2, <1>3, <1>4, <1>5, <1>6, <1>7, <1>8, <1>9, <1>10, <1>11, <1>12, <1>13,
       <1>14, <1>15, <1>16, <1>17, <1>18, <1>19, <1>20, <1>21, <1>22, <1>23, <1>24, <1>25,
       <1>26, <1>27, <1>28, <1>29, <1>30, <1>31 DEF Next, ProcessStep, AdapterStep,
       TickerStep

\* The adapter decides nothing its job has not shown, and no run is completed on
\* anything else than the adapter's word.
THEOREM VerdictsAreEarned == Spec => []VerdictIsEarned
  <1>1. TypeOK /\ VerdictInv => VerdictIsEarned
    BY DEF VerdictInv, VerdictIsEarned, TypeOK
  <1>2. TypeOK /\ ProcessInv /\ VerdictInv /\ [Next]_vars
            => TypeOK' /\ ProcessInv' /\ VerdictInv'
    BY TypeStep, ProcessStepKept, VerdictStepKept
  <1>3. Init => TypeOK /\ ProcessInv /\ VerdictInv
    BY TypeInit, ProcessInit, VerdictInit
  <1>4. QED
    BY <1>1, <1>2, <1>3, PTL DEF Spec
------------------------------------------------------------------------------
\* As long as nothing was killed and no OSError fell, a wrapped command ends before its
\* adapter does, and the lock only ever holds the PID of the adapter.
CommandInv ==
    job.adapter = "wrap" /\ kills = MaxKills /\ faults = MaxFaults =>
        /\ adapter \in {"ending", "gone"} => process.state # "running"
        /\ adapter \notin {"locking", "publishing", "scanning", "looking", "probing", "beating"}
        /\ heartbeat \in {"FAILED", "ABANDONED"} \/ run = "failed" =>
              process.state # "running" /\ adapter \in {"gone", "unborn"}
        /\ {lock, temp} \subseteq {"none", "adapter"}
        /\ ticker = "publishing" => temp = "adapter"

\* Runs start claimed, and stay so until the engine reads the heartbeat.
SpawnInv == ticker = "spawning" => run = "claimed"

\* CommandInv and SpawnInv hold at first.
LEMMA CommandInit == Init => CommandInv /\ SpawnInv
  BY DEF Init, CommandInv, SpawnInv

\* SpawnInv is kept: only a tick after the spawning changes the run.
LEMMA SpawnStepKept ==
    ASSUME TypeOK, SpawnInv, [Next]_vars
    PROVE  SpawnInv'
  <1> USE DEF SpawnInv
  <1>1. CASE \E m \in Marker : WriteLine(m)
    BY <1>1 DEF WriteLine
  <1>2. CASE TouchSentinel
    BY <1>2 DEF TouchSentinel
  <1>3. CASE \E code \in {"ok", "bad"} : Exit(code)
    BY <1>3 DEF Exit
  <1>4. CASE EmitStarting
    BY <1>4 DEF EmitStarting, Say, AppendLine
  <1>5. CASE Launch
    BY <1>5 DEF Launch, AfterLaunch, HasSignal
  <1>6. CASE LaunchFails
    BY <1>6 DEF LaunchFails, Say, AppendLine
  <1>7. CASE WriteTemp
    BY <1>7 DEF WriteTemp
  <1>8. CASE PublishTemp
    BY <1>8 DEF PublishTemp
  <1>9. CASE RecordFails
    BY <1>9 DEF RecordFails
  <1>10. CASE ScanLog
    BY <1>10 DEF ScanLog, Conclude
  <1>11. CASE LookForSentinel
    BY <1>11 DEF LookForSentinel, Conclude
  <1>12. CASE ProbeProcess
    BY <1>12 DEF ProbeProcess, Conclude, EndVerdict, ExitVerdict, Collected
  <1>13. CASE Greet
    BY <1>13 DEF Greet, Say, AppendLine
  <1>14. CASE Beat
    BY <1>14 DEF Beat, Say, AppendLine
  <1>15. CASE Poll
    BY <1>15 DEF Poll
  <1>16. CASE Wait
    BY <1>16 DEF Wait, ExitVerdict, Collected
  <1>17. CASE EmitTerminal
    BY <1>17 DEF EmitTerminal, Say, AppendLine, Collected
  <1>18. CASE AdapterFault
    BY <1>18 DEF AdapterFault, Collapse, Collected
  <1>19. CASE Kill
    BY <1>19 DEF Kill, Collected
  <1>20. CASE Spawn
    BY <1>20 DEF Spawn
  <1>21. CASE SpawnFails
    BY <1>21 DEF SpawnFails, FailEntry, Say, AppendLine
  <1>22. CASE RecordPid
    BY <1>22 DEF RecordPid
  <1>23. CASE PublishPid
    BY <1>23 DEF PublishPid
  <1>24. CASE PublishFindsNothing
    BY <1>24 DEF PublishFindsNothing, FailEntry, Say, AppendLine
  <1>25. CASE RecordPidFails
    BY <1>25 DEF RecordPidFails, FailEntry, Say, AppendLine
  <1>26. CASE FailEntryFails
    BY <1>26 DEF FailEntryFails
  <1>27. CASE ReadHeartbeat
    BY <1>27 DEF ReadHeartbeat
  <1>28. CASE Reap
    BY <1>28 DEF Reap, ReapedState, Open
  <1>29. CASE Judge
    BY <1>29 DEF Judge, Judgement, Alive, Unseen
  <1>30. CASE Pass
    BY <1>30 DEF Pass, Open, Idle
  <1>31. CASE UNCHANGED vars
    BY <1>31 DEF vars
  <1>32. QED
    BY <1>1, <1>2, <1>3, <1>4, <1>5, <1>6, <1>7, <1>8, <1>9, <1>10, <1>11, <1>12, <1>13,
       <1>14, <1>15, <1>16, <1>17, <1>18, <1>19, <1>20, <1>21, <1>22, <1>23, <1>24, <1>25,
       <1>26, <1>27, <1>28, <1>29, <1>30, <1>31 DEF Next, ProcessStep, AdapterStep,
       TickerStep

\* CommandInv is kept by every step.
LEMMA CommandStepKept ==
    ASSUME TypeOK, ProcessInv, VerdictInv, SpawnInv, CommandInv, [Next]_vars
    PROVE  CommandInv'
  <1>0. /\ kills \in Int /\ faults \in Int /\ kills <= MaxKills /\ faults <= MaxFaults
        /\ process.state \in {"unborn", "running", "exited", "gone"}
    BY AdapterAssumption DEF TypeOK
  <1> USE <1>0, JobFields, AdapterAssumption DEF CommandInv
  <1>1. CASE \E m \in Marker : WriteLine(m)
    BY <1>1 DEF WriteLine
  <1>2. CASE TouchSentinel
    BY <1>2 DEF TouchSentinel
  <1>3. CASE \E code \in {"ok", "bad"} : Exit(code)
    BY <1>3 DEF Exit, TypeOK, ProcessInv
  <1>4. CASE EmitStarting
    BY <1>4 DEF EmitStarting, Say, AppendLine
  <1>5. CASE Launch
    BY <1>5 DEF Launch, AfterLaunch, HasSignal, TypeOK, ProcessInv
  <1>6. CASE LaunchFails
    BY <1>6 DEF LaunchFails, Say, AppendLine, TypeOK, ProcessInv
  <1>7. CASE WriteTemp
    BY <1>7 DEF WriteTemp
  <1>8. CASE PublishTemp
    BY <1>8 DEF PublishTemp
  <1>9. CASE RecordFails
    BY <1>9 DEF RecordFails
  <1>10. CASE ScanLog
    BY <1>10 DEF ScanLog, Conclude
  <1>11. CASE LookForSentinel
    BY <1>11 DEF LookForSentinel, Conclude
  <1>12. CASE ProbeProcess
    BY <1>12 DEF ProbeProcess, Conclude, EndVerdict, ExitVerdict, Collected, TypeOK
  <1>13. CASE Greet
    BY <1>13 DEF Greet, Say, AppendLine
  <1>14. CASE Beat
    BY <1>14 DEF Beat, Say, AppendLine
  <1>15. CASE Poll
    BY <1>15 DEF Poll
  <1>16. CASE Wait
    BY <1>16 DEF Wait, ExitVerdict, Collected, TypeOK
  <1>17. CASE EmitTerminal
    BY <1>17 DEF EmitTerminal, Say, AppendLine, Collected, TypeOK, ProcessInv
  <1>18. CASE AdapterFault
    BY <1>18 DEF AdapterFault, Collapse, Collected
  <1>19. CASE Kill
    BY <1>19 DEF Kill, Collected, TypeOK
  <1>20. CASE Spawn
    BY <1>20 DEF Spawn, TypeOK, ProcessInv, VerdictInv, SpawnInv
  <1>21. CASE SpawnFails
    BY <1>21 DEF SpawnFails, FailEntry, Say, AppendLine, TypeOK, ProcessInv, VerdictInv,
       SpawnInv
  <1>22. CASE RecordPid
    BY <1>22 DEF RecordPid
  <1>23. CASE PublishPid
    BY <1>23 DEF PublishPid
  <1>24. CASE PublishFindsNothing
    BY <1>24 DEF PublishFindsNothing, FailEntry, Say, AppendLine
  <1>25. CASE RecordPidFails
    BY <1>25 DEF RecordPidFails, FailEntry, Say, AppendLine
  <1>26. CASE FailEntryFails
    BY <1>26 DEF FailEntryFails
  <1>27. CASE ReadHeartbeat
    BY <1>27 DEF ReadHeartbeat
  <1>28. CASE Reap
    BY <1>28 DEF Reap, ReapedState, Open, TypeOK, TerminalHb
  <1>29. CASE Judge
    BY <1>29 DEF Judge, Judgement, Alive, Unseen
  <1>30. CASE Pass
    BY <1>30 DEF Pass, Open, Idle
  <1>31. CASE UNCHANGED vars
    BY <1>31 DEF vars
  <1>32. QED
    BY <1>1, <1>2, <1>3, <1>4, <1>5, <1>6, <1>7, <1>8, <1>9, <1>10, <1>11, <1>12, <1>13,
       <1>14, <1>15, <1>16, <1>17, <1>18, <1>19, <1>20, <1>21, <1>22, <1>23, <1>24, <1>25,
       <1>26, <1>27, <1>28, <1>29, <1>30, <1>31 DEF Next, ProcessStep, AdapterStep,
       TickerStep

\* A wrapped command is over, or never began, when its run is failed.
THEOREM WrappedCommandsAreOver == Spec => []FailedCommandIsOver
  <1>1. CommandInv => FailedCommandIsOver
    BY DEF CommandInv, FailedCommandIsOver
  <1>2. /\ TypeOK /\ ProcessInv /\ VerdictInv /\ SpawnInv /\ CommandInv /\ [Next]_vars
        => TypeOK' /\ ProcessInv' /\ VerdictInv' /\ SpawnInv' /\ CommandInv'
    BY TypeStep, ProcessStepKept, VerdictStepKept, SpawnStepKept, CommandStepKept
  <1>3. Init => TypeOK /\ ProcessInv /\ VerdictInv /\ SpawnInv /\ CommandInv
    BY TypeInit, ProcessInit, VerdictInit, CommandInit
  <1>4. QED
    BY <1>1, <1>2, <1>3, PTL DEF Spec
------------------------------------------------------------------------------
\* A process that will write again unless it is killed or fails.
Living == adapter \notin {"unborn", "gone"}

\* What a living adapter owes the engine: a word at the start, and another before the
\* keepalive interval is over, also in what a tick has read and not yet judged.
BeatInv ==
    /\ ticker = "spawning" \/ adapter = "starting" => quiet = 0
    /\ Living => quiet <= KeepAlive
    /\ Living /\ adapter # "starting" => heartbeat # "none"
    /\ Living /\ ticker = "judging" =>
          IF seen.any THEN seen.age <= KeepAlive ELSE seen.age = 0
    /\ QuietNeverStalls

\* BeatInv holds at first.
LEMMA BeatInit == Init => BeatInv
  BY DEF Init, BeatInv, Living, QuietNeverStalls

\* BeatInv is kept by every step: time passes for a living adapter only while it rests
\* with nothing due, and a verdict of silence needs more silence than that.
LEMMA BeatStepKept ==
    ASSUME TypeOK, VerdictInv, SpawnInv, BeatInv, [Next]_vars
    PROVE  BeatInv'
  <1>0. /\ quiet \in Nat /\ seen.age \in Nat /\ Stall \in Nat /\ Grace \in Nat
        /\ KeepAlive \in Nat \ {0}
        /\ \A line \in {"beat", "FAILED"} : AppendLine(heartbeat, line) # "none"
    BY AgeCapIsNat, AdapterAssumption DEF TypeOK, AppendLine, TerminalHb
  <1> USE <1>0 DEF BeatInv, Living, QuietNeverStalls
  <1>1. CASE \E m \in Marker : WriteLine(m)
    BY <1>1 DEF WriteLine
  <1>2. CASE TouchSentinel
    BY <1>2 DEF TouchSentinel
  <1>3. CASE \E code \in {"ok", "bad"} : Exit(code)
    BY <1>3 DEF Exit
  <1>4. CASE EmitStarting
    BY <1>4 DEF EmitStarting, Say
  <1>5. CASE Launch
    BY <1>5 DEF Launch, AfterLaunch
  <1>6. CASE LaunchFails
    BY <1>6 DEF LaunchFails, Say
  <1>7. CASE WriteTemp
    BY <1>7 DEF WriteTemp
  <1>8. CASE PublishTemp
    BY <1>8 DEF PublishTemp
  <1>9. CASE RecordFails
    BY <1>9 DEF RecordFails
  <1>10. CASE ScanLog
    BY <1>10 DEF ScanLog, Conclude
  <1>11. CASE LookForSentinel
    BY <1>11 DEF LookForSentinel, Conclude
  <1>12. CASE ProbeProcess
    BY <1>12 DEF ProbeProcess, Conclude
  <1>13. CASE Greet
    BY <1>13 DEF Greet, Say
  <1>14. CASE Beat
    BY <1>14 DEF Beat, Say
  <1>15. CASE Poll
    BY <1>15 DEF Poll
  <1>16. CASE Wait
    BY <1>16 DEF Wait
  <1>17. CASE EmitTerminal
    BY <1>17 DEF EmitTerminal, Say
  <1>18. CASE AdapterFault
    BY <1>18 DEF AdapterFault, Collapse
  <1>19. CASE Kill
    BY <1>19 DEF Kill
  <1>20. CASE Spawn
    BY <1>20 DEF Spawn, VerdictInv, SpawnInv
  <1>21. CASE SpawnFails
    BY <1>21 DEF SpawnFails, FailEntry, Say, VerdictInv, SpawnInv
  <1>22. CASE RecordPid
    BY <1>22 DEF RecordPid
  <1>23. CASE PublishPid
    BY <1>23 DEF PublishPid
  <1>24. CASE PublishFindsNothing
    BY <1>24 DEF PublishFindsNothing, FailEntry, Say
  <1>25. CASE RecordPidFails
    BY <1>25 DEF RecordPidFails, FailEntry, Say
  <1>26. CASE FailEntryFails
    BY <1>26 DEF FailEntryFails
  <1>27. CASE ReadHeartbeat
    BY <1>27 DEF ReadHeartbeat
  <1>28. CASE Reap
    BY <1>28 DEF Reap, ReapedState, Open
  <1>29. CASE Judge
    BY <1>29 DEF Judge, Judgement, Alive, Unseen
  <1>30. CASE Pass
    BY <1>30 DEF Pass, Open, Idle, Due
  <1>31. CASE UNCHANGED vars
    BY <1>31 DEF vars
  <1>32. QED
    BY <1>1, <1>2, <1>3, <1>4, <1>5, <1>6, <1>7, <1>8, <1>9, <1>10, <1>11, <1>12, <1>13,
       <1>14, <1>15, <1>16, <1>17, <1>18, <1>19, <1>20, <1>21, <1>22, <1>23, <1>24, <1>25,
       <1>26, <1>27, <1>28, <1>29, <1>30, <1>31 DEF Next, ProcessStep, AdapterStep,
       TickerStep

\* A living adapter, however quiet its command, is never taken for one that was never
\* launched; nor for stalled, in a plan whose keepalive interval does not exceed the
\* stall threshold, which check_plan does not ask for.
THEOREM QuietCommandsNeverStall == Spec => []QuietNeverStalls
  <1>1. BeatInv => QuietNeverStalls
    BY DEF BeatInv
  <1>2. /\ TypeOK /\ ProcessInv /\ VerdictInv /\ SpawnInv /\ BeatInv /\ [Next]_vars
        => TypeOK' /\ ProcessInv' /\ VerdictInv' /\ SpawnInv' /\ BeatInv'
    BY TypeStep, ProcessStepKept, VerdictStepKept, SpawnStepKept, BeatStepKept
  <1>3. Init => TypeOK /\ ProcessInv /\ VerdictInv /\ SpawnInv /\ BeatInv
    BY TypeInit, ProcessInit, VerdictInit, CommandInit, BeatInit
  <1>4. QED
    BY <1>1, <1>2, <1>3, PTL DEF Spec
=============================================================================
