------------------------------ MODULE HostsProofs ------------------------------
(***************************************************************************)
(* Proofs about Hosts, for all deployments and every value of the numbers: *)
(* the types, and that the tick lock makes the ticks of several hosts one  *)
(* sequence as long as its file opens: no job is launched twice and no end *)
(* is taken back; and that a lone loop never takes its own pace for a      *)
(* sleep of the machine.                                                   *)
(***************************************************************************)
EXTENDS Hosts, TLAPS

LEMMA SetupType ==
    ASSUME TypeOK
    PROVE  /\ setup \in Deployment /\ setup.interval \in Nat \ {0}
           /\ setup.first \subseteq Jobs /\ setup.shell \subseteq Jobs
           /\ setup.orders \subseteq Orders /\ SinceCap \in Nat
  <1>1. setup \in Deployment
    BY DeploymentAssumption DEF TypeOK
  <1>2. setup.interval \in Nat \ {0}
    BY <1>1 DEF Deployment
  <1>3. \A n \in Nat : JumpGap(n) \in Nat
    BY NumberAssumption DEF JumpGap, JumpFactor
  <1>4. SinceCap \in Nat
    BY <1>2, <1>3, NumberAssumption DEF SinceCap
  <1>5. QED
    BY <1>1, <1>2, <1>4 DEF Deployment

LEMMA FreshType == \A first : Fresh(first) \in Status
  <1>1. \A first : [r \in Jobs |-> IF r \in first THEN "queued" ELSE "absent"] \in [Jobs -> JobState]
    BY DEF JobState, RunState
  <1>2. PoolSize \in Nat \ {0} /\ 0 \in Nat
    BY NumberAssumption
  <1>3. QED
    BY <1>1, <1>2 DEF Fresh, Status

LEMMA LongerType ==
    ASSUME NEW cap \in Nat, NEW age \in 0..cap, NEW n \in Nat
    PROVE  Longer(age, n, cap) \in 0..cap
  BY DEF Longer

\* A tick takes a run nowhere but to a state, and back into the queue never.
LEMMA AdvancedType ==
    ASSUME NEW h \in Hosts, NEW r \in Jobs, mem[h].run[r] \in JobState
    PROVE  /\ Advanced(h, r) \in JobState
           /\ mem[h].run[r] \in Terminal \cup {"absent"} => Advanced(h, r) = mem[h].run[r]
           /\ Advanced(h, r) = "queued" => mem[h].run[r] = "queued"
           /\ Advanced(h, r) = "absent" => mem[h].run[r] = "absent"
  BY DEF Advanced, JobState, RunState, Terminal, InFlight, ReapedState

LEMMA ControlledType ==
    ASSUME NEW s \in Status
    PROVE  Controlled(s) \in Status /\ Controlled(s).run = s.run
  <1>1. NewPool \in Nat \ {0} /\ Cadence \in Nat
    BY NumberAssumption
  <1>2. QED
    BY <1>1 DEF Controlled, Status

LEMMA NextMinutesType ==
    ASSUME TypeOK, NEW s \in Status, NEW polls
    PROVE  NextMinutes(s, polls) \in Nat
  <1>1. s.interval \in Nat
    BY DEF Status
  <1>2. Interval(s) \in Nat
    BY <1>1, SetupType DEF Interval
  <1>3. \A n \in Nat : n * IdleFactor \in Nat
    BY NumberAssumption
  <1>4. QED
    BY <1>2, <1>3 DEF NextMinutes

LEMMA ContinuationType == \A s : Continuation(s) \in {"none", "CONTINUE"} \cup Reasons
  BY DEF Continuation, Reasons

LEMMA InitType == Init => TypeOK
  <1> SUFFICES ASSUME Init PROVE TypeOK
    OBVIOUS
  <1>1. setup \in Deployment
    BY DeploymentAssumption DEF Init
  <1>2. left \in [orders: SUBSET Orders, deaths: Nat, sleeps: Nat, lockFaults: Nat]
    BY <1>1 DEF Init, Deployment
  <1>3. status \in Status /\ mem \in [Hosts -> Status]
    BY FreshType DEF Init, NoStatus
  <1>4. 0 \in 0..SilenceCap
    BY NumberAssumption
  <1>5. said \in [Jobs -> Heartbeat] /\ silence \in [Jobs -> 0..SilenceCap]
    BY <1>4 DEF Init, Heartbeat
  <1>6. QED
    BY <1>1, <1>2, <1>3, <1>5 DEF Init, TypeOK

LEMMA BeginTickType ==
    ASSUME TypeOK, NEW h \in Hosts, BeginTick(h)
    PROVE  /\ setup' = setup /\ status' \in Status /\ control' \subseteq Orders
           /\ staged' \subseteq Jobs /\ blocker' \in BOOLEAN
           /\ at' \in [Hosts -> {"asleep", "loaded", "worked", "launching", "ended"}]
           /\ mem' \in [Hosts -> Status] /\ UNCHANGED <<list, wake, since, jobVars, gap>>
  <1>1. status.run \in [Jobs -> JobState] /\ "queued" \in JobState
    BY DEF TypeOK, Status, JobState, RunState
  <1>2. [r \in Jobs |-> IF r \in Absorb THEN "queued" ELSE status.run[r]] \in [Jobs -> JobState]
    BY <1>1
  <1>3. status' \in Status
    BY <1>2 DEF BeginTick, TypeOK, Status
  <1>4. QED
    BY <1>3 DEF BeginTick, TypeOK

LEMMA LockType ==
    ASSUME TypeOK, NEW h \in Hosts,
           Begin(h) \/ BeginUnlocked(h) \/ Skip(h) \/ Resume(h)
    PROVE  TypeOK'
  <1>1. CASE Begin(h)
    BY <1>1, BeginTickType DEF Begin, TypeOK, SinceCap, jobVars
  <1>2. CASE BeginUnlocked(h)
    <2>1. left' \in [orders: SUBSET Orders, deaths: Nat, sleeps: Nat, lockFaults: Nat]
      BY <1>2 DEF BeginUnlocked, TypeOK
    <2>2. QED
      BY <1>2, <2>1, BeginTickType DEF BeginUnlocked, TypeOK, SinceCap, jobVars
  <1>3. CASE Skip(h)
    BY <1>3 DEF Skip, TypeOK, SinceCap, runDir, jobVars
  <1>4. CASE Resume(h)
    BY <1>4 DEF Resume, TypeOK, SinceCap, runDir, jobVars
  <1>5. QED
    BY <1>1, <1>2, <1>3, <1>4

LEMMA WorkType ==
    ASSUME TypeOK, NEW h \in Hosts, Work(h)
    PROVE  TypeOK'
  <1> DEFINE s       == Controlled(mem[h])
             reaped  == [s EXCEPT !.run = [r \in Jobs |-> Advanced(h, r)]]
             claimed == Chosen(reaped)
             now     == [reaped EXCEPT !.run = [r \in Jobs |-> IF r \in claimed THEN "claimed" ELSE @[r]]]
             last    == [now EXCEPT !.done = Done(now), !.due = NextMinutes(now, PollsNow(s)),
                                    !.verdict = Continuation(now)]
  <1>1. mem[h] \in Status /\ mem[h].run \in [Jobs -> JobState]
    BY DEF TypeOK, Status
  <1>2. s \in Status
    BY <1>1, ControlledType
  <1>3. [r \in Jobs |-> Advanced(h, r)] \in [Jobs -> JobState]
    BY <1>1, AdvancedType
  <1>4. reaped \in Status
    BY <1>2, <1>3 DEF Status
  <1>5. claimed \subseteq Jobs
    BY DEF Chosen, In
  <1>6. now \in Status
    <2>. HIDE DEF reaped, claimed
    <2>1. reaped.run \in [Jobs -> JobState]
      BY <1>4 DEF Status
    <2>2. "claimed" \in JobState
      BY DEF JobState, RunState, InFlight
    <2>3. [r \in Jobs |-> IF r \in claimed THEN "claimed" ELSE reaped.run[r]] \in [Jobs -> JobState]
      BY <2>1, <2>2
    <2>4. QED
      BY <1>4, <2>3 DEF Status
  <1>7. Done(now) \in BOOLEAN /\ NextMinutes(now, PollsNow(s)) \in Nat
    BY <1>6, NextMinutesType DEF Done, Over
  <1>8. Continuation(now) \in {"none", "CONTINUE"} \cup Reasons
    BY ContinuationType
  <1>9. last \in Status
    <2>. HIDE DEF now, s
    <2>1. QED
      BY <1>6, <1>7, <1>8 DEF Status
  <1>10. /\ mem' = [mem EXCEPT ![h] = last] /\ list' = [list EXCEPT ![h] = claimed]
         /\ control' \subseteq Orders
    BY DEF Work, ControlLeft, Orders
  <1>11. mem' \in [Hosts -> Status] /\ list' \in [Hosts -> SUBSET Jobs]
    <2>. HIDE DEF last, claimed
    <2>1. QED
      BY <1>5, <1>9, <1>10 DEF TypeOK
  <1>12. said' \in [Jobs -> Heartbeat]
    BY DEF Work, TypeOK, AppendLine, Heartbeat
  <1>13. silence' \in [Jobs -> 0..SilenceCap]
    BY NumberAssumption DEF Work, TypeOK
  <1>14. QED
    BY <1>10, <1>11, <1>12, <1>13 DEF Work, TypeOK, SinceCap

LEMMA TurnType ==
    ASSUME TypeOK, NEW h \in Hosts,
           Persist(h) \/ Launch(h) \/ Rest(h) \/ StopTick(h) \/ Die(h)
    PROVE  TypeOK'
  <1>1. CASE Persist(h)
    <2>1. 0 \in 0..SinceCap
      BY SetupType
    <2>2. QED
      BY <1>1, <2>1 DEF Persist, TypeOK, SinceCap, jobVars, Released
  <1>2. CASE Launch(h)
    <2>1. PICK r \in list[h] : /\ list' = [list EXCEPT ![h] = @ \ {r}]
                              /\ \/ /\ worker' = [worker EXCEPT ![r] = "working"]
                                    /\ launches' = [launches EXCEPT ![r] = @ + 1]
                                 \/ UNCHANGED <<worker, launches>>
      BY <1>2 DEF Launch
    <2>2. r \in Jobs
      BY <2>1 DEF TypeOK
    <2>3. list' \in [Hosts -> SUBSET Jobs]
      BY <2>1 DEF TypeOK
    <2>4. worker' \in [Jobs -> {"none", "working", "hung", "gone", "over"}]
      BY <2>1 DEF TypeOK
    <2>5. launches' \in [Jobs -> Nat]
      BY <2>1, <2>2 DEF TypeOK
    <2>6. QED
      BY <1>2, <2>3, <2>4, <2>5 DEF Launch, TypeOK, SinceCap, runDir
  <1>. Released(h) \in Hosts \cup {"free"} /\ NoStatus \in Status
    BY FreshType DEF TypeOK, Released, NoStatus
  <1>3. ASSUME End(h)
        PROVE  /\ lock' \in Hosts \cup {"free"} /\ mem' \in [Hosts -> Status]
               /\ at' \in [Hosts -> {"asleep", "loaded", "worked", "launching", "ended"}]
               /\ wake' \in [Hosts -> Nat] /\ gap' \in BOOLEAN
    BY <1>3 DEF End, TypeOK
  <1>4. ASSUME Sleep(h)
        PROVE  /\ lock' \in Hosts \cup {"free"} /\ mem' \in [Hosts -> Status]
               /\ at' \in [Hosts -> {"asleep", "loaded", "worked", "launching", "ended"}]
               /\ wake' \in [Hosts -> Nat] /\ gap' \in BOOLEAN
    <2>1. mem[h].due \in Nat
      BY DEF TypeOK, Status
    <2>2. QED
      BY <1>4, <2>1 DEF Sleep, TypeOK
  <1>5. CASE Rest(h)
    <2>1. Sleep(h) \/ End(h)
      BY <1>5 DEF Rest
    <2>2. QED
      BY <1>3, <1>4, <1>5, <2>1 DEF Rest, TypeOK, SinceCap, runDir, jobVars
  <1>6. CASE StopTick(h)
    BY <1>3, <1>6 DEF StopTick, TypeOK, SinceCap, runDir, jobVars
  <1>7. CASE Die(h)
    <2>1. left' \in [orders: SUBSET Orders, deaths: Nat, sleeps: Nat, lockFaults: Nat]
      BY <1>7 DEF Die, TypeOK
    <2>2. list' \in [Hosts -> SUBSET Jobs]
      BY <1>7 DEF Die, TypeOK
    <2>3. QED
      BY <1>3, <1>7, <2>1, <2>2 DEF Die, TypeOK, SinceCap, runDir, jobVars
  <1>8. QED
    BY <1>1, <1>2, <1>5, <1>6, <1>7

LEMMA OperatorType ==
    ASSUME TypeOK, (\E order \in Orders : Give(order)) \/ Clear
    PROVE  TypeOK'
  <1>1. CASE Clear
    BY <1>1 DEF Clear, TypeOK, SinceCap, tickVars, jobVars
  <1>2. ASSUME NEW order \in Orders, Give(order) PROVE TypeOK'
    <2>1. left' \in [orders: SUBSET Orders, deaths: Nat, sleeps: Nat, lockFaults: Nat]
      BY <1>2 DEF Give, TypeOK
    <2>2. control' \subseteq Orders /\ staged' \subseteq Jobs /\ blocker' \in BOOLEAN
      BY <1>2 DEF Give, TypeOK
    <2>3. QED
      BY <1>2, <2>1, <2>2 DEF Give, TypeOK, SinceCap, tickVars, jobVars
  <1>3. QED
    BY <1>1, <1>2

LEMMA WorkerType ==
    ASSUME TypeOK, NEW r \in Jobs, Beat(r) \/ Report(r) \/ FallSilent(r)
    PROVE  TypeOK'
  <1>1. 0 \in 0..SilenceCap
    BY NumberAssumption
  <1>2. \A sentinel \in Sentinels : sentinel \in Heartbeat
    BY NumberAssumption DEF Heartbeat
  <1>3. CASE Beat(r)
    BY <1>1, <1>3 DEF Beat, TypeOK, SinceCap, runDir, tickVars, AppendLine, Heartbeat
  <1>4. CASE Report(r)
    <2>1. said' \in [Jobs -> Heartbeat]
      BY <1>2, <1>4 DEF Report, TypeOK, AppendLine
    <2>2. QED
      BY <1>1, <1>4, <2>1 DEF Report, TypeOK, SinceCap, runDir, tickVars
  <1>5. CASE FallSilent(r)
    <2>1. worker' \in [Jobs -> {"none", "working", "hung", "gone", "over"}]
      BY <1>5 DEF FallSilent, TypeOK
    <2>2. QED
      BY <1>5, <2>1 DEF FallSilent, TypeOK, SinceCap, runDir, tickVars
  <1>6. QED
    BY <1>3, <1>4, <1>5

LEMMA TimeType ==
    ASSUME TypeOK, Pass \/ MachineSleeps
    PROVE  TypeOK'
  <1>1. PICK n \in Nat : Elapse(n)
    <2>1. SinceCap + SilenceCap \in Nat
      BY SetupType, NumberAssumption
    <2>2. QED
      BY <2>1 DEF Pass, MachineSleeps
  <1>2. since' \in 0..SinceCap \cup {NoTick}
    BY <1>1, SetupType, LongerType DEF Elapse, TypeOK
  <1>3. silence' \in [Jobs -> 0..SilenceCap]
    BY <1>1, NumberAssumption, LongerType DEF Elapse, TypeOK
  <1>4. wake' \in [Hosts -> Nat]
    BY <1>1 DEF Elapse, TypeOK
  <1>5. left' \in [orders: SUBSET Orders, deaths: Nat, sleeps: Nat, lockFaults: Nat]
    <2>1. CASE Pass
      BY <2>1 DEF Pass, TypeOK
    <2>2. CASE MachineSleeps
      BY <2>2 DEF MachineSleeps, TypeOK
    <2>3. QED
      BY <2>1, <2>2
  <1>6. gap' \in BOOLEAN
    BY DEF Pass, MachineSleeps, TypeOK
  <1>7. QED
    BY <1>1, <1>2, <1>3, <1>4, <1>5, <1>6 DEF Elapse, TypeOK, SinceCap, runDir

LEMMA NextType ==
    ASSUME TypeOK, [Next]_vars
    PROVE  TypeOK'
  <1>1. CASE UNCHANGED vars
    BY <1>1 DEF vars, TypeOK, SinceCap, runDir, tickVars, jobVars
  <1>2. CASE \E h \in Hosts : HostStep(h) \/ BeginUnlocked(h) \/ Die(h) \/ Resume(h)
    BY <1>2, LockType, WorkType, TurnType DEF HostStep
  <1>3. CASE (\E order \in Orders : Give(order)) \/ Clear
    BY <1>3, OperatorType
  <1>4. CASE \E r \in Jobs : Beat(r) \/ Report(r) \/ FallSilent(r)
    BY <1>4, WorkerType
  <1>5. CASE Pass \/ MachineSleeps
    BY <1>5, TimeType
  <1>6. QED
    BY <1>1, <1>2, <1>3, <1>4, <1>5 DEF Next

\* Every variable of Hosts has its type: in particular no tick writes a state, a
\* verdict or a pace that the status file cannot hold (tick.py: tick, _advance).
THEOREM HostsTypeCorrect == Spec => []TypeOK
  BY InitType, NextType, PTL DEF Spec
------------------------------------------------------------------------------
(* One sequence of ticks: the inductive invariant.  It holds as long as no  *)
(* tick has run without the lock.                                           *)

\* A tick between its lock and its unlock holds the lock: a session gives it back
\* before it launches, every other host after.
LockInv ==
    \A h \in Hosts : at[h] \in {"loaded", "worked"} \/ (at[h] = "launching" /\ h # "agent")
        => lock = h

\* What a tick works on is what is on disk, and what it is about to write takes no
\* end back and puts nothing into the queue.
MemInv ==
    \A h \in Hosts :
        /\ at[h] = "loaded" => mem[h].run = status.run
        /\ at[h] = "worked" => \A r \in Jobs :
              /\ status.run[r] \in Terminal => mem[h].run[r] = status.run[r]
              /\ status.run[r] \notin {"absent", "queued"} => mem[h].run[r] \notin {"absent", "queued"}
              /\ status.run[r] = "absent" => mem[h].run[r] = "absent"

\* A job owed a launch was never launched, and the status says so already, or the
\* tick that claimed it is about to write it.
OwedInv ==
    \A h \in Hosts :
        /\ list[h] # {} => at[h] \in {"worked", "launching"}
        /\ \A r \in list[h] :
              /\ launches[r] = 0
              /\ at[h] = "worked" => mem[h].run[r] \notin {"absent", "queued"}
              /\ at[h] = "launching" => status.run[r] \notin {"absent", "queued"}

\* A staged job is not in the status yet.
StagedInv ==
    /\ \A r \in staged : status.run[r] = "absent"
    /\ "ADD" \in left.orders =>
          staged = {} /\ \A r \in Jobs \ setup.first : status.run[r] = "absent"

LockedInv == LockInv /\ MemInv /\ OwedInv /\ StagedInv /\ LaunchedOnce

IInv == TypeOK /\ (~unlocked => LockedInv)

LEMMA InitInv == Init => IInv
  <1> SUFFICES ASSUME Init PROVE LockedInv
    BY InitType DEF IInv
  <1>1. status.run = [r \in Jobs |-> IF r \in setup.first THEN "queued" ELSE "absent"]
    BY DEF Init, Fresh
  <1>2. StagedInv
    BY <1>1 DEF Init, StagedInv
  <1>3. LockInv /\ MemInv /\ OwedInv
    BY DEF Init, LockInv, MemInv, OwedInv
  <1>4. LaunchedOnce
    BY DEF Init, LaunchedOnce
  <1>5. QED
    BY <1>2, <1>3, <1>4 DEF LockedInv

\* A step that touches none of what the invariant speaks of.
LEMMA FrameInv ==
    ASSUME LockedInv, left'.orders = left.orders,
           UNCHANGED <<setup, status, staged, lock, unlocked, at, mem, list, launches>>
    PROVE  LockedInv'
  BY DEF LockedInv, LockInv, MemInv, OwedInv, StagedInv, LaunchedOnce

LEMMA BeginInv ==
    ASSUME TypeOK, LockedInv, ~unlocked, NEW h \in Hosts, Begin(h)
    PROVE  LockedInv'
  <1>1. lock = "free" /\ lock' = h /\ at[h] = "asleep" /\ at' = [at EXCEPT ![h] = "loaded"]
    BY DEF Begin, BeginTick, Awake, LockFree
  <1>2. \A g \in Hosts : at[g] \notin {"loaded", "worked"} /\ (at[g] = "launching" => g = "agent")
    BY <1>1 DEF LockedInv, LockInv, Hosts
  <1>3. /\ mem' = [mem EXCEPT ![h] = status'] /\ staged' = staged \ Absorb
        /\ UNCHANGED <<setup, left, list, launches, unlocked>>
    BY DEF Begin, BeginTick, jobVars
  <1>4. Absorb \subseteq staged
    BY DEF Absorb
  <1>5. \A r \in Jobs : status'.run[r] = IF r \in Absorb THEN "queued" ELSE status.run[r]
    BY DEF Begin, BeginTick, TypeOK, Status
  <1>6. \A r \in Jobs : status.run[r] # "absent" => status'.run[r] = status.run[r]
    BY <1>4, <1>5 DEF LockedInv, StagedInv
  <1>7. LockInv'
    BY <1>1, <1>2 DEF LockInv, TypeOK
  <1>8. MemInv'
    <2>1. mem'[h] = status' /\ at'[h] = "loaded"
      BY <1>1, <1>3 DEF TypeOK
    <2>2. \A g \in Hosts : g # h => at'[g] \notin {"loaded", "worked"}
      BY <1>1, <1>2 DEF TypeOK
    <2>3. QED
      BY <2>1, <2>2 DEF MemInv
  <1>9. OwedInv'
    <2>1. list[h] = {}
      BY <1>1 DEF LockedInv, OwedInv
    <2>2. \A g \in Hosts : list[g] # {} => at[g] = "launching" /\ at'[g] = at[g]
      BY <1>1, <1>2, <2>1 DEF LockedInv, OwedInv, TypeOK
    <2>3. ASSUME NEW g \in Hosts, NEW r \in list[g]
          PROVE  launches[r] = 0 /\ status'.run[r] \notin {"absent", "queued"} /\ at'[g] = "launching"
      <3>1. r \in Jobs
        BY DEF TypeOK
      <3>2. QED
        BY <1>6, <2>2, <2>3, <3>1 DEF LockedInv, OwedInv
    <2>4. QED
      BY <1>3, <2>2, <2>3 DEF OwedInv
  <1>10. StagedInv'
    <2>1. \A r \in staged' : status'.run[r] = "absent"
      BY <1>3, <1>5 DEF LockedInv, StagedInv, TypeOK
    <2>2. "ADD" \in left.orders =>
              staged' = {} /\ \A r \in Jobs \ setup.first : status'.run[r] = "absent"
      BY <1>3, <1>4, <1>5 DEF LockedInv, StagedInv
    <2>3. QED
      BY <1>3, <2>1, <2>2 DEF StagedInv
  <1>11. LaunchedOnce'
    BY <1>3, <1>6 DEF LockedInv, LaunchedOnce
  <1>12. QED
    BY <1>7, <1>8, <1>9, <1>10, <1>11 DEF LockedInv

\* What a tick has decided when it is about to write: the runs it claimed are those
\* on its dispatch list, and every other run is where _advance took it.
LEMMA WorkOutcome ==
    ASSUME TypeOK, NEW h \in Hosts, Work(h)
    PROVE  /\ at[h] = "loaded" /\ at'[h] = "worked"
           /\ \A g \in Hosts : g # h => at'[g] = at[g] /\ mem'[g] = mem[g] /\ list'[g] = list[g]
           /\ list'[h] \subseteq Jobs
           /\ \A r \in list'[h] : Advanced(h, r) = "queued"
           /\ mem'[h].run = [r \in Jobs |-> IF r \in list'[h] THEN "claimed" ELSE Advanced(h, r)]
           /\ mem'[h].done = Over(mem'[h])
           /\ UNCHANGED <<setup, left, status, staged, lock, unlocked, launches, worker, gap>>
  <1> DEFINE s       == Controlled(mem[h])
             reaped  == [s EXCEPT !.run = [r \in Jobs |-> Advanced(h, r)]]
             claimed == Chosen(reaped)
             now     == [reaped EXCEPT !.run = [r \in Jobs |-> IF r \in claimed THEN "claimed" ELSE @[r]]]
             last    == [now EXCEPT !.done = Done(now), !.due = NextMinutes(now, PollsNow(s)),
                                    !.verdict = Continuation(now)]
  <1>1. /\ at[h] = "loaded" /\ at' = [at EXCEPT ![h] = "worked"]
        /\ mem' = [mem EXCEPT ![h] = last] /\ list' = [list EXCEPT ![h] = claimed]
        /\ UNCHANGED <<setup, left, status, staged, lock, unlocked, launches, worker, gap>>
    BY DEF Work
  <1>2. s \in Status /\ \A r \in Jobs : mem[h].run[r] \in JobState
    BY ControlledType DEF TypeOK, Status
  <1>3. reaped.run = [r \in Jobs |-> Advanced(h, r)]
    <2>. HIDE DEF s
    <2>1. QED
      BY <1>2 DEF Status
  <1>4. claimed \subseteq Jobs /\ \A r \in claimed : Advanced(h, r) = "queued"
    <2>. HIDE DEF reaped
    <2>1. QED
      BY <1>3 DEF Chosen, In
  <1>5. reaped \in Status
    <2>1. [r \in Jobs |-> Advanced(h, r)] \in [Jobs -> JobState]
      BY <1>2, AdvancedType
    <2>2. QED
      BY <1>2, <2>1 DEF Status
  <1>6. now.run = [r \in Jobs |-> IF r \in claimed THEN "claimed" ELSE Advanced(h, r)]
    <2>. HIDE DEF reaped, claimed
    <2>1. now.run = [r \in Jobs |-> IF r \in claimed THEN "claimed" ELSE reaped.run[r]]
      BY <1>5 DEF Status
    <2>2. QED
      BY <1>3, <2>1
  <1>7. last.run = now.run /\ last.done = Over(now)
    <2>. HIDE DEF reaped, claimed
    <2>1. QED
      BY <1>5 DEF Status, Done
  <1>8. mem'[h] = last /\ at'[h] = "worked" /\ list'[h] = claimed
    <2>. HIDE DEF last, claimed
    <2>1. QED
      BY <1>1 DEF TypeOK
  <1>9. \A g \in Hosts : g # h => at'[g] = at[g] /\ mem'[g] = mem[g] /\ list'[g] = list[g]
    BY <1>1 DEF TypeOK
  <1>. HIDE DEF last, now, claimed, reaped, s
  <1>10. Over(now) = Over(last)
    BY <1>7 DEF Over
  <1>11. QED
    BY <1>1, <1>4, <1>6, <1>7, <1>8, <1>9, <1>10

LEMMA WorkInv ==
    ASSUME TypeOK, LockedInv, ~unlocked, NEW h \in Hosts, Work(h)
    PROVE  LockedInv'
  <1>1. lock = h /\ mem[h].run = status.run /\ list[h] = {}
    BY WorkOutcome DEF LockedInv, LockInv, MemInv, OwedInv
  <1>2. \A g \in Hosts : g # h => at[g] \notin {"loaded", "worked"}
    BY <1>1 DEF LockedInv, LockInv
  <1>3. \A r \in Jobs : mem[h].run[r] \in JobState
    BY DEF TypeOK, Status
  <1>4. \A r \in list'[h] : r \in Jobs /\ status.run[r] = "queued" /\ launches[r] = 0
    <2>1. \A r \in list'[h] : r \in Jobs /\ Advanced(h, r) = "queued"
      BY WorkOutcome
    <2>2. \A r \in list'[h] : status.run[r] = "queued"
      BY <1>1, <1>3, <2>1, AdvancedType
    <2>3. \A r \in Jobs : status.run[r] = "queued" => launches[r] = 0
      BY DEF LockedInv, LaunchedOnce, TypeOK
    <2>4. QED
      BY <2>1, <2>2, <2>3
  <1>5. \A r \in Jobs :
            /\ status.run[r] \in Terminal \cup {"absent"} => mem'[h].run[r] = status.run[r]
            /\ status.run[r] \notin {"absent", "queued"} => mem'[h].run[r] \notin {"absent", "queued"}
    <2>1. SUFFICES ASSUME NEW r \in Jobs
                   PROVE  /\ status.run[r] \in Terminal \cup {"absent"} => mem'[h].run[r] = status.run[r]
                          /\ status.run[r] \notin {"absent", "queued"}
                                 => mem'[h].run[r] \notin {"absent", "queued"}
      OBVIOUS
    <2>2. mem'[h].run[r] = IF r \in list'[h] THEN "claimed" ELSE Advanced(h, r)
      BY WorkOutcome
    <2>3. CASE r \in list'[h]
      BY <1>4, <2>2, <2>3 DEF Terminal
    <2>4. CASE r \notin list'[h]
      BY <1>1, <1>3, <2>2, <2>4, AdvancedType
    <2>5. QED
      BY <2>3, <2>4
  <1>6. LockInv'
    BY <1>1, WorkOutcome DEF LockedInv, LockInv
  <1>7. MemInv'
    <2>1. \A g \in Hosts : g # h => at'[g] \notin {"loaded", "worked"}
      BY <1>2, WorkOutcome
    <2>2. QED
      BY <1>5, <2>1, WorkOutcome DEF MemInv
  <1>8. \A g \in Hosts : g # h /\ list[g] # {} => at[g] = "launching"
    BY <1>2 DEF LockedInv, OwedInv
  <1>9. OwedInv'
    <2>1. \A r \in list'[h] : mem'[h].run[r] = "claimed"
      BY <1>4, WorkOutcome
    <2>2. ASSUME NEW g \in Hosts, g # h
          PROVE  at'[g] = at[g] /\ mem'[g] = mem[g] /\ list'[g] = list[g]
      BY <2>2, WorkOutcome
    <2>3. at'[h] = "worked" /\ launches' = launches
      BY WorkOutcome
    <2>4. ASSUME NEW g \in Hosts, g # h, list[g] # {}
          PROVE  \A r \in list[g] : launches[r] = 0 /\ status.run[r] \notin {"absent", "queued"}
      BY <1>8, <2>4 DEF LockedInv, OwedInv
    <2>5. status' = status
      BY WorkOutcome
    <2>6. QED
      BY <1>4, <1>8, <2>1, <2>2, <2>3, <2>4, <2>5 DEF OwedInv
  <1>10. StagedInv'
    BY WorkOutcome DEF LockedInv, StagedInv
  <1>11. LaunchedOnce'
    <2>1. \A g \in Hosts : g # h => list[g] \cap list'[h] = {}
      BY <1>4, <1>8 DEF LockedInv, OwedInv
    <2>2. \A g \in Hosts : g # h => list'[g] = list[g]
      BY WorkOutcome
    <2>3. UNCHANGED <<status, launches, unlocked>>
      BY WorkOutcome
    <2>4. \A g, k \in Hosts : g # k => list[g] \cap list[k] = {}
      BY DEF LockedInv, LaunchedOnce
    <2>5. \A g, k \in Hosts : g # k => list'[g] \cap list'[k] = {}
      BY <2>1, <2>2, <2>4
    <2>6. QED
      BY <2>3, <2>5 DEF LockedInv, LaunchedOnce
  <1>12. QED
    BY <1>6, <1>7, <1>9, <1>10, <1>11 DEF LockedInv

LEMMA PersistInv ==
    ASSUME TypeOK, LockedInv, ~unlocked, NEW h \in Hosts, Persist(h)
    PROVE  LockedInv'
  <1>1. /\ at[h] = "worked" /\ at' = [at EXCEPT ![h] = "launching"]
        /\ status' = mem[h] /\ lock' = (IF h = "agent" THEN Released(h) ELSE lock)
        /\ UNCHANGED <<setup, left, staged, unlocked, mem, list, launches>>
    BY DEF Persist, jobVars
  <1>2. lock = h
    BY <1>1 DEF LockedInv, LockInv
  <1>3. \A g \in Hosts : g # h => at[g] \notin {"loaded", "worked"} /\ (at[g] = "launching" => g = "agent")
    BY <1>2 DEF LockedInv, LockInv
  <1>4. at'[h] = "launching" /\ \A g \in Hosts : g # h => at'[g] = at[g]
    BY <1>1 DEF TypeOK
  <1>5. \A r \in Jobs :
           /\ status.run[r] \notin {"absent", "queued"} => status'.run[r] \notin {"absent", "queued"}
           /\ status.run[r] = "absent" => status'.run[r] = "absent"
    BY <1>1 DEF LockedInv, MemInv
  <1>6. LockInv'
    BY <1>1, <1>2, <1>3, <1>4 DEF LockInv
  <1>7. MemInv'
    BY <1>3, <1>4 DEF MemInv
  <1>8. OwedInv'
    <2>1. \A g \in Hosts : list[g] \subseteq Jobs
      BY DEF TypeOK
    <2>2. \A r \in list[h] : status'.run[r] \notin {"absent", "queued"}
      BY <1>1 DEF LockedInv, OwedInv
    <2>3. \A g \in Hosts : g # h /\ list[g] # {} => at[g] = "launching"
      BY <1>3 DEF LockedInv, OwedInv
    <2>4. \A g \in Hosts : g # h => \A r \in list[g] : status'.run[r] \notin {"absent", "queued"}
      BY <1>5, <2>1, <2>3 DEF LockedInv, OwedInv
    <2>5. QED
      BY <1>1, <1>4, <2>2, <2>3, <2>4 DEF LockedInv, OwedInv
  <1>9. StagedInv'
    BY <1>1, <1>5 DEF LockedInv, StagedInv, TypeOK
  <1>10. LaunchedOnce'
    BY <1>1, <1>5 DEF LockedInv, LaunchedOnce
  <1>11. QED
    BY <1>6, <1>7, <1>8, <1>9, <1>10 DEF LockedInv

LEMMA LaunchInv ==
    ASSUME TypeOK, LockedInv, ~unlocked, NEW h \in Hosts, Launch(h)
    PROVE  LockedInv'
  <1>1. PICK r \in list[h] : /\ list' = [list EXCEPT ![h] = @ \ {r}]
                            /\ \/ launches' = [launches EXCEPT ![r] = @ + 1]
                               \/ launches' = launches
    BY DEF Launch
  <1>2. at[h] = "launching" /\ UNCHANGED <<setup, left, status, staged, lock, unlocked, at, mem>>
    BY DEF Launch, runDir
  <1>3. r \in Jobs /\ launches[r] = 0 /\ status.run[r] \notin {"absent", "queued"}
    BY <1>1, <1>2 DEF LockedInv, OwedInv, TypeOK
  <1>4. \A g \in Hosts : list'[g] \subseteq list[g] /\ r \notin list'[g] /\ list[g] \subseteq Jobs
    BY <1>1 DEF LockedInv, LaunchedOnce, TypeOK
  <1>5. \A q \in Jobs : q # r => launches'[q] = launches[q]
    BY <1>1 DEF TypeOK
  <1>6. launches'[r] \in {0, 1}
    BY <1>1, <1>3 DEF TypeOK
  <1>7. LockInv' /\ MemInv' /\ StagedInv'
    BY <1>2 DEF LockedInv, LockInv, MemInv, StagedInv
  <1>8. OwedInv'
    <2>1. \A g \in Hosts : \A q \in list'[g] : q \in list[g] /\ launches'[q] = launches[q]
      BY <1>4, <1>5
    <2>2. \A g \in Hosts : list'[g] # {} => list[g] # {}
      BY <1>4
    <2>3. QED
      BY <1>2, <2>1, <2>2 DEF LockedInv, OwedInv
  <1>9. LaunchedOnce'
    <2>1. \A q \in Jobs : launches'[q] <= 1 /\ (launches'[q] = 1 => status.run[q] \notin {"absent", "queued"})
      BY <1>2, <1>3, <1>5, <1>6 DEF LockedInv, LaunchedOnce
    <2>2. \A g, k \in Hosts : g # k => list'[g] \cap list'[k] = {}
      BY <1>2, <1>4 DEF LockedInv, LaunchedOnce
    <2>3. QED
      BY <1>2, <2>1, <2>2 DEF LaunchedOnce
  <1>10. QED
    BY <1>7, <1>8, <1>9 DEF LockedInv

\* A host leaves its turn, or comes back to where it owes nothing.
LEMMA LeaveInv ==
    ASSUME TypeOK, LockedInv, NEW h \in Hosts,
           NEW place \in {"asleep", "ended"}, at' = [at EXCEPT ![h] = place],
           lock' \in {lock, Released(h)}, lock' = lock => at[h] = "ended" \/ lock # h,
           mem' \in {mem, [mem EXCEPT ![h] = NoStatus]}, list' = [list EXCEPT ![h] = {}],
           left'.orders = left.orders,
           UNCHANGED <<setup, status, staged, unlocked, launches>>
    PROVE  LockedInv'
  <1>1. at'[h] = place /\ list'[h] = {}
    BY DEF TypeOK
  <1>2. \A g \in Hosts : g # h => at'[g] = at[g] /\ mem'[g] = mem[g] /\ list'[g] = list[g]
    BY DEF TypeOK
  <1>3. \A g \in Hosts : g # h /\ lock = g => lock' = g
    BY DEF Released
  <1>4. LockInv'
    BY <1>1, <1>2, <1>3 DEF LockedInv, LockInv
  <1>5. MemInv'
    BY <1>1, <1>2 DEF LockedInv, MemInv
  <1>6. OwedInv'
    BY <1>1, <1>2 DEF LockedInv, OwedInv
  <1>7. StagedInv' /\ LaunchedOnce'
    BY <1>1, <1>2 DEF LockedInv, StagedInv, LaunchedOnce
  <1>8. QED
    BY <1>4, <1>5, <1>6, <1>7 DEF LockedInv

LEMMA TurnOverInv ==
    ASSUME TypeOK, LockedInv, ~unlocked, NEW h \in Hosts,
           Rest(h) \/ StopTick(h) \/ Die(h) \/ Resume(h)
    PROVE  LockedInv'
  <1>1. list[h] = {} => list = [list EXCEPT ![h] = {}]
    BY DEF TypeOK
  <1>2. (Sleep(h) \/ End(h)) =>
           /\ \E place \in {"asleep", "ended"} : at' = [at EXCEPT ![h] = place]
           /\ lock' = Released(h) /\ mem' = [mem EXCEPT ![h] = NoStatus]
           /\ lock' = lock => lock # h
    <2>1. Released(h) = lock => lock # h
      BY DEF Released, Hosts
    <2>2. QED
      BY <2>1 DEF Sleep, End
  <1>3. CASE Rest(h)
    BY <1>1, <1>2, <1>3, LeaveInv DEF Rest, runDir, jobVars
  <1>4. CASE StopTick(h)
    <2>1. list[h] = {}
      BY <1>4 DEF StopTick, LockedInv, OwedInv
    <2>2. QED
      BY <1>1, <1>2, <1>4, <2>1, LeaveInv DEF StopTick, runDir, jobVars
  <1>5. CASE Die(h)
    <2>1. left'.orders = left.orders
      BY <1>5 DEF Die, TypeOK
    <2>2. QED
      BY <1>2, <1>5, <2>1, LeaveInv DEF Die, runDir, jobVars
  <1>6. CASE Resume(h)
    <2>1. list[h] = {} /\ at[h] = "ended"
      BY <1>6 DEF Resume, LockedInv, OwedInv
    <2>2. QED
      BY <1>1, <1>6, <2>1, LeaveInv DEF Resume, runDir, jobVars
  <1>7. QED
    BY <1>3, <1>4, <1>5, <1>6

LEMMA GiveInv ==
    ASSUME TypeOK, LockedInv, NEW order \in Orders, Give(order)
    PROVE  LockedInv'
  <1>1. /\ order \in left.orders /\ left'.orders = left.orders \ {order}
        /\ staged' = (IF order = "ADD" THEN Jobs \ setup.first ELSE staged)
        /\ UNCHANGED <<setup, status, lock, unlocked, at, mem, list, launches>>
    BY DEF Give, TypeOK, tickVars, jobVars
  <1>2. StagedInv'
    BY <1>1 DEF LockedInv, StagedInv
  <1>3. LockInv' /\ MemInv' /\ OwedInv' /\ LaunchedOnce'
    BY <1>1 DEF LockedInv, LockInv, MemInv, OwedInv, LaunchedOnce
  <1>4. QED
    BY <1>2, <1>3 DEF LockedInv

LEMMA NextInv ==
    ASSUME IInv, [Next]_vars
    PROVE  IInv'
  <1>1. TypeOK'
    BY NextType DEF IInv
  <1>2. ASSUME ~unlocked' PROVE LockedInv'
    <2>. TypeOK
      BY DEF IInv
    <2>1. CASE UNCHANGED vars
      BY <1>2, <2>1, FrameInv DEF IInv, vars, runDir, tickVars, jobVars
    <2>2. ASSUME NEW h \in Hosts, HostStep(h) \/ BeginUnlocked(h) \/ Die(h) \/ Resume(h)
          PROVE  LockedInv'
      <3>1. ~BeginUnlocked(h)
        BY <1>2 DEF BeginUnlocked
      <3>2. CASE Begin(h)
        BY <1>2, <3>2, BeginInv DEF IInv, Begin
      <3>3. CASE Skip(h)
        BY <1>2, <3>3, FrameInv DEF IInv, Skip, runDir, jobVars
      <3>4. CASE Work(h)
        BY <1>2, <3>4, WorkInv DEF IInv, Work
      <3>5. CASE Persist(h)
        BY <1>2, <3>5, PersistInv DEF IInv, Persist
      <3>6. CASE Launch(h)
        BY <1>2, <3>6, LaunchInv DEF IInv, Launch
      <3>7. CASE Rest(h) \/ StopTick(h) \/ Die(h) \/ Resume(h)
        BY <1>2, <3>7, TurnOverInv DEF IInv, Rest, StopTick, Die, Resume
      <3>8. QED
        BY <2>2, <3>1, <3>2, <3>3, <3>4, <3>5, <3>6, <3>7 DEF HostStep
    <2>3. ASSUME NEW order \in Orders, Give(order) PROVE LockedInv'
      BY <1>2, <2>3, GiveInv DEF IInv, Give
    <2>4. CASE Clear
      BY <1>2, <2>4, FrameInv DEF IInv, Clear, tickVars, jobVars
    <2>5. ASSUME NEW r \in Jobs, Beat(r) \/ Report(r) \/ FallSilent(r) PROVE LockedInv'
      BY <1>2, <2>5, FrameInv DEF IInv, Beat, Report, FallSilent, runDir, tickVars
    <2>6. CASE Pass
      BY <1>2, <2>6, FrameInv DEF IInv, Pass, Elapse, runDir
    <2>7. CASE MachineSleeps
      <3>1. left'.orders = left.orders
        BY <2>7 DEF MachineSleeps, TypeOK
      <3>2. QED
        BY <1>2, <2>7, <3>1, FrameInv DEF IInv, MachineSleeps, Elapse, runDir
    <2>8. QED
      BY <2>1, <2>2, <2>3, <2>4, <2>5, <2>6, <2>7 DEF Next
  <1>3. QED
    BY <1>1, <1>2 DEF IInv

THEOREM HostsInvariant == Spec => []IInv
  BY InitInv, NextInv, PTL DEF Spec

\* No job is launched twice, whatever hosts tick the run directory, also while the
\* agent launches after its command gave the lock back (tick.py: _TickLock,
\* ticker.py: _one_tick).
THEOREM LaunchesAreSingle == Spec => []LaunchedOnce
  <1>1. IInv => LaunchedOnce
    BY DEF IInv, LockedInv, LaunchedOnce
  <1>2. QED
    BY <1>1, HostsInvariant, PTL

\* No tick takes back an end that another has written: what it writes is computed
\* from the status it read under the lock (tick.py: _TickLock, tick).
THEOREM NoLostUpdate == Spec => NothingIsUndone
  <1>1. ASSUME IInv, [Next]_vars, ~unlocked', NEW r \in Jobs, status.run[r] \in Terminal
        PROVE  status'.run[r] = status.run[r]
    <2>0. TypeOK
      BY <1>1 DEF IInv
    <2>1. CASE \E h \in Hosts : Begin(h)
      <3>1. PICK h \in Hosts : Begin(h)
        BY <2>1
      <3>2. r \notin Absorb
        BY <1>1, <3>1 DEF Begin, IInv, LockedInv, StagedInv, Absorb, Terminal
      <3>3. QED
        BY <2>0, <3>1, <3>2 DEF Begin, BeginTick, TypeOK, Status
    <2>2. CASE \E h \in Hosts : Persist(h)
      BY <1>1, <2>2 DEF Persist, IInv, LockedInv, MemInv
    <2>3. CASE \E h \in Hosts : BeginUnlocked(h)
      BY <1>1, <2>3 DEF BeginUnlocked
    <2>4. CASE ~\E h \in Hosts : Begin(h) \/ Persist(h) \/ BeginUnlocked(h)
      BY <1>1, <2>4 DEF Next, HostStep, Skip, Work, Launch, Rest, StopTick, Die, Resume, Give, Clear,
                        Beat, Report, FallSilent, Pass, MachineSleeps, Elapse, vars, runDir
    <2>5. QED
      BY <2>1, <2>2, <2>3, <2>4
  <1>2. IInv /\ [Next]_vars
        => [~unlocked' => \A r \in Jobs : status.run[r] \in Terminal =>
                                              status'.run[r] = status.run[r]]_vars
    BY <1>1
  <1>3. QED
    BY <1>2, HostsInvariant, PTL DEF Spec, NothingIsUndone
------------------------------------------------------------------------------
(* What a tick says of the batch: its done flag and its HALT:stalled.  These *)
(* need that a stalled run has said something, and that between its decision *)
(* and its write a tick holds the flag that fits what it holds.              *)

StallInv ==
    \A r \in Jobs : said[r] = "none" =>
        status.run[r] # "stalled" /\ \A h \in Hosts : mem[h].run[r] # "stalled"

DoneInv ==
    /\ \A h \in Hosts : at[h] = "worked" => (mem[h].done => Over(mem[h]))
    /\ ~gap /\ (\A h \in Hosts : at[h] \notin {"loaded", "worked"}) => (status.done => Over(status))

SayInv == IInv /\ StallInv /\ (~unlocked => DoneInv)

LEMMA InitSay == Init => SayInv
  <1> SUFFICES ASSUME Init PROVE StallInv /\ DoneInv
    BY InitInv DEF SayInv
  <1>1. \A r \in Jobs : status.run[r] # "stalled" /\ \A h \in Hosts : mem[h].run[r] # "stalled"
    BY DEF Init, NoStatus, Fresh
  <1>2. status.done = FALSE /\ \A h \in Hosts : at[h] # "worked"
    BY DEF Init, Fresh
  <1>3. QED
    BY <1>1, <1>2 DEF StallInv, DoneInv

\* Where nobody writes, nothing that was said becomes unsaid.
LEMMA StallFrame ==
    ASSUME TypeOK, StallInv, UNCHANGED status,
           \A r \in Jobs : said'[r] = "none" => said[r] = "none",
           \A h \in Hosts : mem'[h] = mem[h] \/ mem'[h] = NoStatus
    PROVE  StallInv'
  <1>1. \A r \in Jobs : NoStatus.run[r] # "stalled"
    BY DEF NoStatus, Fresh
  <1>2. QED
    BY <1>1 DEF StallInv

LEMMA BeginSay ==
    ASSUME SayInv, NEW h \in Hosts, Begin(h) \/ BeginUnlocked(h)
    PROVE  StallInv' /\ (~unlocked' => DoneInv')
  <1>1. BeginTick(h)
    BY DEF Begin, BeginUnlocked
  <1>2. \A r \in Jobs : status'.run[r] = "stalled" => status.run[r] = "stalled"
    BY <1>1 DEF SayInv, IInv, BeginTick, TypeOK, Status
  <1>3. /\ mem'[h] = status' /\ at'[h] = "loaded" /\ UNCHANGED <<said, gap>>
        /\ \A g \in Hosts : g # h => mem'[g] = mem[g] /\ at'[g] = at[g]
    BY <1>1 DEF SayInv, IInv, TypeOK, BeginTick, jobVars
  <1>4. StallInv'
    BY <1>2, <1>3 DEF SayInv, StallInv
  <1>5. ASSUME ~unlocked' PROVE DoneInv'
    <2>1. ~unlocked
      BY <1>5 DEF Begin, BeginUnlocked
    <2>2. QED
      BY <1>3, <2>1 DEF SayInv, DoneInv
  <1>6. QED
    BY <1>4, <1>5

LEMMA WorkSay ==
    ASSUME SayInv, NEW h \in Hosts, Work(h)
    PROVE  StallInv' /\ (~unlocked' => DoneInv')
  <1>. TypeOK
    BY DEF SayInv, IInv
  <1>1. \A r \in Jobs : said'[r] = "none" => said[r] = "none"
    BY DEF Work, AppendLine, TypeOK
  <1>2. \A r \in Jobs : Advanced(h, r) = "stalled" => said[r] # "none"
    BY DEF Advanced, SayInv, StallInv, Terminal, ReapedState
  <1>3. \A r \in Jobs : mem'[h].run[r] = "stalled" => said[r] # "none"
    BY <1>2, WorkOutcome
  <1>4. status' = status /\ \A g \in Hosts : g # h => mem'[g] = mem[g]
    BY WorkOutcome
  <1>5. StallInv'
    BY <1>1, <1>3, <1>4 DEF SayInv, StallInv
  <1>6. ASSUME ~unlocked' PROVE DoneInv'
    <2>1. at'[h] = "worked" /\ (mem'[h].done => Over(mem'[h])) /\ unlocked' = unlocked
      BY WorkOutcome
    <2>2. \A g \in Hosts : g # h => mem'[g] = mem[g] /\ at'[g] = at[g]
      BY WorkOutcome
    <2>3. QED
      BY <1>6, <2>1, <2>2 DEF SayInv, DoneInv, Over
  <1>7. QED
    BY <1>5, <1>6

LEMMA PersistSay ==
    ASSUME SayInv, NEW h \in Hosts, Persist(h)
    PROVE  StallInv' /\ (~unlocked' => DoneInv')
  <1>1. /\ at[h] = "worked" /\ at'[h] = "launching" /\ status' = mem[h]
        /\ UNCHANGED <<mem, said, unlocked>> /\ \A g \in Hosts : g # h => at'[g] = at[g]
    BY DEF Persist, SayInv, IInv, TypeOK, jobVars
  <1>2. StallInv'
    BY <1>1 DEF SayInv, StallInv
  <1>3. QED
    BY <1>1, <1>2 DEF SayInv, DoneInv, Over

LEMMA LeaveSay ==
    ASSUME SayInv, NEW h \in Hosts, Launch(h) \/ Rest(h) \/ StopTick(h) \/ Die(h) \/ Resume(h)
    PROVE  StallInv' /\ (~unlocked' => DoneInv')
  <1>1. /\ UNCHANGED <<status, said, unlocked>> /\ (~gap' => ~gap)
        /\ \A g \in Hosts : /\ mem'[g] = mem[g] \/ mem'[g] = NoStatus
                            /\ \/ at'[g] = at[g] /\ mem'[g] = mem[g]
                               \/ /\ at'[g] \notin {"loaded", "worked"}
                                  /\ at[g] \in {"loaded", "worked"} => gap'
    BY DEF Launch, Rest, StopTick, Die, Resume, Sleep, End, SayInv, IInv, TypeOK, runDir, jobVars
  <1>2. StallInv'
    BY <1>1, StallFrame DEF SayInv, IInv
  <1>3. ASSUME ~unlocked' PROVE DoneInv'
    <2>1. DoneInv
      BY <1>1, <1>3 DEF SayInv
    <2>2. QED
      BY <1>1, <2>1 DEF DoneInv, Over
  <1>4. QED
    BY <1>2, <1>3

LEMMA OtherSay ==
    ASSUME SayInv, UNCHANGED <<status, at, mem, unlocked>>, ~gap' => ~gap,
           \A r \in Jobs : said'[r] = "none" => said[r] = "none"
    PROVE  StallInv' /\ (~unlocked' => DoneInv')
  <1>1. StallInv'
    BY StallFrame DEF SayInv, IInv
  <1>2. ASSUME ~unlocked' PROVE DoneInv'
    <2>1. DoneInv
      BY <1>2 DEF SayInv
    <2>2. QED
      BY <2>1 DEF DoneInv, Over
  <1>3. QED
    BY <1>1, <1>2

LEMMA NextSay ==
    ASSUME SayInv, [Next]_vars
    PROVE  SayInv'
  <1>. TypeOK
    BY DEF SayInv, IInv
  <1>1. IInv'
    BY NextInv DEF SayInv
  <1>2. StallInv' /\ (~unlocked' => DoneInv')
    <2>1. CASE UNCHANGED vars
      BY <2>1, OtherSay DEF vars, runDir, tickVars, jobVars
    <2>2. ASSUME NEW h \in Hosts, HostStep(h) \/ BeginUnlocked(h) \/ Die(h) \/ Resume(h)
          PROVE  StallInv' /\ (~unlocked' => DoneInv')
      <3>1. CASE Skip(h)
        BY <3>1, OtherSay DEF Skip, runDir, jobVars
      <3>2. QED
        BY <2>2, <3>1, BeginSay, WorkSay, PersistSay, LeaveSay DEF HostStep
    <2>3. CASE (\E order \in Orders : Give(order)) \/ Clear
      BY <2>3, OtherSay DEF Give, Clear, tickVars, jobVars
    <2>4. ASSUME NEW r \in Jobs, Beat(r) \/ Report(r) \/ FallSilent(r)
          PROVE  StallInv' /\ (~unlocked' => DoneInv')
      <3>1. \A q \in Jobs : said'[q] = "none" => said[q] = "none"
        BY <2>4, NumberAssumption DEF Beat, Report, FallSilent, AppendLine, TypeOK, TerminalHb
      <3>2. QED
        BY <2>4, <3>1, OtherSay DEF Beat, Report, FallSilent, runDir, tickVars
    <2>5. CASE Pass \/ MachineSleeps
      BY <2>5, OtherSay DEF Pass, MachineSleeps, Elapse, runDir
    <2>6. QED
      BY <2>1, <2>2, <2>3, <2>4, <2>5 DEF Next
  <1>3. QED
    BY <1>1, <1>2 DEF SayInv

THEOREM SayInvariant == Spec => []SayInv
  BY InitSay, NextSay, PTL DEF Spec

\* Between ticks the done flag means that every job is over, also when jobs join a
\* batch that was done (tick.py: tick, done_check; _absorb_incoming).
THEOREM DoneFlagIsTrue == Spec => []DoneMeansOver
  <1>1. IInv /\ ~unlocked /\ lock = "free" => \A h \in Hosts : at[h] \notin {"loaded", "worked"}
    BY DEF IInv, LockedInv, LockInv, Hosts
  <1>2. SayInv => DoneMeansOver
    BY <1>1 DEF SayInv, DoneInv, DoneMeansOver
  <1>3. QED
    BY <1>2, SayInvariant, PTL

\* A tick that gives HALT:stalled leaves no run stalled that it could have given
\* up (tick.py: _halt_reason, _advance).
THEOREM HaltStalledIsEarned == Spec => StalledIsWedged
  <1>1. ASSUME SayInv, NEW h \in Hosts, Work(h), NEW r \in Jobs, mem'[h].run[r] = "stalled"
        PROVE  silence[r] <= ReclaimAfter \/ r \notin setup.measurable \/ worker[r] = "working"
    <2>. TypeOK
      BY <1>1 DEF SayInv, IInv
    <2>1. Advanced(h, r) = "stalled"
      BY <1>1, WorkOutcome
    <2>2. mem[h].run[r] = "stalled" => said[r] # "none"
      BY <1>1 DEF SayInv, StallInv
    <2>3. ~Hopeless(h, r)
      BY <2>1, <2>2 DEF Advanced, Terminal, ReapedState
    <2>4. silence[r] \in Int /\ ReclaimAfter \in Int
      BY NumberAssumption DEF TypeOK
    <2>5. QED
      BY <2>3, <2>4 DEF Hopeless
  <1>2. ASSUME SayInv, [Next]_vars, NEW h \in Hosts, at[h] = "loaded", at'[h] = "worked"
        PROVE  Work(h)
    <2>. TypeOK
      BY <1>2 DEF SayInv, IInv
    <2>1. CASE \E g \in Hosts : HostStep(g) \/ BeginUnlocked(g) \/ Die(g) \/ Resume(g)
      <3>1. PICK g \in Hosts : HostStep(g) \/ BeginUnlocked(g) \/ Die(g) \/ Resume(g)
        BY <2>1
      <3>2. CASE Work(g)
        BY <1>2, <3>2, WorkOutcome
      <3>3. CASE Begin(g) \/ BeginUnlocked(g)
        BY <1>2, <3>3 DEF Begin, BeginUnlocked, BeginTick, TypeOK
      <3>4. CASE Skip(g) \/ Launch(g)
        BY <1>2, <3>4 DEF Skip, Launch
      <3>5. CASE Persist(g)
        BY <1>2, <3>5 DEF Persist, TypeOK
      <3>6. CASE Rest(g) \/ StopTick(g) \/ Die(g) \/ Resume(g)
        BY <1>2, <3>6 DEF Rest, StopTick, Die, Resume, Sleep, End, TypeOK
      <3>7. QED
        BY <3>1, <3>2, <3>3, <3>4, <3>5, <3>6 DEF HostStep
    <2>2. QED
      BY <1>2, <2>1 DEF Next, Give, Clear, Beat, Report, FallSilent, Pass, MachineSleeps, Elapse,
                        tickVars, vars
  <1>3. SayInv /\ [Next]_vars
        => [\A h \in Hosts : at[h] = "loaded" /\ at'[h] = "worked" /\ mem'[h].verdict = "stalled"
              => \A r \in Jobs : mem'[h].run[r] = "stalled" =>
                    silence[r] <= ReclaimAfter \/ r \notin setup.measurable \/ worker[r] = "working"]_vars
    BY <1>1, <1>2
  <1>4. QED
    BY <1>3, SayInvariant, PTL DEF Spec, StalledIsWedged
------------------------------------------------------------------------------
(* The pace of a lone loop.                                                 *)

\* The longest pause the engine asks for, at either pace a run can have, is no jump.
PaceIsNoJump ==
    \A d \in Deployments : \A n \in {d.interval, Cadence} : n * IdleFactor <= JumpGap(n)

\* Which is so for every idle multiplier up to the jump factor, the default of 1 included.
LEMMA ModestIdleIsNoJump ==
    ASSUME IdleFactor <= JumpFactor
    PROVE  PaceIsNoJump
  <1>. SUFFICES ASSUME NEW d \in Deployments, NEW n \in {d.interval, Cadence}
                PROVE  n * IdleFactor <= JumpGap(n)
    BY DEF PaceIsNoJump
  <1>1. n \in Nat /\ Stall \in Nat /\ IdleFactor \in {1, 2, 3, 4}
    BY DeploymentAssumption, NumberAssumption DEF Deployment, JumpFactor
  <1>2. JumpGap(n) \in Nat /\ 4 * n <= JumpGap(n)
    BY <1>1 DEF JumpGap, JumpFactor
  <1>3. n * IdleFactor <= 4 * n
    BY <1>1
  <1>4. QED
    BY <1>1, <1>2, <1>3

\* A host outside the deployment never moves, and no status has any other pace than
\* the plan's or the one CADENCE gives.
PaceInv ==
    /\ \A g \in Hosts \ setup.hosts : at[g] = "asleep"
    /\ status.interval \in {0, Cadence} /\ \A g \in Hosts : mem[g].interval \in {0, Cadence}

\* A lone loop never meets a lock, and the time since the last tick and the rest of
\* its pause are together no jump at the pace that tick has written.
LoneLoopInv(h) ==
    /\ lock \in {"free", h} /\ (at[h] \in {"asleep", "ended"} => lock = "free")
    /\ at[h] = "ended" => gap
    /\ at[h] \in {"loaded", "launching"} => mem[h].interval = status.interval
    /\ at[h] \in {"worked", "launching"} => mem[h].due <= JumpGap(Interval(mem[h]))
    /\ at[h] = "launching" => since = 0
    /\ at[h] = "asleep" /\ ~gap => since + wake[h] <= JumpGap(Interval(status))
    /\ at[h] = "loaded" /\ ~gap => since <= JumpGap(Interval(status))

LoneInv == PaceInv /\ \A h \in Loops : setup.hosts = {h} => LoneLoopInv(h)

\* No pause the engine asks for is longer than a jump at the pace of that very status.
LEMMA PauseIsNoJump ==
    ASSUME PaceIsNoJump, TypeOK, NEW s \in Status, s.interval \in {0, Cadence}, NEW polls
    PROVE  NextMinutes(s, polls) <= JumpGap(Interval(s))
  <1>1. Interval(s) \in {setup.interval, Cadence} /\ Interval(s) \in Nat \ {0}
    BY SetupType, NumberAssumption DEF Interval
  <1>2. Interval(s) * IdleFactor <= JumpGap(Interval(s))
    BY <1>1 DEF PaceIsNoJump, TypeOK
  <1>3. Interval(s) <= JumpGap(Interval(s)) /\ 1 <= JumpGap(Interval(s))
    BY <1>1, NumberAssumption DEF JumpGap, JumpFactor
  <1>4. QED
    BY <1>2, <1>3 DEF NextMinutes

\* An age grows by at most the time that passed.
LEMMA LongerBound ==
    ASSUME NEW cap \in Nat, NEW age \in 0..cap, NEW n \in Nat
    PROVE  Longer(age, n, cap) <= age + n
  BY DEF Longer

\* What a tick decides is written at the pace it has settled, and asks for a pause
\* that is no jump at that pace.
LEMMA WorkPace ==
    ASSUME PaceIsNoJump, TypeOK, PaceInv, NEW h \in Hosts, Work(h)
    PROVE  /\ mem'[h].interval \in {0, Cadence}
           /\ mem'[h].due <= JumpGap(Interval(mem'[h]))
           /\ \A g \in Hosts \ {h} : mem'[g] = mem[g]
  <1> DEFINE s       == Controlled(mem[h])
             reaped  == [s EXCEPT !.run = [r \in Jobs |-> Advanced(h, r)]]
             claimed == Chosen(reaped)
             now     == [reaped EXCEPT !.run = [r \in Jobs |-> IF r \in claimed THEN "claimed" ELSE @[r]]]
             last    == [now EXCEPT !.done = Done(now), !.due = NextMinutes(now, PollsNow(s)),
                                    !.verdict = Continuation(now)]
  <1>1. mem[h] \in Status /\ mem[h].run \in [Jobs -> JobState] /\ mem[h].interval \in {0, Cadence}
    BY DEF TypeOK, Status, PaceInv
  <1>2. s \in Status /\ s.interval \in {0, Cadence}
    BY <1>1, ControlledType DEF Controlled, Status
  <1>3. reaped \in Status /\ reaped.interval = s.interval
    <2>1. [r \in Jobs |-> Advanced(h, r)] \in [Jobs -> JobState]
      BY <1>1, AdvancedType
    <2>2. QED
      BY <1>2, <2>1 DEF Status
  <1>4. now \in Status /\ now.interval = s.interval
    <2>. HIDE DEF reaped, claimed
    <2>1. reaped.run \in [Jobs -> JobState] /\ "claimed" \in JobState
      BY <1>3 DEF Status, JobState, RunState, InFlight
    <2>2. [r \in Jobs |-> IF r \in claimed THEN "claimed" ELSE reaped.run[r]] \in [Jobs -> JobState]
      BY <2>1
    <2>3. QED
      BY <1>3, <2>2 DEF Status
  <1>5. NextMinutes(now, PollsNow(s)) <= JumpGap(Interval(now))
    <2>. HIDE DEF now, s
    <2>1. QED
      BY <1>2, <1>4, PauseIsNoJump
  <1>6. last.interval = now.interval /\ last.due = NextMinutes(now, PollsNow(s))
    <2>. HIDE DEF now, s
    <2>1. QED
      BY <1>4 DEF Status
  <1>7. mem' = [mem EXCEPT ![h] = last]
    BY DEF Work
  <1>8. Interval(last) = Interval(now)
    BY <1>6 DEF Interval
  <1>9. QED
    <2>. HIDE DEF last, now, s
    <2>1. mem'[h] = last /\ \A g \in Hosts \ {h} : mem'[g] = mem[g]
      BY <1>7 DEF TypeOK
    <2>2. setup' = setup
      BY DEF Work
    <2>3. QED
      BY <1>2, <1>4, <1>5, <1>6, <1>8, <2>1

\* The steps of the operator, of the workers and of a launch change nothing that the
\* pace of a loop rests on.
LEMMA PaceFrame ==
    ASSUME LoneInv, UNCHANGED <<setup, status, lock, at, mem, wake, since, gap>>
    PROVE  LoneInv'
  BY DEF LoneInv, PaceInv, LoneLoopInv, Interval, JumpGap

\* Only the hosts of the deployment begin, and only from there do they go on.
LEMMA MoverIsDeployed ==
    ASSUME TypeOK, PaceInv, NEW h \in Hosts,
           HostStep(h) \/ BeginUnlocked(h) \/ Die(h) \/ Resume(h)
    PROVE  h \in setup.hosts /\ setup' = setup
  BY DEF PaceInv, HostStep, Begin, BeginUnlocked, BeginTick, Skip, Awake, Work, Persist, Launch,
         Rest, StopTick, Die, Resume

\* A step of a host touches what that host keeps, and the two paces it may write are
\* the plan's and that of CADENCE.
LEMMA PaceHostStep ==
    ASSUME PaceIsNoJump, TypeOK, PaceInv, NEW h \in Hosts,
           HostStep(h) \/ BeginUnlocked(h) \/ Die(h) \/ Resume(h)
    PROVE  PaceInv'
  <1>1. h \in setup.hosts /\ setup' = setup
    BY MoverIsDeployed
  <1>2. ASSUME BeginTick(h) PROVE PaceInv'
    <2>1. status'.interval = status.interval
      BY <1>2 DEF BeginTick, TypeOK, Status
    <2>2. QED
      BY <1>1, <1>2, <2>1 DEF BeginTick, PaceInv, TypeOK
  <1>3. CASE Begin(h) \/ BeginUnlocked(h)
    BY <1>2, <1>3 DEF Begin, BeginUnlocked
  <1>4. CASE Work(h)
    <2>1. at' = [at EXCEPT ![h] = "worked"] /\ status' = status
      BY <1>4 DEF Work
    <2>2. \A g \in Hosts : mem'[g].interval \in {0, Cadence}
      BY <1>4, WorkPace DEF PaceInv
    <2>3. QED
      BY <1>1, <2>1, <2>2 DEF PaceInv, TypeOK
  <1>5. CASE Persist(h)
    BY <1>1, <1>5 DEF Persist, PaceInv, TypeOK
  <1>6. CASE Skip(h) \/ Launch(h) \/ Resume(h)
    BY <1>1, <1>6 DEF Skip, Launch, Resume, PaceInv, TypeOK, runDir
  <1>7. CASE Rest(h) \/ StopTick(h) \/ Die(h)
    <2>1. NoStatus.interval = 0
      BY DEF NoStatus, Fresh
    <2>2. mem' = [mem EXCEPT ![h] = NoStatus] /\ status' = status
      BY <1>7 DEF Rest, StopTick, Die, Sleep, End, runDir
    <2>3. \E place \in {"asleep", "ended"} : at' = [at EXCEPT ![h] = place]
      BY <1>7 DEF Rest, StopTick, Die, Sleep, End
    <2>4. QED
      BY <1>1, <2>1, <2>2, <2>3 DEF PaceInv, TypeOK
  <1>8. QED
    BY <1>3, <1>4, <1>5, <1>6, <1>7 DEF HostStep

\* The turn of a lone loop: it begins where its pause ended, works at a pace whose
\* pauses are no jumps, and gives that pause to its sleep with the clock at zero.
LEMMA LoneTurn ==
    ASSUME PaceIsNoJump, TypeOK, PaceInv, NEW h \in Loops, setup.hosts = {h}, LoneLoopInv(h),
           HostStep(h) \/ BeginUnlocked(h) \/ Die(h) \/ Resume(h)
    PROVE  LoneLoopInv(h)'
  <1>1. h \in Hosts /\ setup' = setup
    BY MoverIsDeployed DEF Loops, Hosts
  <1>2. /\ wake[h] \in Nat /\ since \in Int /\ mem[h].due \in Nat
        /\ JumpGap(Interval(status)) \in Int
    <2>1. status.interval \in Nat /\ mem[h].due \in Nat
      BY <1>1 DEF TypeOK, Status
    <2>2. Interval(status) \in Nat
      BY <2>1, SetupType DEF Interval
    <2>3. since \in Int
      BY SetupType DEF TypeOK, NoTick
    <2>4. QED
      BY <1>1, <2>1, <2>2, <2>3, NumberAssumption DEF TypeOK, JumpGap, JumpFactor
  <1>3. ASSUME BeginTick(h), Awake(h), lock' \in {lock, h} PROVE LoneLoopInv(h)'
    <2>1. at'[h] = "loaded" /\ mem'[h] = status' /\ UNCHANGED <<since, gap, wake>>
      BY <1>1, <1>3 DEF BeginTick, TypeOK
    <2>2. status'.interval = status.interval
      BY <1>3 DEF BeginTick, TypeOK, Status
    <2>3. JumpGap(Interval(status))' = JumpGap(Interval(status))
      BY <1>1, <2>2 DEF JumpGap, Interval
    <2>4. at[h] = "asleep" /\ wake[h] = 0
      BY <1>3 DEF Awake
    <2>5. ~gap => since <= JumpGap(Interval(status))
      BY <1>2, <2>4 DEF LoneLoopInv
    <2>6. QED
      BY <1>3, <2>1, <2>3, <2>5 DEF LoneLoopInv
  <1>4. CASE Begin(h) \/ BeginUnlocked(h)
    BY <1>3, <1>4 DEF Begin, BeginUnlocked
  <1>5. CASE Skip(h)
    BY <1>5 DEF Skip, Awake, LockFree, LoneLoopInv
  <1>6. CASE Work(h)
    <2>1. at'[h] = "worked" /\ lock' = lock
      BY <1>1, <1>6 DEF Work, TypeOK
    <2>2. mem'[h].due <= JumpGap(Interval(mem'[h]))
      BY <1>1, <1>6, WorkPace
    <2>3. QED
      BY <1>1, <2>1, <2>2 DEF LoneLoopInv, Interval, JumpGap
  <1>7. CASE Persist(h)
    <2>1. at[h] = "worked" /\ at'[h] = "launching" /\ status' = mem[h] /\ mem' = mem /\ since' = 0
      BY <1>1, <1>7 DEF Persist, TypeOK
    <2>2. lock' \in {"free", h}
      BY <1>7 DEF Persist, Released, LoneLoopInv
    <2>3. QED
      BY <1>1, <2>1, <2>2 DEF LoneLoopInv, Interval, JumpGap
  <1>8. CASE Launch(h)
    BY <1>1, <1>8 DEF Launch, LoneLoopInv, Interval, JumpGap, runDir
  <1>9. ASSUME End(h) PROVE LoneLoopInv(h)'
    <2>1. lock' = "free" /\ at'[h] = "ended" /\ gap'
      BY <1>1, <1>9 DEF End, Released, LoneLoopInv, TypeOK
    <2>2. QED
      BY <2>1 DEF LoneLoopInv
  <1>10. CASE Rest(h)
    <2>1. CASE Sleep(h)
      <3>1. lock' = "free" /\ at'[h] = "asleep" /\ wake'[h] = mem[h].due
        BY <1>1, <2>1 DEF Sleep, Released, LoneLoopInv, TypeOK
      <3>2. since' = 0 /\ status' = status /\ mem[h].interval = status.interval
        BY <1>10 DEF Rest, LoneLoopInv, runDir
      <3>3. mem[h].due <= JumpGap(Interval(mem[h]))
        BY <1>10 DEF Rest, LoneLoopInv
      <3>4. JumpGap(Interval(status))' = JumpGap(Interval(mem[h]))
        BY <1>1, <3>2 DEF JumpGap, Interval
      <3>5. QED
        BY <1>2, <3>1, <3>2, <3>3, <3>4 DEF LoneLoopInv
    <2>2. QED
      BY <1>9, <1>10, <2>1 DEF Rest
  <1>11. CASE StopTick(h) \/ Die(h)
    BY <1>9, <1>11 DEF StopTick, Die
  <1>12. CASE Resume(h)
    BY <1>1, <1>12 DEF Resume, LoneLoopInv, TypeOK
  <1>13. QED
    BY <1>4, <1>5, <1>6, <1>7, <1>8, <1>10, <1>11, <1>12 DEF HostStep

\* Time passes only while a lone loop has some of its pause left, and takes from the
\* pause what it adds to the age of the last tick; a sleep of the machine is a gap.
LEMMA LoneTime ==
    ASSUME TypeOK, LoneInv, Pass \/ MachineSleeps
    PROVE  LoneInv'
  <1>1. UNCHANGED <<setup, status, lock, at, mem>>
    BY DEF Pass, MachineSleeps, Elapse, runDir
  <1>2. PaceInv'
    BY <1>1 DEF LoneInv, PaceInv
  <1>3. ASSUME NEW h \in Loops, setup.hosts = {h} PROVE LoneLoopInv(h)'
    <2>1. LoneLoopInv(h) /\ h \in Hosts
      BY <1>3 DEF LoneInv, Loops, Hosts
    <2>2. at[h] \in {"asleep", "ended"} /\ ~Due(h)
      BY <1>3 DEF Pass, MachineSleeps, Quiet
    <2>3. JumpGap(Interval(status))' = JumpGap(Interval(status))
      BY <1>1 DEF JumpGap, Interval
    <2>4. ASSUME at[h] = "asleep", ~gap' PROVE since' + wake'[h] <= JumpGap(Interval(status))
      <3>1. Pass /\ ~gap /\ Elapse(1)
        BY <2>4 DEF Pass, MachineSleeps
      <3>2. wake[h] \in Nat \ {0}
        BY <1>3, <2>1, <2>2, <2>4 DEF Due, Awake, TypeOK
      <3>3. wake'[h] = wake[h] - 1
        BY <2>1, <3>1, <3>2 DEF Elapse
      <3>4. since \in Int /\ since' \in Int /\ since' <= since + 1
        <4>1. CASE since = NoTick
          BY <3>1, <4>1 DEF Elapse, NoTick
        <4>2. CASE since \in 0..SinceCap
          <5>1. since' = Longer(since, 1, SinceCap)
            BY <3>1, <4>2 DEF Elapse, NoTick
          <5>2. SinceCap \in Nat
            BY SetupType
          <5>3. since' \in 0..SinceCap /\ since' <= since + 1
            BY <4>2, <5>1, <5>2, LongerBound, LongerType
          <5>4. QED
            BY <4>2, <5>2, <5>3
        <4>3. QED
          BY <4>1, <4>2 DEF TypeOK
      <3>5. since + wake[h] <= JumpGap(Interval(status)) /\ JumpGap(Interval(status)) \in Int
        <4>1. status.interval \in Nat
          BY DEF TypeOK, Status
        <4>2. Interval(status) \in Nat
          BY <4>1, SetupType DEF Interval
        <4>3. QED
          BY <2>1, <2>4, <3>1, <4>2, NumberAssumption DEF LoneLoopInv, JumpGap, JumpFactor
      <3>6. QED
        BY <3>2, <3>3, <3>4, <3>5
    <2>5. gap => gap'
      BY DEF Pass, MachineSleeps
    <2>6. QED
      BY <1>1, <2>1, <2>2, <2>3, <2>4, <2>5 DEF LoneLoopInv
  <1>4. QED
    BY <1>1, <1>2, <1>3 DEF LoneInv

\* The invariant of a lone loop holds at first and is kept by every step.
LEMMA LoneInit == Init => LoneInv
  <1> SUFFICES ASSUME Init PROVE LoneInv
    OBVIOUS
  <1>1. status.interval = 0 /\ \A g \in Hosts : mem[g].interval = 0 /\ at[g] = "asleep" /\ wake[g] = 0
    BY DEF Init, NoStatus, Fresh
  <1>2. JumpGap(Interval(status)) \in Nat
    BY <1>1, InitType, SetupType, NumberAssumption DEF JumpGap, JumpFactor, Interval
  <1>3. Loops \subseteq Hosts
    BY DEF Loops, Hosts
  <1>4. QED
    BY <1>1, <1>2, <1>3 DEF Init, LoneInv, PaceInv, LoneLoopInv, NoTick

LEMMA LoneStep ==
    ASSUME PaceIsNoJump, TypeOK, LoneInv, [Next]_vars
    PROVE  LoneInv'
  <1>1. CASE UNCHANGED vars
    BY <1>1, PaceFrame DEF vars, runDir, tickVars
  <1>2. ASSUME NEW h \in Hosts, HostStep(h) \/ BeginUnlocked(h) \/ Die(h) \/ Resume(h)
        PROVE  LoneInv'
    <2>1. h \in setup.hosts /\ setup' = setup /\ PaceInv'
      BY <1>2, MoverIsDeployed, PaceHostStep DEF LoneInv
    <2>2. ASSUME NEW g \in Loops, setup.hosts = {g} PROVE LoneLoopInv(g)'
      <3>1. g = h /\ LoneLoopInv(g)
        BY <2>1, <2>2 DEF LoneInv
      <3>2. QED
        BY <1>2, <2>2, <3>1, LoneTurn DEF LoneInv
    <2>3. QED
      BY <2>1, <2>2 DEF LoneInv
  <1>3. CASE \E order \in Orders : Give(order)
    BY <1>3, PaceFrame DEF Give, tickVars
  <1>4. CASE Clear
    BY <1>4, PaceFrame DEF Clear, tickVars
  <1>5. CASE \E r \in Jobs : Beat(r) \/ Report(r) \/ FallSilent(r)
    BY <1>5, PaceFrame DEF Beat, Report, FallSilent, runDir, tickVars
  <1>6. CASE Pass \/ MachineSleeps
    BY <1>6, LoneTime
  <1>7. QED
    BY <1>1, <1>2, <1>3, <1>4, <1>5, <1>6 DEF Next

\* With one loop alone only a sleep of the machine, or an end of the loop, looks like a
\* jump of the clock: neither the idle factor, nor POLL-NOW, nor a CADENCE written at
\* any moment does, as long as the longest pause is no jump (tick.py: tick, suppress_stall).
THEOREM LoneLoopsTellSleeps ==
    ASSUME PaceIsNoJump
    PROVE  Spec => []JumpsAreSleeps
  <1>1. TypeOK /\ LoneInv => JumpsAreSleeps
    <2> SUFFICES ASSUME TypeOK, LoneInv, NEW h \in Loops, setup.hosts = {h}, at[h] = "loaded",
                        Suppressed(h), ~gap
                 PROVE  FALSE
      BY DEF JumpsAreSleeps
    <2>1. LoneLoopInv(h) /\ h \in Hosts
      BY DEF LoneInv, Loops, Hosts
    <2>2. Interval(mem[h]) = Interval(status) /\ since <= JumpGap(Interval(status))
      BY <2>1 DEF LoneLoopInv, Interval
    <2>3. since \in Int /\ JumpGap(Interval(status)) \in Int
      <3>1. status.interval \in Nat
        BY DEF TypeOK, Status
      <3>2. Interval(status) \in Nat /\ since \in Int
        BY <3>1, SetupType DEF Interval, TypeOK, NoTick
      <3>3. QED
        BY <3>2, NumberAssumption DEF JumpGap, JumpFactor
    <2>4. QED
      BY <2>2, <2>3 DEF Suppressed
  <1>2. Init => TypeOK /\ LoneInv
    BY InitType, LoneInit
  <1>3. TypeOK /\ LoneInv /\ [Next]_vars => TypeOK' /\ LoneInv'
    BY NextType, LoneStep
  <1>4. QED
    BY <1>1, <1>2, <1>3, PTL DEF Spec
=============================================================================
