--------------------------------- MODULE Hosts ---------------------------------
(***************************************************************************)
(* Who calls the engine, and when.  Up to three hosts tick one run         *)
(* directory: an agent session, a foreground ticker, and a cron entry that *)
(* runs single ticks (the safety tick).  The tick lock keeps their ticks   *)
(* apart; the control files choose the pause, the pool and the cadence;    *)
(* and the continuation verdict tells a host whether to come back.         *)
(*                                                                         *)
(* A tick is taken apart where another host or the operator may come in    *)
(* between: it locks, absorbs and reads (Begin), decides (Work), writes    *)
(* the status (Persist), hands out its dispatch list (Launch) and ends     *)
(* (Rest).  The agent gives the lock back before it launches.              *)
(*                                                                         *)
(* Simplifications.  Jobs are single-prompt and have one attempt; what     *)
(* happens inside Work between two writes is TickEngine's.  A worker at    *)
(* work writes output, so only a silent one has stale output.  Time counts *)
(* minutes and passes while no host ticks.                                 *)
(***************************************************************************)
EXTENDS RunStates, FiniteSets

CONSTANTS
    NumJobs,      \* job-N is the number N
    Deployments,  \* the deployments to choose from, see Deployment
    PoolSize, NewPool,     \* pool_size of the plan, and the value written to POOL
    Cadence,               \* the minutes written to CADENCE
    IdleFactor,            \* idle_tick_multiplier
    Stall, ReclaimAfter, Grace,  \* thresholds in minutes
    Sentinels,             \* the terminal sentinels workers write
    SilenceCap             \* a silence saturates here, above the thresholds

Jobs  == 1..NumJobs
Hosts == {"agent", "ticker", "cron"}
Loops == {"agent", "ticker"}   \* they ask the engine when to come back
Orders == {"STOP", "PAUSE", "RESUME", "CADENCE", "POOL", "POLL-NOW", "ADD", "BLOCK"}

\* What is fixed for a run (hosts, first, shell, measurable, interval), and what
\* may happen in it: orders given once each, deaths of a host, sleeps of the
\* machine, and opens of the lock file that fail.
Deployment == [hosts: SUBSET Hosts, first: (SUBSET Jobs) \ {{}}, shell: SUBSET Jobs,
               measurable: SUBSET Jobs, interval: Nat \ {0},
               orders: SUBSET Orders, deaths: Nat, sleeps: Nat, lockFaults: Nat]

ASSUME DeploymentAssumption == NumJobs \in Nat \ {0} /\ Deployments \subseteq Deployment

ASSUME NumberAssumption ==
    /\ PoolSize \in Nat \ {0} /\ NewPool \in Nat \ {0}
    /\ Cadence \in Nat \ {0} /\ IdleFactor \in Nat \ {0}
    /\ Stall \in Nat /\ ReclaimAfter \in Nat /\ Grace \in Nat
    /\ SilenceCap \in Nat /\ Sentinels \subseteq TerminalHb
    /\ Stall < SilenceCap /\ ReclaimAfter < SilenceCap /\ Grace < SilenceCap

VARIABLES
    setup,     \* the deployment
    left,      \* what of its orders, deaths, sleeps and lockFaults is still to come
    status,    \* harness_status.json
    control,   \* the control files at the run-dir root
    staged,    \* jobs in incoming/
    blocker,   \* is there an open record in blockers/
    lock,      \* the holder of .tick.lock
    unlocked,  \* has a tick run without the lock, since its file did not open
    at, mem,   \* per host: where it is, and the status its tick works on
    list,      \* per host: dispatch_list, what it still has to launch
    wake,      \* per host: minutes until it may tick again
    since,     \* minutes since last_tick_wall
    said, silence,  \* per job: its heartbeat, and minutes since that or the claim
    worker, launches,  \* per job: its worker, and how many were started
    gap        \* since the last tick that persisted, did the machine sleep, or a
               \* host end, die or meet STOP

tickVars == <<at, mem, list, wake>>
jobVars  == <<said, silence, worker, launches>>
runDir   == <<status, control, staged, blocker>>
vars == <<setup, left, runDir, lock, unlocked, tickVars, since, jobVars, gap>>
------------------------------------------------------------------------------
(* State *)

NoTick == -1   \* last_tick_wall is not set yet

JumpFactor == 4
JumpGap(n) == JumpFactor * (IF Stall > n THEN Stall ELSE n)

\* Above every threshold for a gap that this deployment can have.
SinceCap == JumpGap(IF "CADENCE" \in setup.orders /\ Cadence > setup.interval
                    THEN Cadence ELSE setup.interval) + 1

Reasons == {"done", "failed", "blocked", "pause", "stalled"}

JobState == {"absent"} \cup RunState

Status == [run: [Jobs -> JobState], paused: BOOLEAN, pool: Nat \ {0},
           interval: Nat, due: Nat, verdict: {"none", "CONTINUE"} \cup Reasons,
           done: BOOLEAN]

Fresh(first) == [run |-> [r \in Jobs |-> IF r \in first THEN "queued" ELSE "absent"],
                 paused |-> FALSE, pool |-> PoolSize, interval |-> 0, due |-> 0,
                 verdict |-> "none", done |-> FALSE]

NoStatus == Fresh({})   \* a host that is not ticking remembers nothing

TypeOK ==
    /\ setup \in Deployments
    /\ left \in [orders: SUBSET Orders, deaths: Nat, sleeps: Nat, lockFaults: Nat]
    /\ status \in Status
    /\ control \subseteq Orders /\ staged \subseteq Jobs /\ blocker \in BOOLEAN
    /\ lock \in Hosts \cup {"free"} /\ unlocked \in BOOLEAN
    /\ at \in [Hosts -> {"asleep", "loaded", "worked", "launching", "ended"}]
    /\ mem \in [Hosts -> Status]
    /\ list \in [Hosts -> SUBSET Jobs]
    /\ wake \in [Hosts -> Nat]
    /\ since \in 0..SinceCap \cup {NoTick}
    /\ said \in [Jobs -> Heartbeat]
    /\ silence \in [Jobs -> 0..SilenceCap]
    /\ worker \in [Jobs -> {"none", "working", "hung", "gone", "over"}]
    /\ launches \in [Jobs -> Nat]
    /\ gap \in BOOLEAN

\* init_run, and a host that starts its first tick at once.
Init ==
    /\ setup \in Deployments
    /\ left = [orders |-> setup.orders, deaths |-> setup.deaths, sleeps |-> setup.sleeps,
               lockFaults |-> setup.lockFaults]
    /\ status = Fresh(setup.first)
    /\ control = {} /\ staged = {} /\ blocker = FALSE
    /\ lock = "free" /\ unlocked = FALSE
    /\ at = [h \in Hosts |-> "asleep"]
    /\ mem = [h \in Hosts |-> NoStatus]
    /\ list = [h \in Hosts |-> {}]
    /\ wake = [h \in Hosts |-> 0]
    /\ since = NoTick
    /\ said = [r \in Jobs |-> "none"] /\ silence = [r \in Jobs |-> 0]
    /\ worker = [r \in Jobs |-> "none"] /\ launches = [r \in Jobs |-> 0]
    /\ gap = FALSE
------------------------------------------------------------------------------
(* The lock *)

Awake(h) == h \in setup.hosts /\ at[h] = "asleep" /\ wake[h] = 0

\* Mutant: the lock file is made, never asked.
LockFreeAlways == TRUE
LockFree == lock = "free"

Released(h) == IF lock = h THEN "free" ELSE lock

\* The tick absorbs what is staged, unless it sees STOP, and reads the status.
Absorb == IF "STOP" \in control THEN {} ELSE staged

BeginTick(h) ==
    /\ status' = [status EXCEPT !.run = [r \in Jobs |-> IF r \in Absorb THEN "queued" ELSE @[r]]]
    /\ staged' = staged \ Absorb
    /\ mem' = [mem EXCEPT ![h] = status']
    /\ at' = [at EXCEPT ![h] = "loaded"]
    /\ UNCHANGED <<setup, control, blocker, list, wake, since, jobVars, gap>>

Begin(h) ==
    /\ Awake(h) /\ LockFree
    /\ lock' = h
    /\ BeginTick(h)
    /\ UNCHANGED <<left, unlocked>>

\* The lock file cannot be opened: the tick runs all the same.
BeginUnlocked(h) ==
    /\ Awake(h) /\ left.lockFaults > 0
    /\ left' = [left EXCEPT !.lockFaults = @ - 1]
    /\ unlocked' = TRUE
    /\ BeginTick(h)
    /\ UNCHANGED lock

\* Another tick is in progress: a loop comes back in a minute.
Skip(h) ==
    /\ Awake(h) /\ ~LockFree
    /\ wake' = [wake EXCEPT ![h] = 1]
    /\ UNCHANGED <<setup, left, runDir, lock, unlocked, at, mem, list, since, jobVars, gap>>
------------------------------------------------------------------------------
(* What a tick decides *)

Interval(s) == IF s.interval > 0 THEN s.interval ELSE setup.interval

\* The status with the controls applied; POLL-NOW waits as long as it is paused.
Controlled(s) ==
    [s EXCEPT !.paused = "RESUME" \notin control /\ ("PAUSE" \in control \/ @),
              !.interval = IF "CADENCE" \in control THEN Cadence ELSE @,
              !.pool = IF "POOL" \in control THEN NewPool ELSE @]

\* Mutant: the threshold follows the cadence this very tick has been given.
SuppressedByNewCadence(h) == since > JumpGap(Interval(Controlled(mem[h])))

\* The gap since the last tick looks like a sleep of the machine: stalls wait.
Suppressed(h) == since > JumpGap(Interval(mem[h]))

\* Mutant: POLL-NOW is consumed under a pause.
PollNowConsumed(s) == FALSE
PollNowLeft(s) == "POLL-NOW" \in control /\ s.paused

PollsNow(s) == "POLL-NOW" \in control /\ ~s.paused

ControlLeft(s) == {n \in {"POLL-NOW"} : PollNowLeft(s)}

\* Mutant: only a run found stalled by an earlier tick is reclaimed.
HopelessOnceStalled(h, r) ==
    /\ mem[h].run[r] = "stalled" /\ silence[r] > ReclaimAfter
    /\ r \in setup.measurable /\ worker[r] # "working"

\* Silent for so long, in an output area known to be as silent, that it is given up.
Hopeless(h, r) ==
    /\ silence[r] > ReclaimAfter
    /\ r \in setup.measurable /\ worker[r] # "working"

\* A shell worker with a recorded PID that is gone without a sentinel.
DeadPid(r) == r \in setup.shell /\ worker[r] \in {"gone", "over"}

\* Where _advance takes run r of the tick of host h.
Advanced(h, r) ==
    LET state == mem[h].run[r]
        beats == said[r] # "none"
        late  == beats /\ silence[r] > Stall /\ ~Suppressed(h)
    IN  IF state \in Terminal \cup {"absent"} THEN state
        ELSE IF said[r] \in TerminalHb THEN ReapedState(said[r])
        ELSE IF DeadPid(r) THEN "failed"
        ELSE IF state = "claimed" /\ ~beats /\ silence[r] > Grace THEN "auth_or_launch_failed"
        ELSE IF late /\ Hopeless(h, r) THEN "abandoned"
        ELSE IF late THEN "stalled"
        ELSE IF beats /\ state \in {"claimed", "stalled"} THEN "running"
        ELSE state

In(run, states) == {r \in Jobs : run[r] \in states}

\* Mutant: a run that was given up keeps its slot.
SlotsHauntedIn(s) == Cardinality(In(s.run, InFlight \cup {"abandoned"}))
SlotsTakenIn(s) == Cardinality(In(s.run, InFlight))

\* The queued runs dispatched: the lowest, as many as the pool has room for.
Chosen(s) ==
    LET queued == In(s.run, {"queued"})
        before(r) == {q \in queued : q < r}
    IN  IF s.paused THEN {}
        ELSE {r \in queued : Cardinality(before(r)) + SlotsTakenIn(s) < s.pool}

Over(s) == \A r \in Jobs : s.run[r] \in Terminal \cup {"absent"}

\* Mutant: a batch that was done stays done.
DoneForGood(s) == s.done \/ Over(s)
Done(s) == Over(s)

\* _halt_reason: why a host need not come back, or CONTINUE.
Continuation(s) ==
    LET active == In(s.run, {"claimed", "running"})
        queued == In(s.run, {"queued"})
        full   == SlotsTakenIn(s) >= s.pool
    IN  IF Over(s) THEN IF In(s.run, Terminal) = In(s.run, {"completed"}) THEN "done" ELSE "failed"
        ELSE IF blocker THEN "blocked"
        ELSE IF s.paused THEN "pause"
        ELSE IF active = {} /\ In(s.run, {"stalled"}) # {} /\ (queued = {} \/ full) THEN "stalled"
        ELSE "CONTINUE"

\* The minutes until the next tick: longer while nothing is in flight.
NextMinutes(s, polls) ==
    IF polls THEN 1
    ELSE IF Done(s) \/ In(s.run, {"claimed", "running"}) # {} THEN Interval(s)
    ELSE Interval(s) * IdleFactor

\* The rest of a tick that does not see STOP, up to the write of the status.  The
\* engine writes STARTING for a subagent it dispatches.
Work(h) ==
    LET s       == Controlled(mem[h])
        reaped  == [s EXCEPT !.run = [r \in Jobs |-> Advanced(h, r)]]
        claimed == Chosen(reaped)
        now     == [reaped EXCEPT !.run = [r \in Jobs |-> IF r \in claimed THEN "claimed" ELSE @[r]]]
    IN  /\ at[h] = "loaded" /\ "STOP" \notin control
        /\ mem' = [mem EXCEPT ![h] = [now EXCEPT !.done = Done(now),
                                                 !.due = NextMinutes(now, PollsNow(s)),
                                                 !.verdict = Continuation(now)]]
        /\ list' = [list EXCEPT ![h] = claimed]
        /\ control' = ControlLeft(s)
        /\ said' = [r \in Jobs |-> IF r \in claimed \ setup.shell
                                   THEN AppendLine(said[r], "beat") ELSE said[r]]
        /\ silence' = [r \in Jobs |-> IF r \in claimed THEN 0 ELSE silence[r]]
        /\ at' = [at EXCEPT ![h] = "worked"]
        /\ UNCHANGED <<setup, left, status, staged, blocker, lock, unlocked, wake, since,
                       worker, launches, gap>>

\* The status is written.  A session runs the engine as a command, whose end
\* gives the lock back; a ticker holds it until its workers are spawned.
Persist(h) ==
    /\ at[h] = "worked"
    /\ status' = mem[h]
    /\ since' = 0 /\ gap' = FALSE
    /\ lock' = IF h = "agent" THEN Released(h) ELSE lock
    /\ at' = [at EXCEPT ![h] = "launching"]
    /\ UNCHANGED <<setup, left, control, staged, blocker, unlocked, mem, list, wake, jobVars>>
------------------------------------------------------------------------------
(* What a host does with the outcome *)

\* An agent launches subagents and a ticker shell workers; the rest is dropped.
Launches(h, r) == (h = "agent") = (r \notin setup.shell)

Launch(h) ==
    /\ at[h] = "launching"
    /\ \E r \in list[h] :
          /\ \A q \in list[h] : r <= q
          /\ list' = [list EXCEPT ![h] = @ \ {r}]
          /\ IF Launches(h, r)
             THEN /\ worker' = [worker EXCEPT ![r] = "working"]
                  /\ launches' = [launches EXCEPT ![r] = @ + 1]
             ELSE UNCHANGED <<worker, launches>>
    /\ UNCHANGED <<setup, left, runDir, lock, unlocked, at, mem, wake, since, said, silence, gap>>

\* After STOP or when all is done a loop ends; a session may also yield on HALT.
\* A cron entry fires once a minute at most.
Sleep(h) ==
    /\ lock' = Released(h)
    /\ at' = [at EXCEPT ![h] = "asleep"]
    /\ wake' = [wake EXCEPT ![h] = IF h \in Loops THEN mem[h].due ELSE 1]
    /\ mem' = [mem EXCEPT ![h] = NoStatus]
    /\ UNCHANGED gap

End(h) ==
    /\ lock' = Released(h)
    /\ at' = [at EXCEPT ![h] = IF h \in Loops THEN "ended" ELSE "asleep"]
    /\ mem' = [mem EXCEPT ![h] = NoStatus]
    /\ gap' = TRUE
    /\ wake' = [wake EXCEPT ![h] = 1]

Rest(h) ==
    /\ at[h] = "launching" /\ list[h] = {}
    /\ \/ (~mem[h].done \/ h \notin Loops) /\ Sleep(h)
       \/ (mem[h].done /\ h \in Loops) /\ End(h)
       \/ h = "agent" /\ mem[h].verdict # "CONTINUE" /\ End(h)
    /\ UNCHANGED <<setup, left, runDir, unlocked, list, since, jobVars>>

\* A tick that sees STOP changes nothing.
StopTick(h) ==
    /\ at[h] = "loaded" /\ "STOP" \in control
    /\ End(h)
    /\ UNCHANGED <<setup, left, runDir, unlocked, list, since, jobVars>>

\* The host dies inside its turn; the system frees its lock.
Die(h) ==
    /\ at[h] \in {"loaded", "worked", "launching"}
    /\ left.deaths > 0 /\ left' = [left EXCEPT !.deaths = @ - 1]
    /\ End(h)
    /\ list' = [list EXCEPT ![h] = {}]
    /\ UNCHANGED <<setup, runDir, unlocked, since, jobVars>>

\* The operator starts a loop again.
Resume(h) ==
    /\ at[h] = "ended"
    /\ at' = [at EXCEPT ![h] = "asleep"]
    /\ UNCHANGED <<setup, left, runDir, lock, unlocked, mem, list, wake, since, jobVars, gap>>
------------------------------------------------------------------------------
(* The operator, the workers and the clock *)

Give(order) ==
    /\ order \in left.orders
    /\ left' = [left EXCEPT !.orders = @ \ {order}]
    /\ control' = control \cup ({order} \ {"ADD", "BLOCK"})
    /\ staged'  = IF order = "ADD" THEN Jobs \ setup.first ELSE staged
    /\ blocker' = (blocker \/ order = "BLOCK")
    /\ UNCHANGED <<setup, status, lock, unlocked, tickVars, since, jobVars, gap>>

\* The operator removes STOP, or clears the blocker.
Clear ==
    /\ \/ "STOP" \in control /\ control' = control \ {"STOP"} /\ UNCHANGED blocker
       \/ blocker /\ blocker' = FALSE /\ UNCHANGED control
    /\ UNCHANGED <<setup, left, status, staged, lock, unlocked, tickVars, since, jobVars, gap>>

Beat(r) ==
    /\ worker[r] = "working"
    /\ said' = [said EXCEPT ![r] = AppendLine(@, "beat")]
    /\ silence' = [silence EXCEPT ![r] = 0]
    /\ UNCHANGED <<setup, left, runDir, lock, unlocked, tickVars, since, worker, launches, gap>>

Report(r) ==
    /\ worker[r] = "working"
    /\ \E sentinel \in Sentinels : said' = [said EXCEPT ![r] = AppendLine(@, sentinel)]
    /\ silence' = [silence EXCEPT ![r] = 0]
    /\ worker' = [worker EXCEPT ![r] = "over"]
    /\ UNCHANGED <<setup, left, runDir, lock, unlocked, tickVars, since, launches, gap>>

\* A worker hangs, or is gone without a word; of a subagent that is the same.
FallSilent(r) ==
    /\ worker[r] = "working"
    /\ \E how \in {"hung"} \cup (IF r \in setup.shell THEN {"gone"} ELSE {}) :
           worker' = [worker EXCEPT ![r] = how]
    /\ UNCHANGED <<setup, left, runDir, lock, unlocked, tickVars, since, said, silence,
                   launches, gap>>

\* The safety tick is installed "at ~3x the plan cadence".
SafetyFactor == 3

\* A loop comes back on time; cron fires when it likes, but not later than that.
Due(h) == Awake(h) /\ (h \in Loops \/ since >= SafetyFactor * setup.interval)

\* No host is inside a turn or due.
Quiet == \A h \in setup.hosts : at[h] \in {"asleep", "ended"} /\ ~Due(h)

Longer(age, n, cap) == IF age + n > cap THEN cap ELSE age + n

\* Only these silences are ever compared with a threshold.
Waited(r) == status.run[r] \in InFlight \/ said[r] = "beat"

Elapse(n) ==
    /\ since' = IF since = NoTick THEN NoTick ELSE Longer(since, n, SinceCap)
    /\ silence' = [r \in Jobs |-> IF Waited(r) THEN Longer(silence[r], n, SilenceCap) ELSE silence[r]]
    /\ wake' = [h \in Hosts |-> IF wake[h] > n THEN wake[h] - n ELSE 0]
    /\ UNCHANGED <<setup, runDir, lock, unlocked, at, mem, list, said, worker, launches>>

Pass == Quiet /\ Elapse(1) /\ UNCHANGED <<left, gap>>

\* The machine sleeps, longer than any threshold.
MachineSleeps ==
    /\ Quiet
    /\ left.sleeps > 0 /\ left' = [left EXCEPT !.sleeps = @ - 1]
    /\ Elapse(SinceCap + SilenceCap)
    /\ gap' = TRUE

HostStep(h) ==
    \/ Begin(h) \/ Skip(h) \/ Work(h) \/ Persist(h) \/ Launch(h) \/ Rest(h) \/ StopTick(h)

Next ==
    \/ \E h \in Hosts : HostStep(h) \/ BeginUnlocked(h) \/ Die(h) \/ Resume(h)
    \/ \E order \in Orders : Give(order)
    \/ Clear
    \/ \E r \in Jobs : Beat(r) \/ Report(r) \/ FallSilent(r)
    \/ Pass \/ MachineSleeps

Spec == Init /\ [][Next]_vars

\* A host that is due ticks, however often another host is faster, and its tick
\* goes on; workers end or fall silent; time passes between ticks.
FairSpec ==
    /\ Spec
    /\ \A h \in Hosts : /\ SF_vars(Begin(h))
                        /\ WF_vars(Work(h) \/ Persist(h) \/ Launch(h) \/ Rest(h) \/ StopTick(h))
    /\ \A r \in Jobs : WF_vars(Report(r) \/ FallSilent(r))
    /\ SF_vars(Pass)
------------------------------------------------------------------------------
(* Properties *)

\* The lock makes ticks of several hosts one sequence: as long as the lock file
\* opens, no tick takes back an end that another has written (a lost update).
NothingIsUndone ==
    [][~unlocked' => \A r \in Jobs : status.run[r] \in Terminal =>
                                        status'.run[r] = status.run[r]]_vars

\* "A locked tick skips" (FR-12), so no job is launched twice, one launched is no
\* longer queued, and no two hosts hold the same job, also while the agent launches
\* after its command gave the lock back.
LaunchedOnce ==
    ~unlocked => /\ \A r \in Jobs : launches[r] <= 1
                 /\ \A r \in Jobs : launches[r] = 1 => status.run[r] \notin {"absent", "queued"}
                 /\ \A g, h \in Hosts : g # h => list[g] \cap list[h] = {}

\* With one loop alone only a real gap looks like one: neither the idle factor nor
\* a CADENCE, written at any moment, makes the engine take its own pace for a sleep.
JumpsAreSleeps ==
    \A h \in Loops : setup.hosts = {h} /\ at[h] = "loaded" /\ Suppressed(h) => gap

\* Between ticks done means that every job is over, also when jobs join a batch
\* that was done; a tick that died or met STOP after absorbing them may leave it.
DoneMeansOver ==
    lock = "free" /\ ~unlocked /\ ~gap => (status.done => Over(status))

\* A tick that gives HALT:stalled has given up every run it could give up: what is
\* left stalled is within its time, works, or cannot be measured.
StalledIsWedged ==
    [][\A h \in Hosts : at[h] = "loaded" /\ at'[h] = "worked" /\ mem'[h].verdict = "stalled"
          => \A r \in Jobs : mem'[h].run[r] = "stalled" =>
                silence[r] <= ReclaimAfter \/ r \notin setup.measurable \/ worker[r] = "working"]_vars

Held == "STOP" \in control \/ status.paused

\* A POLL-NOW given at any moment, also under a PAUSE, at some point makes a tick
\* ask for the next one in a minute, unless the loop ends or the hold never does.
PollNowIsAnswered ==
    []<>~Held => ("POLL-NOW" \in control ~> status.due = 1 \/ at["ticker"] = "ended")

\* FR-26a: with a safety tick every job ends, whatever becomes of the session,
\* as long as the operator does not hold the run and silence can be told from work.
SafetyTickRescues ==
    "cron" \in setup.hosts /\ setup.measurable = Jobs /\ <>[]("STOP" \notin control /\ ~status.paused)
        => <>[]Over(status)

\* "A safety tick can't dispatch subagent entries; it can only reap/advance": no
\* subagent job ends without having been launched while its session lives.
SubagentsAreLaunched ==
    left.deaths = setup.deaths /\ "agent" \in setup.hosts =>
        \A r \in Jobs \ setup.shell : status.run[r] = "abandoned" => launches[r] > 0
================================================================================
