-------------------------------- MODULE Intake --------------------------------
(***************************************************************************)
(* Work that joins a running batch: job files staged in incoming/ by       *)
(* `arunner add`, and messages dropped in inbox/ by an orchestrating chat. *)
(* Every tick first absorbs incoming/, then drains inbox/, then works on   *)
(* the runs (which TickEngine models in detail; here a run is open or      *)
(* over), answers finished orders in outbox/ and persists.                 *)
(*                                                                         *)
(* On disk: plan, runs and done (harness_status.json), token, inbound,     *)
(* ledger, ack, pending, result, cancel, summary.  A crash of the tick     *)
(* loses: mPlan, mRuns, mPending, list, pc.                                *)
(*                                                                         *)
(* Senders write their file in place, so a tick may find it created but    *)
(* not yet written.  A tick is under the run directory's tick lock.        *)
(***************************************************************************)
EXTENDS Integers, Sequences, FiniteSets

CONSTANTS
    Adds,       \* the files `arunner add` stages; numbers, in name order
    Orders,     \* messages that stage jobs: enqueue, dispatch-job, run-batch
    Rejected,   \* the orders that fail --check
    Cancels,    \* control messages with op cancel
    Target,     \* [Cancels -> Nat]: the run each of them names
    Size,       \* [Adds \cup Orders -> Nat]: how many jobs each brings
    FirstJobs,  \* jobs of the plan the batch was started with
    MaxCrashes, \* how many times a tick may die
    MaxResends  \* how many times a message may be sent again under its id

Messages == Orders \cup Cancels
Inputs   == Adds \cup Messages
Planned  == 0   \* stands for the origin of the first jobs

ASSUME IntakeAssumption ==
    /\ Inputs \subseteq Nat \ {Planned}
    /\ Adds \cap Messages = {} /\ Orders \cap Cancels = {} /\ Rejected \subseteq Orders
    /\ Target \in [Cancels -> Nat \ {0}]
    /\ Size \in [Adds \cup Orders -> Nat \ {0}]
    /\ FirstJobs \in Nat \ {0} /\ MaxCrashes \in Nat /\ MaxResends \in Nat

VARIABLES
    plan,      \* plan.json: the origin of each job, in order
    runs,      \* the runs of harness_status.json: run number -> its state
    done,      \* the done flag of harness_status.json
    token,     \* what the scaffold of a run number was made for
    inbound,   \* the files of incoming/ and inbox/
    ledger,    \* inbox/.processed
    ack,       \* outbox/<id>.ack.json
    pending,   \* outbox/.pending.json: the runs each order waits for
    result,    \* the orders with an outbox/<id>.result.json
    cancel,    \* the CANCEL file: the run it names, 0 when there is none
    summary,   \* the runs summary.json lists, {} before it exists
    pc, list, mPlan, mRuns, mPending,   \* the running tick
    crashes, resends

status  == <<runs, done>>
outbox  == <<ack, pending, result>>
memory  == <<list, mPlan, mRuns, mPending>>
vars    == <<plan, status, token, inbound, ledger, outbox, cancel, summary, pc, memory,
             crashes, resends>>
------------------------------------------------------------------------------
RunStage == {"open", "over"}

NoOrders == [m \in Orders |-> {}]

Numbered(set) == \A i \in set : i \in Nat \ {0}

TypeOK ==
    /\ plan \in Seq(Inputs \cup {Planned}) /\ mPlan \in Seq(Inputs \cup {Planned})
    /\ Numbered(DOMAIN runs) /\ \A i \in DOMAIN runs : runs[i] \in RunStage
    /\ Numbered(DOMAIN mRuns) /\ \A i \in DOMAIN mRuns : mRuns[i] \in RunStage
    /\ Numbered(DOMAIN token) /\ \A i \in DOMAIN token : token[i] \in Inputs \cup {Planned}
    /\ done \in BOOLEAN
    /\ inbound \in [Inputs -> {"unsent", "partial", "whole", "taken"}]
    /\ ledger \subseteq Messages /\ list \subseteq Inputs
    /\ ack \in [Messages -> {"none", "applied", "rejected"}]
    /\ DOMAIN pending = Orders /\ \A m \in Orders : Numbered(pending[m])
    /\ DOMAIN mPending = Orders /\ \A m \in Orders : Numbered(mPending[m])
    /\ result \subseteq Orders /\ cancel \in Nat /\ Numbered(summary)
    /\ pc \in {"idle", "absorb", "absorbed", "list", "drain", "apply", "reject", "retire",
               "drained", "note", "work", "answer", "persist"}
    /\ crashes \in Nat /\ resends \in Nat

Init ==
    /\ plan = [i \in 1..FirstJobs |-> Planned] /\ mPlan = plan
    /\ runs = [i \in 1..FirstJobs |-> "open"] /\ mRuns = runs
    /\ token = plan
    /\ done = FALSE
    /\ inbound = [x \in Inputs |-> "unsent"]
    /\ ledger = {} /\ ack = [m \in Messages |-> "none"]
    /\ pending = NoOrders /\ mPending = NoOrders /\ result = {}
    /\ cancel = 0 /\ summary = {}
    /\ pc = "idle" /\ list = {}
    /\ crashes = MaxCrashes /\ resends = MaxResends
------------------------------------------------------------------------------
(* Staging one file's jobs: the next numbers, a scaffold and an open record *)

Staged(p, x) == p \o [k \in 1..Size[x] |-> x]

\* Mutant: numbered by the runs still open.
NumbersOfOpenRuns(p, x) ==
    LET n == Cardinality({i \in DOMAIN mRuns : mRuns[i] = "open"}) IN n + 1 .. n + Size[x]

\* Mutant: numbered by the runs instead of the plan.
NumbersOfRuns(p, x) ==
    LET n == Cardinality(DOMAIN mRuns) IN n + 1 .. n + Size[x]

\* Append-only: after the last job of the plan, whether or not it has a run.
Numbers(p, x) == Len(p) + 1 .. Len(p) + Size[x]

Assign(f, set, value) == [i \in DOMAIN f \cup set |-> IF i \in set THEN value ELSE f[i]]

Scaffold(x) == token' = Assign(token, Numbers(mPlan, x), x)

Enlist(x) ==
    /\ mPlan' = Staged(mPlan, x)
    /\ mRuns' = Assign(mRuns, Numbers(mPlan, x), "open")

\* Files are taken in the order of their names.
IsNext(x) == x \in list /\ \A y \in list : x <= y

Present(set) == {x \in set : inbound[x] \in {"partial", "whole"}}

Take(x) == inbound' = [inbound EXCEPT ![x] = "taken"] /\ list' = list \ {x}

\* The process dies: what is only in memory is lost.
Die ==
    /\ crashes > 0 /\ crashes' = crashes - 1
    /\ pc' = "idle" /\ list' = {} /\ mPlan' = plan /\ mRuns' = runs /\ mPending' = NoOrders
    /\ UNCHANGED resends
------------------------------------------------------------------------------
(* _absorb_incoming *)

Begin ==
    /\ pc = "idle" /\ pc' = "absorb" /\ list' = Present(Adds)
    /\ UNCHANGED <<plan, status, token, inbound, ledger, outbox, cancel, summary,
                   mPlan, mRuns, mPending, crashes, resends>>

AbsorbFile(a) ==
    /\ pc = "absorb" /\ IsNext(a)
    /\ inbound[a] = "whole"
    /\ Scaffold(a) /\ Enlist(a) /\ Take(a)
    /\ UNCHANGED <<plan, status, ledger, outbox, cancel, summary, pc, mPending, crashes, resends>>

\* What cannot be parsed is skipped, and its file removed like the others.
SkipFile(a) ==
    /\ pc = "absorb" /\ IsNext(a)
    /\ inbound[a] = "partial"
    /\ Take(a)
    /\ UNCHANGED <<plan, status, token, ledger, outbox, cancel, summary, pc, mPlan, mRuns,
                   mPending, crashes, resends>>

\* plan.json is written before harness_status.json, by absorb and by drain.
WritePlan ==
    /\ pc \in {"absorb", "drain"} /\ list = {} /\ mPlan # plan
    /\ plan' = mPlan
    /\ pc' = IF pc = "absorb" THEN "absorbed" ELSE "drained"
    /\ UNCHANGED <<status, token, inbound, ledger, outbox, cancel, summary, memory,
                   crashes, resends>>

WriteStatus ==
    /\ pc \in {"absorbed", "drained"}
    /\ runs' = mRuns
    /\ pc' = IF pc = "absorbed" THEN "list" ELSE "note"
    /\ UNCHANGED <<plan, done, token, inbound, ledger, outbox, cancel, summary, memory,
                   crashes, resends>>

NothingAbsorbed ==
    /\ pc = "absorb" /\ list = {} /\ mPlan = plan
    /\ pc' = "list"
    /\ UNCHANGED <<plan, status, token, inbound, ledger, outbox, cancel, summary, memory,
                   crashes, resends>>
------------------------------------------------------------------------------
(* _drain_inbox *)

\* Mutant: .pending.json is begun afresh by every tick that drains.
PendingAfresh == NoOrders

PendingLoaded == pending

ListInbox ==
    /\ pc = "list" /\ list' = Present(Messages)
    /\ pc' = IF list' = {} THEN "work" ELSE "drain"
    /\ mPending' = PendingLoaded
    /\ UNCHANGED <<plan, status, token, inbound, ledger, outbox, cancel, summary,
                   mPlan, mRuns, crashes, resends>>

\* A message whose id is in the ledger is put away without a second look.
Replay(m) ==
    /\ pc = "drain" /\ IsNext(m) /\ m \in ledger
    /\ Take(m)
    /\ UNCHANGED <<plan, status, token, ledger, outbox, cancel, summary, pc, mPlan, mRuns,
                   mPending, crashes, resends>>

\* Mutant: the id is not remembered.
LedgerForgets(m) == ledger

LedgerWith(m) == ledger \cup {m}

\* The id goes to the ledger before anything is done about the message.
Commit(m) ==
    /\ pc = "drain" /\ IsNext(m) /\ m \notin ledger
    /\ ledger' = LedgerWith(m)
    /\ pc' = IF inbound[m] = "partial" \/ m \in Rejected THEN "reject" ELSE "apply"
    /\ UNCHANGED <<plan, status, token, inbound, outbox, cancel, summary, memory,
                   crashes, resends>>

Answer(m, verdict) == ack' = [ack EXCEPT ![m] = verdict]

Reject(m) ==
    /\ pc = "reject" /\ IsNext(m)
    /\ Answer(m, "rejected") /\ pc' = "retire"
    /\ UNCHANGED <<plan, status, token, inbound, ledger, pending, result, cancel, summary,
                   memory, crashes, resends>>

\* Mutant: nobody waits for the order's runs.
PendingForgotten(m) == mPending

PendingWith(m) == [mPending EXCEPT ![m] = Numbers(mPlan, m)]

ApplyOrder(m) ==
    /\ pc = "apply" /\ IsNext(m) /\ m \in Orders
    /\ Scaffold(m) /\ Enlist(m)
    /\ mPending' = PendingWith(m)
    /\ Answer(m, "applied") /\ pc' = "retire"
    /\ UNCHANGED <<plan, status, inbound, ledger, pending, result, cancel, summary, list,
                   crashes, resends>>

\* The order becomes the CANCEL file; one that is already there is overwritten.
ApplyCancel(m) ==
    /\ pc = "apply" /\ IsNext(m) /\ m \in Cancels
    /\ cancel' = Target[m]
    /\ Answer(m, "applied") /\ pc' = "retire"
    /\ UNCHANGED <<plan, status, token, inbound, ledger, pending, result, summary, memory,
                   crashes, resends>>

Retire(m) ==
    /\ pc = "retire" /\ IsNext(m)
    /\ Take(m) /\ pc' = "drain"
    /\ UNCHANGED <<plan, status, token, ledger, outbox, cancel, summary, mPlan, mRuns,
                   mPending, crashes, resends>>

\* .pending.json follows the status; without new jobs it is all there is to write.
WritePending ==
    /\ \/ pc = "note"
       \/ pc = "drain" /\ list = {} /\ mPlan = plan
    /\ pending' = mPending /\ pc' = "work"
    /\ UNCHANGED <<plan, status, token, inbound, ledger, ack, result, cancel, summary, memory,
                   crashes, resends>>
------------------------------------------------------------------------------
(* The rest of the tick *)

AllOver(r) == \A i \in DOMAIN r : r[i] = "over"

\* Mutant: a CANCEL of an unknown run is taken at its word.
CancelledUnasked == Assign(runs, {cancel}, "over")

\* A CANCEL ends the run it names, if there is one.
Cancelled == IF cancel \in DOMAIN runs THEN Assign(runs, {cancel}, "over") ELSE runs

\* SUMMARY is written on the transition into done, or when it is missing.
SummaryOf(r) == IF AllOver(r) /\ (~done \/ summary = {}) THEN DOMAIN r ELSE summary

\* Any open run may end within a tick, even one that just joined: its done_check
\* may hold, or the CANCEL may name it.
Work ==
    /\ pc = "work" /\ pc' = "answer"
    /\ \E next \in [DOMAIN Cancelled -> RunStage] :
          /\ \A i \in DOMAIN next : Cancelled[i] = "over" => next[i] = "over"
          /\ mRuns' = next
          /\ summary' = SummaryOf(next)
    /\ cancel' = 0
    /\ UNCHANGED <<plan, status, token, inbound, ledger, outbox, list, mPlan, mPending,
                   crashes, resends>>

\* Mutant: one of an order's runs is enough.
ReadyWhenOneIs(m) == \E i \in pending[m] : i \in DOMAIN mRuns /\ mRuns[i] = "over"

Ready(m) ==
    pending[m] # {} /\ \A i \in pending[m] : i \in DOMAIN mRuns /\ mRuns[i] = "over"

EmitReadyResults ==
    /\ pc = "answer" /\ pc' = "persist"
    /\ result' = result \cup {m \in Orders : Ready(m)}
    /\ pending' = [m \in Orders |-> IF Ready(m) THEN {} ELSE pending[m]]
    /\ UNCHANGED <<plan, status, token, inbound, ledger, ack, cancel, summary, memory,
                   crashes, resends>>

Persist ==
    /\ pc = "persist" /\ pc' = "idle"
    /\ runs' = mRuns /\ done' = AllOver(mRuns)
    /\ mPending' = NoOrders
    /\ UNCHANGED <<plan, token, inbound, ledger, outbox, cancel, summary, list, mPlan, mRuns,
                   crashes, resends>>
------------------------------------------------------------------------------
(* A crash, between two steps or in the middle of one *)

Crash ==
    /\ pc # "idle" /\ Die
    /\ UNCHANGED <<plan, status, token, inbound, ledger, outbox, cancel, summary>>

\* The scaffold is there, its file not yet removed or its ack not yet written.
CrashInScaffold(x) ==
    /\ IsNext(x)
    /\ \/ pc = "absorb" /\ inbound[x] = "whole"
       \/ pc = "apply" /\ x \in Orders
    /\ Scaffold(x) /\ Die
    /\ UNCHANGED <<plan, status, inbound, ledger, outbox, cancel, summary>>

CrashBeforeAck(m) ==
    /\ pc = "apply" /\ IsNext(m) /\ m \in Cancels
    /\ cancel' = Target[m] /\ Die
    /\ UNCHANGED <<plan, status, token, inbound, ledger, outbox, summary>>

\* Results are there, .pending.json still lists their orders.
CrashInEmit ==
    /\ pc = "answer" /\ Die
    /\ \E some \in SUBSET {m \in Orders : Ready(m)} : result' = result \cup some
    /\ UNCHANGED <<plan, status, token, inbound, ledger, ack, pending, cancel, summary>>
------------------------------------------------------------------------------
(* The senders: a file appears empty and is then written *)

Write(x) ==
    /\ inbound[x] = "unsent"
    /\ inbound' = [inbound EXCEPT ![x] = "partial"]
    /\ UNCHANGED <<plan, status, token, ledger, outbox, cancel, summary, pc, memory,
                   crashes, resends>>

Complete(x) ==
    /\ inbound[x] = "partial"
    /\ inbound' = [inbound EXCEPT ![x] = "whole"]
    /\ UNCHANGED <<plan, status, token, ledger, outbox, cancel, summary, pc, memory,
                   crashes, resends>>

\* A sender that is not sure its message arrived sends it again under its id.
Resend(m) ==
    /\ inbound[m] = "taken" /\ resends > 0 /\ resends' = resends - 1
    /\ inbound' = [inbound EXCEPT ![m] = "whole"]
    /\ UNCHANGED <<plan, status, token, ledger, outbox, cancel, summary, pc, memory, crashes>>
------------------------------------------------------------------------------
Absorb == \/ Begin \/ NothingAbsorbed \/ WritePlan \/ WriteStatus
          \/ \E a \in Adds : AbsorbFile(a) \/ SkipFile(a)

Drain == \/ ListInbox \/ WritePending
         \/ \E m \in Messages : \/ Replay(m) \/ Commit(m) \/ Reject(m)
                                \/ ApplyOrder(m) \/ ApplyCancel(m) \/ Retire(m)

Tick == Absorb \/ Drain \/ Work \/ EmitReadyResults \/ Persist

Interrupt == \/ Crash \/ CrashInEmit
             \/ \E x \in Adds \cup Orders : CrashInScaffold(x)
             \/ \E m \in Cancels : CrashBeforeAck(m)

Sender == \/ \E x \in Inputs : Write(x) \/ Complete(x)
          \/ \E m \in Messages : Resend(m)

Next == Tick \/ Interrupt \/ Sender

Spec == Init /\ [][Next]_vars

\* Ticks recur and senders finish what they write.  That a run ends is not assumed: a
\* hung worker may keep one open for ever.
Fairness == WF_vars(Tick) /\ \A x \in Inputs : WF_vars(Complete(x))

FairSpec == Spec /\ Fairness
------------------------------------------------------------------------------
(* Properties *)

JobsOf(x) == {i \in DOMAIN plan : plan[i] = x}

Landed(x) == Cardinality(JobsOf(x)) = Size[x] /\ JobsOf(x) \subseteq DOMAIN runs

NoCrashYet == crashes = MaxCrashes

\* The ledger makes a replay a no-op: no input's jobs enter the plan twice, however
\* often its file is seen and wherever a tick dies.
NothingAppliedTwice ==
    \A x \in Adds \cup Orders : Cardinality(JobsOf(x)) <= Size[x]

\* Every run of the persisted status has its job in the plan, and its scaffold was
\* made for that very job, although a crash may leave plan.json ahead of
\* harness_status.json and scaffolds ahead of both.
RunsMatchPlan ==
    \A i \in DOMAIN runs : i \in DOMAIN plan /\ token[i] = plan[i]

\* "Existing runs are never renumbered": a job keeps its place, its run keeps its
\* number, and no later job takes over the number of a run that is over.
RunsAreNotRenumbered ==
    [][/\ \A i \in DOMAIN plan : i \in DOMAIN plan' /\ plan'[i] = plan[i]
       /\ \A i \in DOMAIN runs : /\ i \in DOMAIN runs'
                                 /\ runs[i] = "over" => runs'[i] = "over"]_vars

\* An outbox result is given only for an order whose jobs are all in the plan with
\* their runs; and if no tick died, the persisted status calls each of them over.
ResultsAreTrue ==
    \A m \in result :
        /\ Landed(m)
        /\ NoCrashYet /\ pc = "idle" => \A i \in JobsOf(m) : runs[i] = "over"

\* As long as no tick dies, an order acknowledged as applied has its jobs in the
\* batch at the end of the tick, and its result is given or awaited.
AppliedOrdersLand ==
    NoCrashYet /\ pc = "idle" =>
        \A m \in Orders : ack[m] = "applied" =>
            Landed(m) /\ (m \in result \/ pending[m] = JobsOf(m))

JobsStayOpen(m) == []~(JobsOf(m) \subseteq {i \in DOMAIN runs : runs[i] = "over"})

\* Whatever died before: a staged file that a tick may find whole is absorbed, and a
\* message that no tick has committed to is answered, unless another tick dies meanwhile.
\* And wherever ticks die, an order that .pending.json lists gets its result, unless
\* one of its jobs stays open for ever.
EverythingIsAnswered ==
    /\ \A n \in 0..MaxCrashes :
        /\ \A a \in Adds :
            (pc = "idle" /\ inbound[a] = "whole" /\ crashes = n) ~> (Landed(a) \/ crashes < n)
        /\ \A m \in Messages :
            (inbound[m] = "whole" /\ m \notin ledger /\ crashes = n)
                ~> (ack[m] # "none" \/ crashes < n)
    /\ \A m \in Orders : (pending[m] # {}) ~> (m \in result \/ JobsStayOpen(m))

\* A staged file that is gone has left its jobs in the batch.
StagedJobsLand ==
    pc = "idle" => \A a \in Adds : inbound[a] = "taken" => Landed(a)
=============================================================================
