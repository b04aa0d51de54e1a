------------------------------ MODULE IntakeProofs ------------------------------
(***************************************************************************)
(* Proofs about Intake, for every set of staged files and messages, every  *)
(* number of jobs they bring, and every number of crashes and resends: the *)
(* types, that job numbers stay with their jobs, that no input enters the  *)
(* plan twice, and that acknowledgements and results are true.             *)
(***************************************************************************)
EXTENDS Intake, FiniteSetTheorems, SequenceTheorems, TLAPS

Origin == Inputs \cup {Planned}

Bringers == Adds \cup Orders

\* Appending the jobs of x to the plan.
LEMMA StagedPlan ==
    ASSUME NEW p \in Seq(Origin), NEW x \in Bringers
    PROVE  /\ Staged(p, x) \in Seq(Origin)
           /\ Len(p) \in Nat /\ Size[x] \in Nat \ {0}
           /\ DOMAIN p = 1..Len(p)
           /\ DOMAIN Staged(p, x) = 1..(Len(p) + Size[x])
           /\ DOMAIN Staged(p, x) = DOMAIN p \cup Numbers(p, x)
           /\ \A i \in DOMAIN p : i \notin Numbers(p, x) /\ Staged(p, x)[i] = p[i]
           /\ \A i \in Numbers(p, x) : i \in Nat \ {0} /\ Staged(p, x)[i] = x
  <1> DEFINE tail == [k \in 1..Size[x] |-> x]
  <1>1. Size[x] \in Nat \ {0} /\ x \in Origin
    BY IntakeAssumption DEF Bringers, Origin, Inputs, Messages
  <1>2. tail \in Seq(Origin) /\ Len(tail) = Size[x]
    BY <1>1
  <1>. HIDE DEF tail
  <1>3. /\ p \o tail \in Seq(Origin) /\ Len(p \o tail) = Len(p) + Size[x]
        /\ \A i \in 1..(Len(p) + Size[x]) :
               (p \o tail)[i] = IF i <= Len(p) THEN p[i] ELSE tail[i - Len(p)]
    <2>1. /\ p \o tail \in Seq(Origin) /\ Len(p \o tail) = Len(p) + Len(tail)
          /\ \A i \in 1 .. Len(p) + Len(tail) :
                 (p \o tail)[i] = IF i <= Len(p) THEN p[i] ELSE tail[i - Len(p)]
      BY <1>2, ConcatProperties, Zenon
    <2>2. QED
      BY <1>2, <2>1
  <1>4. Len(p) \in Nat /\ DOMAIN p = 1..Len(p) /\ DOMAIN (p \o tail) = 1..Len(p \o tail)
    BY <1>3, LenProperties
  <1>5. Staged(p, x) = p \o tail
    BY DEF Staged, tail
  <1>6. 1..(Len(p) + Size[x]) = (1..Len(p)) \cup Numbers(p, x)
    BY <1>1, <1>4 DEF Numbers
  <1>7. \A i \in 1..Len(p) : i \notin Numbers(p, x) /\ (p \o tail)[i] = p[i]
    BY <1>1, <1>3, <1>4 DEF Numbers
  <1>8. \A i \in Numbers(p, x) : i \in Nat \ {0} /\ (p \o tail)[i] = x
    <2>1. SUFFICES ASSUME NEW i \in Numbers(p, x) PROVE i \in Nat \ {0} /\ (p \o tail)[i] = x
      OBVIOUS
    <2>2. i \in 1..(Len(p) + Size[x]) /\ ~(i <= Len(p)) /\ i - Len(p) \in 1..Size[x]
      BY <1>1, <1>4 DEF Numbers
    <2>3. (p \o tail)[i] = tail[i - Len(p)]
      BY <1>3, <2>2
    <2>4. tail[i - Len(p)] = x
      BY <2>2 DEF tail
    <2>5. QED
      BY <2>2, <2>3, <2>4
  <1>9. QED
    BY <1>1, <1>3, <1>4, <1>5, <1>6, <1>7, <1>8

LEMMA InitType == Init => TypeOK
  <1>1. FirstJobs \in Nat /\ Planned \in Origin
    BY IntakeAssumption DEF Origin
  <1>2. [i \in 1..FirstJobs |-> Planned] \in Seq(Origin)
    BY <1>1
  <1>. SUFFICES ASSUME Init PROVE TypeOK
    OBVIOUS
  <1>3. plan \in Seq(Inputs \cup {Planned}) /\ mPlan = plan /\ token = plan
    BY <1>2 DEF Init, Origin
  <1>4. /\ Numbered(DOMAIN runs) /\ \A i \in DOMAIN runs : runs[i] \in RunStage
        /\ Numbered(DOMAIN token) /\ \A i \in DOMAIN token : token[i] \in Inputs \cup {Planned}
    BY <1>1 DEF Init, Numbered, RunStage, Origin
  <1>5. mRuns = runs /\ Numbered({}) /\ NoOrders = [m \in Orders |-> {}]
    BY DEF Init, Numbered, NoOrders
  <1>6. /\ crashes \in Nat /\ resends \in Nat /\ cancel \in Nat /\ done \in BOOLEAN
        /\ pc = "idle" /\ list = {} /\ ledger = {} /\ result = {} /\ summary = {}
        /\ pending = NoOrders /\ mPending = NoOrders
    BY IntakeAssumption DEF Init
  <1>7. /\ inbound \in [Inputs -> {"unsent", "partial", "whole", "taken"}]
        /\ ack \in [Messages -> {"none", "applied", "rejected"}]
    BY DEF Init
  <1>8. QED
    BY <1>3, <1>4, <1>5, <1>6, <1>7 DEF TypeOK

LEMMA DieType ==
    ASSUME TypeOK, Die
    PROVE  /\ pc' = "idle" /\ list' = {} /\ mPlan' = plan /\ mRuns' = runs
           /\ mPending' = NoOrders /\ crashes' \in Nat /\ resends' = resends
  BY DEF Die, TypeOK

LEMMA EnlistType ==
    ASSUME TypeOK, NEW x \in Bringers, Scaffold(x)
    PROVE  /\ Numbered(DOMAIN token') /\ \A i \in DOMAIN token' : token'[i] \in Inputs \cup {Planned}
           /\ Numbered(Numbers(mPlan, x))
           /\ Enlist(x) => /\ mPlan' \in Seq(Inputs \cup {Planned})
                           /\ Numbered(DOMAIN mRuns') /\ \A i \in DOMAIN mRuns' : mRuns'[i] \in RunStage
  <1>1. mPlan \in Seq(Origin) /\ x \in Origin
    BY DEF TypeOK, Origin, Bringers, Inputs, Messages
  <1>2. Staged(mPlan, x) \in Seq(Origin) /\ \A i \in Numbers(mPlan, x) : i \in Nat \ {0}
    BY <1>1, StagedPlan
  <1>3. QED
    BY <1>1, <1>2 DEF Scaffold, Enlist, Assign, TypeOK, Numbered, RunStage, Origin

LEMMA TakeType ==
    ASSUME TypeOK, NEW x \in Inputs, Take(x)
    PROVE  inbound' \in [Inputs -> {"unsent", "partial", "whole", "taken"}] /\ list' \subseteq Inputs
  BY DEF Take, TypeOK

LEMMA AbsorbType ==
    ASSUME TypeOK, Absorb
    PROVE  TypeOK'
  <1>. USE DEF TypeOK, status, outbox, memory
  <1>1. CASE Begin
    BY <1>1 DEF Begin, Present, Inputs
  <1>2. CASE NothingAbsorbed \/ WritePlan \/ WriteStatus
    BY <1>2 DEF NothingAbsorbed, WritePlan, WriteStatus
  <1>3. ASSUME NEW a \in Adds, AbsorbFile(a) PROVE TypeOK'
    <2>1. a \in Bringers /\ a \in Inputs
      BY DEF Bringers, Inputs
    <2>2. QED
      BY <1>3, <2>1, EnlistType, TakeType DEF AbsorbFile
  <1>4. ASSUME NEW a \in Adds, SkipFile(a) PROVE TypeOK'
    <2>1. a \in Inputs
      BY DEF Inputs
    <2>2. QED
      BY <1>4, <2>1, TakeType DEF SkipFile
  <1>5. QED
    BY <1>1, <1>2, <1>3, <1>4 DEF Absorb

LEMMA DrainType ==
    ASSUME TypeOK, Drain
    PROVE  TypeOK'
  <1>. USE DEF TypeOK, status, outbox, memory
  <1>1. CASE ListInbox
    BY <1>1 DEF ListInbox, PendingLoaded, Present, Inputs
  <1>2. CASE WritePending
    BY <1>2 DEF WritePending
  <1>3. ASSUME NEW m \in Messages, Replay(m) \/ Retire(m) PROVE TypeOK'
    <2>1. m \in Inputs
      BY DEF Inputs
    <2>2. QED
      BY <1>3, <2>1, TakeType DEF Replay, Retire
  <1>4. ASSUME NEW m \in Messages, Commit(m) \/ Reject(m) PROVE TypeOK'
    BY <1>4 DEF Commit, LedgerWith, Reject, Answer
  <1>5. ASSUME NEW m \in Messages, ApplyOrder(m) PROVE TypeOK'
    <2>1. m \in Orders /\ m \in Bringers
      BY <1>5 DEF ApplyOrder, Bringers
    <2>2. DOMAIN mPending' = Orders /\ \A n \in Orders : Numbered(mPending'[n])
      BY <1>5, <2>1, EnlistType DEF ApplyOrder, PendingWith
    <2>3. QED
      BY <1>5, <2>1, <2>2, EnlistType DEF ApplyOrder, Answer
  <1>6. ASSUME NEW m \in Messages, ApplyCancel(m) PROVE TypeOK'
    <2>1. Target[m] \in Nat
      BY <1>6, IntakeAssumption DEF ApplyCancel
    <2>2. QED
      BY <1>6, <2>1 DEF ApplyCancel, Answer
  <1>7. QED
    BY <1>1, <1>2, <1>3, <1>4, <1>5, <1>6 DEF Drain

\* A CANCEL ends a run there is, and makes none.
LEMMA CancelledRuns ==
    /\ DOMAIN Cancelled = DOMAIN runs
    /\ \A i \in DOMAIN runs : runs[i] = "over" => Cancelled[i] = "over"
  BY DEF Cancelled, Assign

LEMMA WorkType ==
    ASSUME TypeOK, Work \/ EmitReadyResults \/ Persist
    PROVE  TypeOK'
  <1>. USE DEF TypeOK, status, outbox, memory
  <1>1. CASE Work
    <2>1. PICK next \in [DOMAIN Cancelled -> RunStage] : mRuns' = next /\ summary' = SummaryOf(next)
      BY <1>1 DEF Work
    <2>2. DOMAIN mRuns' = DOMAIN runs
      BY <2>1, CancelledRuns
    <2>3. Numbered(summary')
      BY <2>1, <2>2 DEF SummaryOf, Numbered
    <2>4. QED
      BY <1>1, <2>1, <2>2, <2>3 DEF Work, Numbered
  <1>2. CASE EmitReadyResults
    BY <1>2 DEF EmitReadyResults, Numbered
  <1>3. CASE Persist
    BY <1>3 DEF Persist, AllOver, NoOrders, Numbered
  <1>4. QED
    BY <1>1, <1>2, <1>3

LEMMA InterruptType ==
    ASSUME TypeOK, Interrupt
    PROVE  TypeOK'
  <1>. USE DEF TypeOK, status, outbox
  <1>0. DOMAIN NoOrders = Orders /\ \A m \in Orders : Numbered(NoOrders[m])
    BY DEF NoOrders, Numbered
  <1>1. CASE Crash
    BY <1>0, <1>1, DieType DEF Crash
  <1>2. CASE CrashInEmit
    <2>1. result' \subseteq Orders
      BY <1>2 DEF CrashInEmit
    <2>2. QED
      BY <1>0, <1>2, <2>1, DieType DEF CrashInEmit
  <1>3. ASSUME NEW x \in Adds \cup Orders, CrashInScaffold(x) PROVE TypeOK'
    <2>1. x \in Bringers
      BY DEF Bringers
    <2>2. QED
      BY <1>0, <1>3, <2>1, DieType, EnlistType DEF CrashInScaffold
  <1>4. ASSUME NEW m \in Cancels, CrashBeforeAck(m) PROVE TypeOK'
    <2>1. Target[m] \in Nat
      BY IntakeAssumption
    <2>2. QED
      BY <1>0, <1>4, <2>1, DieType DEF CrashBeforeAck
  <1>5. QED
    BY <1>1, <1>2, <1>3, <1>4 DEF Interrupt

LEMMA SenderType ==
    ASSUME TypeOK, Sender
    PROVE  TypeOK'
  <1>. USE DEF TypeOK, status, outbox, memory
  <1>1. ASSUME NEW x \in Inputs, Write(x) \/ Complete(x) PROVE TypeOK'
    BY <1>1 DEF Write, Complete
  <1>2. ASSUME NEW m \in Messages, Resend(m) PROVE TypeOK'
    <2>1. resends' \in Nat
      BY <1>2 DEF Resend
    <2>2. inbound' \in [Inputs -> {"unsent", "partial", "whole", "taken"}]
      BY <1>2 DEF Resend
    <2>3. QED
      BY <1>2, <2>1, <2>2 DEF Resend
  <1>3. QED
    BY <1>1, <1>2 DEF Sender

LEMMA NextType == TypeOK /\ [Next]_vars => TypeOK'
  <1>. SUFFICES ASSUME TypeOK, [Next]_vars PROVE TypeOK'
    OBVIOUS
  <1>1. CASE Next
    BY <1>1, AbsorbType, DrainType, WorkType, InterruptType, SenderType DEF Next, Tick
  <1>2. CASE UNCHANGED vars
    BY <1>2 DEF vars, status, outbox, memory, TypeOK
  <1>3. QED
    BY <1>1, <1>2

\* Every variable keeps its type: in particular the plan stays a sequence of origins
\* and the runs stay numbered from 1, whatever is staged and wherever a tick dies.
THEOREM IntakeTypeCorrect == Spec => []TypeOK
  BY InitType, NextType, PTL DEF Spec
--------------------------------------------------------------------------------
(* The inductive invariant: what a tick holds in memory extends what is on disk *)

\* The points of a tick at which the plan in memory is the one on disk.
Settled == {"idle", "absorbed", "list", "drained", "note", "work", "answer", "persist"}

PlanInv ==
    /\ \A i \in DOMAIN plan : i \in DOMAIN mPlan /\ mPlan[i] = plan[i]
    /\ pc \in Settled => mPlan = plan

RunsInv ==
    /\ \A i \in DOMAIN runs : i \in DOMAIN plan /\ i \in DOMAIN mRuns
    /\ \A i \in DOMAIN runs : runs[i] = "over" => mRuns[i] = "over"
    /\ \A i \in DOMAIN mRuns : i \in DOMAIN mPlan /\ i \in DOMAIN token /\ token[i] = mPlan[i]

PlacesOf(x) == {i \in DOMAIN mPlan : mPlan[i] = x}

Heard(x) == \E i \in DOMAIN mPlan : mPlan[i] = x

\* A staged file has jobs in the plan only once it is gone, an order only once its id
\* is in the ledger; the order about to be applied has none yet.
OnceInv ==
    /\ \A a \in Adds : Heard(a) => inbound[a] = "taken"
    /\ \A m \in Orders : Heard(m) => m \in ledger
    /\ pc = "apply" => \A m \in Orders : IsNext(m) => m \in ledger /\ ~Heard(m)

\* All the jobs an input brings are in the plan, or none; and so on disk.
SizeInv ==
    \A x \in Bringers : /\ Heard(x) => Cardinality(PlacesOf(x)) = Size[x]
                        /\ JobsOf(x) # {} => JobsOf(x) = PlacesOf(x)

IInv == TypeOK /\ PlanInv /\ RunsInv /\ OnceInv /\ SizeInv

LEMMA InitInv == Init => IInv
  <1>. SUFFICES ASSUME Init PROVE IInv
    OBVIOUS
  <1>1. TypeOK
    BY InitType
  <1>2. FirstJobs \in Nat /\ mPlan = [i \in 1..FirstJobs |-> Planned] /\ plan = mPlan /\ token = mPlan
    BY IntakeAssumption DEF Init
  <1>3. PlanInv /\ RunsInv
    BY <1>2 DEF Init, PlanInv, RunsInv
  <1>4. \A x \in Inputs : ~Heard(x)
    BY <1>2, IntakeAssumption DEF Heard
  <1>5. OnceInv
    BY <1>4 DEF Init, OnceInv, Inputs, Messages
  <1>6. SizeInv
    BY <1>2, <1>4 DEF SizeInv, JobsOf, PlacesOf, Bringers, Inputs, Messages
  <1>7. QED
    BY <1>1, <1>3, <1>5, <1>6 DEF IInv

(* What a step must leave alone to preserve each part *)

LEMMA PlanFrame ==
    ASSUME PlanInv, UNCHANGED <<plan, mPlan>>, pc' \in Settled => pc \in Settled \/ mPlan = plan
    PROVE  PlanInv'
  BY DEF PlanInv

LEMMA RunsFrame ==
    ASSUME RunsInv, UNCHANGED <<plan, mPlan, runs, mRuns, token>>
    PROVE  RunsInv'
  BY DEF RunsInv

LEMMA OnceFrame ==
    ASSUME OnceInv, mPlan' = mPlan, ledger \subseteq ledger',
           \A a \in Adds : inbound[a] = "taken" => inbound'[a] = "taken",
           pc' = "apply" => pc = "apply" /\ list' = list
    PROVE  OnceInv'
  BY DEF OnceInv, Heard, IsNext

LEMMA SizeFrame ==
    ASSUME SizeInv, mPlan' = mPlan, plan' = plan \/ plan' = mPlan
    PROVE  SizeInv'
  BY DEF SizeInv, PlacesOf, Heard, JobsOf

\* No two files have the same name, so at most one is next.
LEMMA NextIsOne ==
    ASSUME TypeOK, NEW x \in Inputs, NEW y \in Inputs, IsNext(x), IsNext(y)
    PROVE  x = y
  BY IntakeAssumption DEF IsNext, TypeOK

\* Enlisting an input that has no job in the plan yet.
LEMMA EnlistInv ==
    ASSUME IInv, NEW x \in Bringers, ~Heard(x), Enlist(x), Scaffold(x), UNCHANGED <<plan, runs>>,
           pc' \notin Settled
    PROVE  /\ PlanInv' /\ RunsInv' /\ SizeInv'
           /\ \A y \in Bringers : Heard(y)' => Heard(y) \/ y = x
           /\ PlacesOf(x)' = Numbers(mPlan, x) /\ Numbers(mPlan, x) # {}
           /\ \A y \in Bringers : y # x => PlacesOf(y)' = PlacesOf(y)
           /\ \A i \in Numbers(mPlan, x) : i \notin DOMAIN plan /\ i \in DOMAIN mRuns'
           /\ \A i \in DOMAIN mRuns : i \in DOMAIN mRuns' /\ mRuns'[i] = mRuns[i]
  <1>1. mPlan \in Seq(Origin)
    BY DEF IInv, TypeOK, Origin
  <1>2. /\ Len(mPlan) \in Nat /\ Size[x] \in Nat \ {0}
        /\ DOMAIN mPlan = 1..Len(mPlan)
        /\ DOMAIN mPlan' = DOMAIN mPlan \cup Numbers(mPlan, x)
        /\ \A i \in DOMAIN mPlan : i \notin Numbers(mPlan, x) /\ mPlan'[i] = mPlan[i]
        /\ \A i \in Numbers(mPlan, x) : mPlan'[i] = x
    <2>1. mPlan' = Staged(mPlan, x)
      BY DEF Enlist
    <2>2. /\ Staged(mPlan, x) \in Seq(Origin)
          /\ Len(mPlan) \in Nat /\ Size[x] \in Nat \ {0}
          /\ DOMAIN mPlan = 1..Len(mPlan)
          /\ DOMAIN Staged(mPlan, x) = 1..(Len(mPlan) + Size[x])
          /\ DOMAIN Staged(mPlan, x) = DOMAIN mPlan \cup Numbers(mPlan, x)
          /\ \A i \in DOMAIN mPlan : i \notin Numbers(mPlan, x) /\ Staged(mPlan, x)[i] = mPlan[i]
          /\ \A i \in Numbers(mPlan, x) : i \in Nat \ {0} /\ Staged(mPlan, x)[i] = x
      BY <1>1, StagedPlan, Zenon
    <2>3. /\ DOMAIN mPlan' = DOMAIN Staged(mPlan, x)
          /\ \A i : mPlan'[i] = Staged(mPlan, x)[i]
      BY <2>1
    <2>4. QED
      BY <2>2, <2>3
  <1>3. PlanInv'
    BY <1>2 DEF IInv, PlanInv
  <1>4. /\ DOMAIN mRuns' = DOMAIN mRuns \cup Numbers(mPlan, x)
        /\ DOMAIN token' = DOMAIN token \cup Numbers(mPlan, x)
        /\ \A i \in DOMAIN mRuns : i \notin Numbers(mPlan, x) => mRuns'[i] = mRuns[i]
        /\ \A i \in DOMAIN token : i \notin Numbers(mPlan, x) => token'[i] = token[i]
        /\ \A i \in Numbers(mPlan, x) : token'[i] = x
    BY DEF Enlist, Scaffold, Assign
  <1>5. \A i \in DOMAIN mRuns : i \in DOMAIN mPlan /\ i \in DOMAIN token /\ token[i] = mPlan[i]
    BY DEF IInv, RunsInv
  <1>6. RunsInv'
    <2>1. \A i \in DOMAIN mRuns' : i \in DOMAIN mPlan' /\ i \in DOMAIN token' /\ token'[i] = mPlan'[i]
      BY <1>2, <1>4, <1>5
    <2>2. \A i \in DOMAIN runs' : /\ i \in DOMAIN plan' /\ i \in DOMAIN mRuns'
                                  /\ runs'[i] = "over" => mRuns'[i] = "over"
      BY <1>2, <1>4, <1>5 DEF IInv, RunsInv
    <2>3. QED
      BY <2>1, <2>2 DEF RunsInv
  <1>7. \A y \in Bringers : Heard(y)' => Heard(y) \/ y = x
    BY <1>2 DEF Heard
  <1>8. JobsOf(x) = {} /\ \A y \in Bringers : JobsOf(y)' = JobsOf(y)
    BY DEF IInv, PlanInv, JobsOf, Heard
  <1>9. PlacesOf(x)' = Numbers(mPlan, x) /\ \A y \in Bringers : y # x => PlacesOf(y)' = PlacesOf(y)
    BY <1>2 DEF PlacesOf, Heard
  <1>10. Numbers(mPlan, x) # {} /\ Cardinality(Numbers(mPlan, x)) = Size[x]
    <2>. DEFINE lo == Len(mPlan) + 1
                hi == Len(mPlan) + Size[x]
    <2>1. lo \in Int /\ hi \in Int /\ hi - lo + 1 = Size[x] /\ lo <= hi /\ ~(lo > hi)
      BY <1>2
    <2>2. Numbers(mPlan, x) = lo..hi
      BY DEF Numbers
    <2>. HIDE DEF lo, hi
    <2>3. lo \in lo..hi
      BY <2>1
    <2>4. QED
      BY <2>1, <2>2, <2>3, FS_Interval
  <1>11. ASSUME NEW y \in Bringers
         PROVE  /\ Heard(y)' => Cardinality(PlacesOf(y)') = Size[y]
                /\ JobsOf(y)' # {} => JobsOf(y)' = PlacesOf(y)'
    <2>1. CASE y = x
      BY <1>8, <1>9, <1>10, <2>1
    <2>2. CASE y # x
      BY <1>7, <1>8, <1>9, <2>2 DEF IInv, SizeInv
    <2>3. QED
      BY <2>1, <2>2
  <1>12. \A i \in Numbers(mPlan, x) : i \notin DOMAIN plan /\ i \in DOMAIN mRuns'
    BY <1>2, <1>4 DEF IInv, PlanInv
  <1>13. \A i \in DOMAIN mRuns : i \in DOMAIN mRuns' /\ mRuns'[i] = mRuns[i]
    BY <1>2, <1>4, <1>5
  <1>14. QED
    BY <1>3, <1>6, <1>7, <1>9, <1>10, <1>11, <1>12, <1>13 DEF SizeInv

\* A crash goes back to what is on disk; new scaffolds it leaves are beyond the plan.
LEMMA DieInv ==
    ASSUME IInv, Die, UNCHANGED <<plan, runs, inbound, ledger>>,
           \A i \in DOMAIN token : i \in DOMAIN mPlan => i \in DOMAIN token' /\ token'[i] = token[i]
    PROVE  PlanInv' /\ RunsInv' /\ OnceInv' /\ SizeInv'
  <1>1. pc' = "idle" /\ mPlan' = plan /\ mRuns' = runs
    BY DEF Die
  <1>2. PlanInv'
    BY <1>1 DEF PlanInv, Settled
  <1>3. RunsInv'
    BY <1>1 DEF IInv, RunsInv, PlanInv
  <1>4. \A x \in Bringers : /\ Heard(x)' => Heard(x) /\ JobsOf(x) # {}
                            /\ PlacesOf(x)' = JobsOf(x) /\ JobsOf(x)' = JobsOf(x)
    BY <1>1 DEF IInv, PlanInv, Heard, PlacesOf, JobsOf
  <1>5. OnceInv'
    BY <1>1, <1>4 DEF IInv, OnceInv, Bringers
  <1>6. SizeInv'
    BY <1>4 DEF IInv, SizeInv
  <1>7. QED
    BY <1>2, <1>3, <1>5, <1>6

(* Each part of a tick preserves the invariant *)

Parts == PlanInv /\ RunsInv /\ OnceInv /\ SizeInv

LEMMA TakeKeeps ==
    ASSUME TypeOK, NEW x \in Inputs, Take(x)
    PROVE  inbound'[x] = "taken" /\ \A y \in Inputs : inbound[y] = "taken" => inbound'[y] = "taken"
  BY DEF Take, TypeOK

LEMMA AbsorbInv ==
    ASSUME IInv, Absorb
    PROVE  Parts'
  <1>. USE DEF status, outbox, memory
  <1>0. TypeOK /\ PlanInv /\ RunsInv /\ OnceInv /\ SizeInv
    BY DEF IInv
  <1>1. CASE Begin
    BY <1>0, <1>1, PlanFrame, RunsFrame, OnceFrame, SizeFrame DEF Begin, Parts, Settled
  <1>2. CASE NothingAbsorbed
    BY <1>0, <1>2, PlanFrame, RunsFrame, OnceFrame, SizeFrame DEF NothingAbsorbed, Parts
  <1>3. CASE WritePlan
    <2>1. PlanInv'
      BY <1>3 DEF WritePlan, PlanInv
    <2>2. RunsInv'
      BY <1>0, <1>3 DEF WritePlan, RunsInv, PlanInv
    <2>3. OnceInv' /\ SizeInv'
      BY <1>0, <1>3, OnceFrame, SizeFrame DEF WritePlan
    <2>4. QED
      BY <2>1, <2>2, <2>3 DEF Parts
  <1>4. CASE WriteStatus
    <2>1. mPlan = plan
      BY <1>0, <1>4 DEF WriteStatus, PlanInv, Settled
    <2>2. RunsInv'
      BY <1>0, <1>4, <2>1 DEF WriteStatus, RunsInv
    <2>3. PlanInv' /\ OnceInv' /\ SizeInv'
      BY <1>0, <1>4, <2>1, PlanFrame, OnceFrame, SizeFrame DEF WriteStatus
    <2>4. QED
      BY <2>2, <2>3 DEF Parts
  <1>5. ASSUME NEW a \in Adds, AbsorbFile(a) PROVE Parts'
    <2>1. a \in Bringers /\ a \in Inputs /\ a \notin Orders
      BY IntakeAssumption DEF Bringers, Inputs, Messages
    <2>2. ~Heard(a)
      BY <1>0, <1>5 DEF AbsorbFile, OnceInv
    <2>3. pc = "absorb" /\ pc' = "absorb" /\ ledger' = ledger
      BY <1>5 DEF AbsorbFile
    <2>4. /\ PlanInv' /\ RunsInv' /\ SizeInv'
          /\ \A y \in Bringers : Heard(y)' => Heard(y) \/ y = a
      BY <1>5, <2>1, <2>2, <2>3, EnlistInv DEF AbsorbFile, Settled
    <2>5. inbound'[a] = "taken" /\ \A y \in Inputs : inbound[y] = "taken" => inbound'[y] = "taken"
      BY <1>0, <1>5, <2>1, TakeKeeps DEF AbsorbFile
    <2>6. OnceInv'
      BY <1>0, <2>1, <2>3, <2>4, <2>5 DEF OnceInv, Bringers, Inputs
    <2>7. QED
      BY <2>4, <2>6 DEF Parts
  <1>6. ASSUME NEW a \in Adds, SkipFile(a) PROVE Parts'
    <2>1. \A y \in Adds : inbound[y] = "taken" => inbound'[y] = "taken"
      BY <1>0, <1>6, TakeKeeps DEF SkipFile, Inputs
    <2>2. QED
      BY <1>0, <1>6, <2>1, PlanFrame, RunsFrame, OnceFrame, SizeFrame DEF SkipFile, Parts
  <1>7. QED
    BY <1>1, <1>2, <1>3, <1>4, <1>5, <1>6 DEF Absorb

LEMMA DrainInv ==
    ASSUME IInv, Drain
    PROVE  Parts'
  <1>. USE DEF status, outbox, memory
  <1>0. TypeOK /\ PlanInv /\ RunsInv /\ OnceInv /\ SizeInv
    BY DEF IInv
  <1>1. CASE ListInbox
    BY <1>0, <1>1, PlanFrame, RunsFrame, OnceFrame, SizeFrame DEF ListInbox, Parts, Settled
  <1>2. CASE WritePending
    <2>1. mPlan = plan
      BY <1>0, <1>2 DEF WritePending, PlanInv, Settled
    <2>2. QED
      BY <1>0, <1>2, <2>1, PlanFrame, RunsFrame, OnceFrame, SizeFrame DEF WritePending, Parts
  <1>3. ASSUME NEW m \in Messages, Replay(m) \/ Retire(m) PROVE Parts'
    <2>1. \A y \in Adds : inbound[y] = "taken" => inbound'[y] = "taken"
      BY <1>0, <1>3, TakeKeeps DEF Replay, Retire, Inputs
    <2>2. QED
      BY <1>0, <1>3, <2>1, PlanFrame, RunsFrame, OnceFrame, SizeFrame
         DEF Replay, Retire, Parts, Settled
  <1>4. ASSUME NEW m \in Messages, Commit(m) PROVE Parts'
    <2>1. m \notin ledger /\ m \in ledger' /\ ledger \subseteq ledger' /\ IsNext(m)
          /\ UNCHANGED <<list, mPlan, inbound>>
      BY <1>4 DEF Commit, LedgerWith
    <2>2. \A n \in Orders : IsNext(n) => n = m
      BY <1>0, <2>1, NextIsOne DEF Inputs, Messages
    <2>3. OnceInv'
      BY <1>0, <2>1, <2>2 DEF OnceInv, Heard, IsNext
    <2>4. PlanInv' /\ RunsInv' /\ SizeInv'
      BY <1>0, <1>4, PlanFrame, RunsFrame, SizeFrame DEF Commit, Settled
    <2>5. QED
      BY <2>3, <2>4 DEF Parts
  <1>5. ASSUME NEW m \in Messages, Reject(m) PROVE Parts'
    BY <1>0, <1>5, PlanFrame, RunsFrame, OnceFrame, SizeFrame DEF Reject, Parts, Settled
  <1>6. ASSUME NEW m \in Messages, ApplyOrder(m) PROVE Parts'
    <2>1. m \in Bringers /\ m \in Orders /\ m \notin Adds
      BY <1>6, IntakeAssumption DEF ApplyOrder, Bringers, Messages
    <2>2. m \in ledger /\ ~Heard(m)
      BY <1>0, <1>6, <2>1 DEF ApplyOrder, OnceInv
    <2>3. pc' = "retire" /\ UNCHANGED <<inbound, ledger>>
      BY <1>6 DEF ApplyOrder
    <2>4. /\ PlanInv' /\ RunsInv' /\ SizeInv'
          /\ \A y \in Bringers : Heard(y)' => Heard(y) \/ y = m
      BY <1>6, <2>1, <2>2, <2>3, EnlistInv DEF ApplyOrder, Settled
    <2>5. OnceInv'
      BY <1>0, <2>1, <2>2, <2>3, <2>4 DEF OnceInv, Bringers
    <2>6. QED
      BY <2>4, <2>5 DEF Parts
  <1>7. ASSUME NEW m \in Messages, ApplyCancel(m) PROVE Parts'
    BY <1>0, <1>7, PlanFrame, RunsFrame, OnceFrame, SizeFrame DEF ApplyCancel, Parts, Settled
  <1>8. QED
    BY <1>1, <1>2, <1>3, <1>4, <1>5, <1>6, <1>7 DEF Drain

LEMMA RestInv ==
    ASSUME IInv, Work \/ EmitReadyResults \/ Persist
    PROVE  Parts'
  <1>. USE DEF status, outbox, memory
  <1>0. TypeOK /\ PlanInv /\ RunsInv /\ OnceInv /\ SizeInv
    BY DEF IInv
  <1>1. CASE Work
    <2>1. PICK next \in [DOMAIN Cancelled -> RunStage] :
               /\ \A i \in DOMAIN next : Cancelled[i] = "over" => next[i] = "over"
               /\ mRuns' = next
      BY <1>1 DEF Work
    <2>2. DOMAIN mRuns' = DOMAIN runs /\ \A i \in DOMAIN runs : runs[i] = "over" => mRuns'[i] = "over"
      BY <2>1, CancelledRuns
    <2>3. UNCHANGED <<plan, runs, token, mPlan>>
      BY <1>1 DEF Work
    <2>4. RunsInv'
      BY <1>0, <2>2, <2>3 DEF RunsInv
    <2>5. PlanInv' /\ OnceInv' /\ SizeInv'
      BY <1>0, <1>1, PlanFrame, OnceFrame, SizeFrame DEF Work, Settled
    <2>6. QED
      BY <2>4, <2>5 DEF Parts
  <1>2. CASE EmitReadyResults
    BY <1>0, <1>2, PlanFrame, RunsFrame, OnceFrame, SizeFrame DEF EmitReadyResults, Parts, Settled
  <1>3. CASE Persist
    <2>1. mPlan = plan
      BY <1>0, <1>3 DEF Persist, PlanInv, Settled
    <2>2. RunsInv'
      BY <1>0, <1>3, <2>1 DEF Persist, RunsInv
    <2>3. PlanInv' /\ OnceInv' /\ SizeInv'
      BY <1>0, <1>3, <2>1, PlanFrame, OnceFrame, SizeFrame DEF Persist
    <2>4. QED
      BY <2>2, <2>3 DEF Parts
  <1>4. QED
    BY <1>1, <1>2, <1>3

LEMMA InterruptInv ==
    ASSUME IInv, Interrupt
    PROVE  Parts'
  <1>. USE DEF status, outbox, Parts
  <1>1. CASE Crash
    BY <1>1, DieInv DEF Crash
  <1>2. CASE CrashInEmit
    BY <1>2, DieInv DEF CrashInEmit
  <1>3. ASSUME NEW x \in Adds \cup Orders, CrashInScaffold(x) PROVE Parts'
    <2>1. mPlan \in Seq(Origin) /\ x \in Bringers
      BY DEF IInv, TypeOK, Origin, Bringers
    <2>2. \A i \in DOMAIN mPlan : i \notin Numbers(mPlan, x)
      BY <2>1, StagedPlan
    <2>3. \A i \in DOMAIN token : i \in DOMAIN mPlan => i \in DOMAIN token' /\ token'[i] = token[i]
      BY <1>3, <2>2 DEF CrashInScaffold, Scaffold, Assign
    <2>4. QED
      BY <1>3, <2>3, DieInv DEF CrashInScaffold
  <1>4. ASSUME NEW m \in Cancels, CrashBeforeAck(m) PROVE Parts'
    BY <1>4, DieInv DEF CrashBeforeAck
  <1>5. QED
    BY <1>1, <1>2, <1>3, <1>4 DEF Interrupt

LEMMA SenderInv ==
    ASSUME IInv, Sender
    PROVE  Parts'
  <1>. USE DEF status, outbox, memory
  <1>0. TypeOK /\ PlanInv /\ RunsInv /\ OnceInv /\ SizeInv
    BY DEF IInv
  <1>1. ASSUME NEW x \in Inputs, Write(x) \/ Complete(x) PROVE Parts'
    <2>1. \A y \in Adds : inbound[y] = "taken" => inbound'[y] = "taken"
      BY <1>0, <1>1 DEF Write, Complete, TypeOK, Inputs
    <2>2. QED
      BY <1>0, <1>1, <2>1, PlanFrame, RunsFrame, OnceFrame, SizeFrame DEF Write, Complete, Parts
  <1>2. ASSUME NEW m \in Messages, Resend(m) PROVE Parts'
    <2>1. \A y \in Adds : inbound[y] = "taken" => inbound'[y] = "taken"
      BY <1>0, <1>2, IntakeAssumption DEF Resend, TypeOK, Inputs
    <2>2. QED
      BY <1>0, <1>2, <2>1, PlanFrame, RunsFrame, OnceFrame, SizeFrame DEF Resend, Parts
  <1>3. QED
    BY <1>1, <1>2 DEF Sender

LEMMA NextInv == IInv /\ [Next]_vars => IInv'
  <1>. SUFFICES ASSUME IInv, [Next]_vars PROVE IInv'
    OBVIOUS
  <1>1. TypeOK'
    BY NextType DEF IInv
  <1>2. CASE Next
    <2>1. Parts'
      BY <1>2, AbsorbInv, DrainInv, RestInv, InterruptInv, SenderInv DEF Next, Tick
    <2>2. QED
      BY <1>1, <2>1 DEF IInv, Parts
  <1>3. CASE UNCHANGED vars
    <2>1. PlanInv' /\ RunsInv' /\ OnceInv' /\ SizeInv'
      BY <1>3, PlanFrame, RunsFrame, OnceFrame, SizeFrame DEF IInv, vars, status, outbox, memory
    <2>2. QED
      BY <1>1, <2>1 DEF IInv
  <1>4. QED
    BY <1>2, <1>3

\* The strengthening the theorems below rest on holds in every reachable state.
THEOREM IntakeInvariant == Spec => []IInv
  BY InitInv, NextInv, PTL DEF Spec

--------------------------------------------------------------------------------
(* What the invariant gives *)

\* However often a file is seen, wherever a tick dies and however often a sender
\* repeats itself: no input brings more jobs into plan.json than it names.
THEOREM InputsOnce == Spec => []NothingAppliedTwice
  <1>1. ASSUME IInv PROVE NothingAppliedTwice
    <2>1. SUFFICES ASSUME NEW x \in Bringers PROVE Cardinality(JobsOf(x)) <= Size[x]
      BY DEF NothingAppliedTwice, Bringers
    <2>2. Size[x] \in Nat
      BY IntakeAssumption DEF Bringers
    <2>3. CASE JobsOf(x) = {}
      BY <2>2, <2>3, FS_EmptySet
    <2>4. CASE JobsOf(x) # {}
      <3>1. Heard(x) /\ JobsOf(x) = PlacesOf(x)
        BY <1>1, <2>4 DEF IInv, SizeInv, PlanInv, JobsOf, Heard
      <3>2. QED
        BY <1>1, <2>2, <3>1 DEF IInv, SizeInv
    <2>5. QED
      BY <2>3, <2>4
  <1>2. QED
    BY <1>1, IntakeInvariant, PTL

\* Every run of harness_status.json has its job in plan.json, and its scaffold was
\* made for that job, although a crash leaves plan and scaffolds ahead of it.
THEOREM RunsHaveTheirJobs == Spec => []RunsMatchPlan
  <1>1. IInv => RunsMatchPlan
    BY DEF IInv, RunsInv, PlanInv, RunsMatchPlan
  <1>2. QED
    BY <1>1, IntakeInvariant, PTL

Kept == /\ \A i \in DOMAIN plan : i \in DOMAIN plan' /\ plan'[i] = plan[i]
        /\ \A i \in DOMAIN runs : /\ i \in DOMAIN runs'
                                  /\ runs[i] = "over" => runs'[i] = "over"

\* The three steps that write plan.json or harness_status.json, and all the others.
LEMMA StepsKeepNumbers ==
    ASSUME IInv, [Next]_vars
    PROVE  Kept
  <1>1. PlanInv /\ RunsInv
    BY DEF IInv
  <1>2. CASE WritePlan
    BY <1>1, <1>2 DEF WritePlan, PlanInv, Kept, status
  <1>3. CASE WriteStatus \/ Persist
    BY <1>1, <1>3 DEF WriteStatus, Persist, RunsInv, Kept
  <1>4. CASE UNCHANGED <<plan, runs>>
    BY <1>4 DEF Kept
  <1>5. UNCHANGED <<plan, runs>> \/ WritePlan \/ WriteStatus \/ Persist
    <2>. USE DEF status
    <2>1. Absorb => UNCHANGED <<plan, runs>> \/ WritePlan \/ WriteStatus
      BY DEF Absorb, Begin, NothingAbsorbed, AbsorbFile, SkipFile
    <2>2. Drain => UNCHANGED <<plan, runs>>
      BY DEF Drain, ListInbox, WritePending, Replay, Commit, Reject, ApplyOrder, ApplyCancel, Retire
    <2>3. Work \/ EmitReadyResults => UNCHANGED <<plan, runs>>
      BY DEF Work, EmitReadyResults
    <2>4. Interrupt => UNCHANGED <<plan, runs>>
      BY DEF Interrupt, Crash, CrashInEmit, CrashInScaffold, CrashBeforeAck
    <2>5. Sender => UNCHANGED <<plan, runs>>
      BY DEF Sender, Write, Complete, Resend
    <2>6. QED
      BY <2>1, <2>2, <2>3, <2>4, <2>5 DEF Next, Tick, vars
  <1>6. QED
    BY <1>2, <1>3, <1>4, <1>5

\* "Existing runs are never renumbered": a job keeps its place in the plan and a run
\* its number, and a run that is over on disk stays over, through every crash.
THEOREM NumbersStay == Spec => RunsAreNotRenumbered
  <1>1. IInv /\ [Next]_vars => [Kept]_vars
    BY StepsKeepNumbers
  <1>2. Spec => [][Kept]_vars
    BY <1>1, IntakeInvariant, PTL DEF Spec
  <1>3. QED
    BY <1>2 DEF RunsAreNotRenumbered, Kept

--------------------------------------------------------------------------------
(* Orders, their pending runs and their results *)

\* The points of a tick at which the orders to wait for are held in memory.
Draining == {"drain", "apply", "reject", "retire", "drained", "note"}

\* Until the tick works on the runs it holds them as they are on disk.
MemoryInv ==
    /\ crashes <= MaxCrashes
    /\ pc \notin {"answer", "persist"} => \A i \in DOMAIN runs : mRuns[i] = runs[i]

\* An order that is waited for is waited for with all its jobs; what is in the plan
\* on disk but not yet among the runs on disk is so only between the two writes.
PendingInv ==
    /\ \A m \in Orders : pending[m] # {} => pending[m] = JobsOf(m) /\ pending[m] \subseteq DOMAIN runs
    /\ pc \in Draining => \A m \in Orders : mPending[m] # {} =>
          /\ mPending[m] = PlacesOf(m) /\ mPending[m] \subseteq DOMAIN mRuns
          /\ pc # "drained" => \A i \in mPending[m] : i \in DOMAIN plan => i \in DOMAIN runs

ResultInv ==
    \A m \in result :
        /\ JobsOf(m) # {} /\ JobsOf(m) \subseteq DOMAIN runs
        /\ NoCrashYet => \A i \in JobsOf(m) : mRuns[i] = "over"

\* As long as no tick dies, an applied order is waited for or has its result.
AckInv ==
    NoCrashYet => \A m \in Orders : ack[m] = "applied" =>
        \/ m \in result
        \/ pc \in Draining /\ mPending[m] # {}
        \/ pc \notin Draining /\ pending[m] # {}

OInv == MemoryInv /\ PendingInv /\ ResultInv /\ AckInv

LEMMA InitOrders == Init => OInv
  <1>. SUFFICES ASSUME Init PROVE OInv
    OBVIOUS
  <1>1. /\ crashes = MaxCrashes /\ mRuns = runs /\ pc = "idle" /\ result = {}
        /\ pending = [m \in Orders |-> {}] /\ ack = [m \in Messages |-> "none"]
    BY DEF Init, NoOrders
  <1>2. MemoryInv
    BY <1>1, IntakeAssumption DEF MemoryInv
  <1>3. PendingInv
    BY <1>1 DEF PendingInv, Draining
  <1>4. ResultInv
    BY <1>1 DEF ResultInv
  <1>5. AckInv
    BY <1>1 DEF AckInv, Messages
  <1>6. QED
    BY <1>2, <1>3, <1>4, <1>5 DEF OInv

\* Steps that touch neither the plan, the runs nor the orders, and stay on their side
\* of the drain and of the work on the runs.
LEMMA OrdersFrame ==
    ASSUME OInv, UNCHANGED <<plan, runs, mPlan, mRuns, mPending, pending, result, crashes>>,
           \A m \in Orders : ack'[m] = "applied" => ack[m] = "applied",
           pc' \in Draining <=> pc \in Draining, pc' # "drained" => pc # "drained",
           pc' \notin {"answer", "persist"} => pc \notin {"answer", "persist"}
    PROVE  OInv'
  <1>1. MemoryInv'
    BY DEF OInv, MemoryInv
  <1>2. PendingInv'
    BY DEF OInv, PendingInv, JobsOf, PlacesOf
  <1>3. ResultInv'
    BY DEF OInv, ResultInv, JobsOf, NoCrashYet
  <1>4. AckInv'
    BY DEF OInv, AckInv, NoCrashYet
  <1>5. QED
    BY <1>1, <1>2, <1>3, <1>4 DEF OInv

LEMMA AbsorbOrders ==
    ASSUME IInv, OInv, Absorb
    PROVE  OInv'
  <1>. USE DEF status, outbox, memory
  <1>0. TypeOK /\ PlanInv /\ RunsInv /\ OnceInv /\ SizeInv /\ MemoryInv /\ PendingInv /\ ResultInv /\ AckInv
    BY DEF IInv, OInv
  <1>1. CASE Begin \/ NothingAbsorbed
    BY <1>0, <1>1, OrdersFrame DEF Begin, NothingAbsorbed, Draining
  <1>2. CASE WritePlan
    <2>1. \A m \in Orders : /\ PlacesOf(m)' = PlacesOf(m)
                            /\ JobsOf(m)' = PlacesOf(m)
                            /\ JobsOf(m) # {} => JobsOf(m)' = JobsOf(m)
      <3>1. plan' = mPlan /\ mPlan' = mPlan
        BY <1>2 DEF WritePlan
      <3>2. \A m \in Orders : PlacesOf(m)' = PlacesOf(m) /\ JobsOf(m)' = PlacesOf(m)
        BY <3>1 DEF JobsOf, PlacesOf
      <3>3. QED
        BY <1>0, <3>2 DEF SizeInv, Bringers
    <2>2. MemoryInv'
      BY <1>0, <1>2 DEF WritePlan, MemoryInv
    <2>3. PendingInv'
      BY <1>0, <1>2, <2>1 DEF WritePlan, PendingInv, Draining
    <2>4. ResultInv'
      BY <1>0, <1>2, <2>1 DEF WritePlan, ResultInv, NoCrashYet, TypeOK
    <2>5. AckInv'
      BY <1>0, <1>2 DEF WritePlan, AckInv, NoCrashYet, Draining
    <2>6. QED
      BY <2>2, <2>3, <2>4, <2>5 DEF OInv
  <1>3. CASE WriteStatus
    <2>1. \A m \in Orders : PlacesOf(m)' = PlacesOf(m) /\ JobsOf(m)' = JobsOf(m)
      BY <1>3 DEF WriteStatus, JobsOf, PlacesOf
    <2>2. MemoryInv'
      BY <1>0, <1>3 DEF WriteStatus, MemoryInv
    <2>3. PendingInv'
      BY <1>0, <1>3, <2>1 DEF WriteStatus, PendingInv, RunsInv, Draining
    <2>4. ResultInv'
      BY <1>0, <1>3, <2>1 DEF WriteStatus, ResultInv, RunsInv, NoCrashYet, TypeOK
    <2>5. AckInv'
      BY <1>0, <1>3 DEF WriteStatus, AckInv, NoCrashYet, Draining
    <2>6. QED
      BY <2>2, <2>3, <2>4, <2>5 DEF OInv
  <1>4. ASSUME NEW a \in Adds, AbsorbFile(a) PROVE OInv'
    <2>1. a \in Bringers /\ ~Heard(a)
      BY <1>0, <1>4 DEF AbsorbFile, OnceInv, Bringers
    <2>2. /\ pc = "absorb" /\ pc' = "absorb" /\ Enlist(a) /\ Scaffold(a)
          /\ UNCHANGED <<plan, runs, ack, pending, result, crashes>>
      BY <1>4 DEF AbsorbFile
    <2>3. \A i \in DOMAIN mRuns : i \in DOMAIN mRuns' /\ mRuns'[i] = mRuns[i]
      BY <2>1, <2>2, EnlistInv DEF Settled
    <2>4. \A m \in Orders : JobsOf(m)' = JobsOf(m)
      BY <2>2 DEF JobsOf
    <2>5. MemoryInv' /\ ResultInv'
      BY <1>0, <2>2, <2>3, <2>4 DEF MemoryInv, ResultInv, RunsInv, NoCrashYet, TypeOK
    <2>6. PendingInv' /\ AckInv'
      BY <1>0, <2>2, <2>4 DEF PendingInv, AckInv, NoCrashYet, Draining
    <2>7. QED
      BY <2>5, <2>6 DEF OInv
  <1>5. ASSUME NEW a \in Adds, SkipFile(a) PROVE OInv'
    BY <1>0, <1>5, OrdersFrame DEF SkipFile
  <1>6. QED
    BY <1>1, <1>2, <1>3, <1>4, <1>5 DEF Absorb

LEMMA DrainOrders ==
    ASSUME IInv, OInv, Drain
    PROVE  OInv'
  <1>. USE DEF status, outbox, memory
  <1>0. TypeOK /\ PlanInv /\ RunsInv /\ OnceInv /\ SizeInv /\ MemoryInv /\ PendingInv /\ ResultInv /\ AckInv
    BY DEF IInv, OInv
  <1>1. CASE ListInbox
    <2>1. mPlan = plan /\ mPending' = pending /\ pc' \in {"work", "drain"} /\ pc = "list"
          /\ UNCHANGED <<plan, runs, mPlan, mRuns, pending, result, ack, crashes>>
      BY <1>0, <1>1 DEF ListInbox, PendingLoaded, PlanInv, Settled
    <2>2. \A m \in Orders : PlacesOf(m)' = JobsOf(m) /\ JobsOf(m)' = JobsOf(m)
      BY <2>1 DEF JobsOf, PlacesOf
    <2>3. MemoryInv' /\ ResultInv' /\ AckInv'
      <3>1. MemoryInv'
        BY <1>0, <2>1 DEF MemoryInv, Draining
      <3>2. ResultInv'
        BY <1>0, <2>1, <2>2 DEF ResultInv, NoCrashYet, TypeOK
      <3>3. AckInv'
        BY <1>0, <2>1 DEF AckInv, NoCrashYet, Draining
      <3>4. QED
        BY <3>1, <3>2, <3>3
    <2>4. PendingInv'
      BY <1>0, <2>1, <2>2 DEF PendingInv, RunsInv
    <2>5. QED
      BY <2>3, <2>4 DEF OInv
  <1>2. CASE WritePending
    <2>1. mPlan = plan /\ pending' = mPending /\ pc' = "work" /\ pc \in Draining /\ pc # "drained"
          /\ UNCHANGED <<plan, runs, mPlan, mRuns, mPending, result, ack, crashes>>
      BY <1>0, <1>2 DEF WritePending, PlanInv, Settled, Draining
    <2>2. \A m \in Orders : PlacesOf(m) = JobsOf(m) /\ JobsOf(m)' = JobsOf(m)
      BY <2>1 DEF JobsOf, PlacesOf
    <2>3. MemoryInv' /\ ResultInv' /\ AckInv'
      <3>1. MemoryInv'
        BY <1>0, <2>1 DEF MemoryInv, Draining
      <3>2. ResultInv'
        BY <1>0, <2>1, <2>2 DEF ResultInv, NoCrashYet, TypeOK
      <3>3. AckInv'
        BY <1>0, <2>1 DEF AckInv, NoCrashYet, Draining
      <3>4. QED
        BY <3>1, <3>2, <3>3
    <2>4. \A m \in Orders : mPending[m] # {} => mPending[m] = JobsOf(m) /\ mPending[m] \subseteq DOMAIN runs
      BY <1>0, <2>1, <2>2 DEF PendingInv, JobsOf
    <2>5. PendingInv'
      BY <2>1, <2>2, <2>4 DEF PendingInv, Draining
    <2>6. QED
      BY <2>3, <2>5 DEF OInv
  <1>3. ASSUME NEW m \in Messages, Replay(m) \/ Retire(m) \/ Commit(m) PROVE OInv'
    BY <1>0, <1>3, OrdersFrame DEF Replay, Retire, Commit, Draining
  <1>4. ASSUME NEW m \in Messages, Reject(m) \/ ApplyCancel(m) PROVE OInv'
    <2>1. \A n \in Orders : ack'[n] = "applied" => ack[n] = "applied"
      BY <1>0, <1>4, IntakeAssumption DEF Reject, ApplyCancel, Answer, TypeOK, Messages
    <2>2. QED
      BY <1>0, <1>4, <2>1, OrdersFrame DEF Reject, ApplyCancel, Draining
  <1>5. ASSUME NEW m \in Messages, ApplyOrder(m) PROVE OInv'
    <2>1. m \in Orders /\ m \in Bringers /\ ~Heard(m)
      BY <1>0, <1>5 DEF ApplyOrder, OnceInv, Bringers
    <2>2. /\ pc = "apply" /\ pc' = "retire" /\ Enlist(m) /\ Scaffold(m) /\ mPending' = PendingWith(m)
          /\ UNCHANGED <<plan, runs, pending, result, crashes>>
      BY <1>5 DEF ApplyOrder
    <2>3. /\ PlacesOf(m)' = Numbers(mPlan, m) /\ Numbers(mPlan, m) # {}
          /\ \A y \in Bringers : y # m => PlacesOf(y)' = PlacesOf(y)
          /\ \A i \in Numbers(mPlan, m) : i \notin DOMAIN plan /\ i \in DOMAIN mRuns'
          /\ \A i \in DOMAIN mRuns : i \in DOMAIN mRuns' /\ mRuns'[i] = mRuns[i]
      BY <2>1, <2>2, EnlistInv DEF Settled
    <2>4. \A n \in Orders : JobsOf(n)' = JobsOf(n) /\ (n # m => PlacesOf(n)' = PlacesOf(n))
      BY <2>2, <2>3 DEF JobsOf, Bringers
    <2>5. /\ mPending'[m] = Numbers(mPlan, m)
          /\ \A n \in Orders : n # m => mPending'[n] = mPending[n]
      BY <1>0, <2>1, <2>2 DEF PendingWith, TypeOK
    <2>6. MemoryInv' /\ ResultInv'
      BY <1>0, <2>2, <2>3, <2>4 DEF MemoryInv, ResultInv, RunsInv, NoCrashYet, TypeOK
    <2>7. PendingInv'
      BY <1>0, <2>2, <2>3, <2>4, <2>5 DEF PendingInv, Draining
    <2>8. \A n \in Orders : n # m => ack'[n] = ack[n]
      BY <1>0, <1>5 DEF ApplyOrder, Answer, TypeOK, Messages
    <2>9. AckInv'
      BY <1>0, <2>2, <2>3, <2>5, <2>8 DEF AckInv, NoCrashYet, Draining
    <2>10. QED
      BY <2>6, <2>7, <2>9 DEF OInv
  <1>6. QED
    BY <1>1, <1>2, <1>3, <1>4, <1>5 DEF Drain

\* An order is ready only if it is waited for, with every run it brought over.
LEMMA ReadyOrders ==
    ASSUME IInv, OInv, NEW m \in Orders, Ready(m)
    PROVE  /\ JobsOf(m) # {} /\ JobsOf(m) \subseteq DOMAIN runs
           /\ \A i \in JobsOf(m) : mRuns[i] = "over"
  BY DEF OInv, PendingInv, Ready

LEMMA RestOrders ==
    ASSUME IInv, OInv, Work \/ EmitReadyResults \/ Persist
    PROVE  OInv'
  <1>. USE DEF status, outbox, memory
  <1>0. TypeOK /\ PlanInv /\ RunsInv /\ MemoryInv /\ PendingInv /\ ResultInv /\ AckInv
    BY DEF IInv, OInv
  <1>1. CASE Work
    <2>1. PICK next \in [DOMAIN Cancelled -> RunStage] :
               /\ \A i \in DOMAIN next : Cancelled[i] = "over" => next[i] = "over"
               /\ mRuns' = next
      BY <1>1 DEF Work
    <2>2. \A i \in DOMAIN runs : runs[i] = "over" => mRuns'[i] = "over"
      BY <2>1, CancelledRuns
    <2>3. /\ pc = "work" /\ pc' = "answer"
          /\ UNCHANGED <<plan, runs, ack, pending, result, mPlan, mPending, crashes>>
      BY <1>1 DEF Work
    <2>4. \A m \in Orders : JobsOf(m)' = JobsOf(m)
      BY <2>3 DEF JobsOf
    <2>5. MemoryInv' /\ PendingInv' /\ AckInv'
      BY <1>0, <2>3, <2>4 DEF MemoryInv, PendingInv, AckInv, NoCrashYet, Draining
    <2>6. ResultInv'
      BY <1>0, <2>2, <2>3, <2>4 DEF ResultInv, MemoryInv, NoCrashYet, TypeOK
    <2>7. QED
      BY <2>5, <2>6 DEF OInv
  <1>2. CASE EmitReadyResults
    <2>1. /\ pc = "answer" /\ pc' = "persist"
          /\ result' = result \cup {m \in Orders : Ready(m)}
          /\ pending' = [m \in Orders |-> IF Ready(m) THEN {} ELSE pending[m]]
          /\ UNCHANGED <<plan, runs, ack, mPlan, mRuns, mPending, crashes>>
      BY <1>2 DEF EmitReadyResults
    <2>2. \A m \in Orders : JobsOf(m)' = JobsOf(m)
      BY <2>1 DEF JobsOf
    <2>3. MemoryInv' /\ PendingInv'
      BY <1>0, <2>1, <2>2 DEF MemoryInv, PendingInv, Draining
    <2>4. ResultInv'
      BY <1>0, <2>1, <2>2, ReadyOrders DEF ResultInv, NoCrashYet, TypeOK
    <2>5. AckInv'
      BY <1>0, <2>1 DEF AckInv, NoCrashYet, Draining
    <2>6. QED
      BY <2>3, <2>4, <2>5 DEF OInv
  <1>3. CASE Persist
    <2>1. /\ pc = "persist" /\ pc' = "idle" /\ runs' = mRuns
          /\ UNCHANGED <<plan, ack, pending, result, mPlan, mRuns, crashes>>
      BY <1>3 DEF Persist
    <2>2. \A m \in Orders : JobsOf(m)' = JobsOf(m)
      BY <2>1 DEF JobsOf
    <2>3. MemoryInv'
      BY <1>0, <2>1 DEF MemoryInv
    <2>4. PendingInv' /\ AckInv'
      BY <1>0, <2>1, <2>2 DEF PendingInv, RunsInv, AckInv, NoCrashYet, Draining
    <2>5. ResultInv'
      BY <1>0, <2>1, <2>2 DEF ResultInv, RunsInv, NoCrashYet, TypeOK
    <2>6. QED
      BY <2>3, <2>4, <2>5 DEF OInv
  <1>4. QED
    BY <1>1, <1>2, <1>3

\* After a crash only what is on disk is claimed: no order's pending runs are lost
\* there, but its runs may be set back.
LEMMA DieOrders ==
    ASSUME IInv, OInv, Die, UNCHANGED <<plan, runs, pending>>,
           \A m \in result' : m \in result \/ (m \in Orders /\ Ready(m))
    PROVE  OInv'
  <1>0. TypeOK /\ MemoryInv /\ PendingInv /\ ResultInv
    BY DEF IInv, OInv
  <1>1. /\ pc' = "idle" /\ mRuns' = runs
        /\ crashes' <= MaxCrashes /\ crashes' # MaxCrashes
    BY <1>0, IntakeAssumption DEF Die, MemoryInv, TypeOK
  <1>2. \A m \in Orders : JobsOf(m)' = JobsOf(m)
    BY DEF JobsOf
  <1>3. MemoryInv' /\ AckInv'
    BY <1>1 DEF MemoryInv, AckInv, NoCrashYet
  <1>4. PendingInv'
    BY <1>0, <1>1, <1>2 DEF PendingInv, Draining
  <1>5. ResultInv'
    BY <1>0, <1>1, <1>2, ReadyOrders DEF ResultInv, NoCrashYet, TypeOK
  <1>6. QED
    BY <1>3, <1>4, <1>5 DEF OInv

LEMMA OrdersNext == IInv /\ OInv /\ [Next]_vars => OInv'
  <1>. SUFFICES ASSUME IInv, OInv, [Next]_vars PROVE OInv'
    OBVIOUS
  <1>1. CASE Interrupt
    <2>1. CASE CrashInEmit
      BY <2>1, DieOrders DEF CrashInEmit, status
    <2>2. CASE Crash \/ (\E x \in Adds \cup Orders : CrashInScaffold(x))
               \/ (\E m \in Cancels : CrashBeforeAck(m))
      BY <2>2, DieOrders DEF Crash, CrashInScaffold, CrashBeforeAck, status, outbox
    <2>3. QED
      BY <1>1, <2>1, <2>2 DEF Interrupt
  <1>2. CASE Sender
    BY <1>2, OrdersFrame DEF Sender, Write, Complete, Resend, status, outbox, memory
  <1>3. CASE UNCHANGED vars
    BY <1>3, OrdersFrame DEF vars, status, outbox, memory
  <1>4. QED
    BY <1>1, <1>2, <1>3, AbsorbOrders, DrainOrders, RestOrders DEF Next, Tick

LEMMA OrdersInvariant == Spec => [](IInv /\ OInv)
  BY InitInv, NextInv, InitOrders, OrdersNext, PTL DEF Spec

\* What the jobs of an order are worth once they are in the plan: all of them are.
LEMMA OrdersLand ==
    ASSUME IInv, NEW m \in Orders, JobsOf(m) # {}, JobsOf(m) \subseteq DOMAIN runs
    PROVE  Landed(m)
  <1>1. m \in Bringers
    BY DEF Bringers
  <1>2. Heard(m) /\ JobsOf(m) = PlacesOf(m)
    BY <1>1 DEF IInv, SizeInv, PlanInv, JobsOf, Heard
  <1>3. QED
    BY <1>1, <1>2 DEF IInv, SizeInv, Landed

\* A result in the outbox speaks of an order all of whose jobs are in the batch; and
\* as long as no tick died, of runs that the persisted status calls over.
THEOREM ResultsAreRight == Spec => []ResultsAreTrue
  <1>1. ASSUME IInv, OInv PROVE ResultsAreTrue
    <2>1. SUFFICES ASSUME NEW m \in result
                   PROVE  /\ Landed(m)
                          /\ NoCrashYet /\ pc = "idle" => \A i \in JobsOf(m) : runs[i] = "over"
      BY DEF ResultsAreTrue
    <2>2. m \in Orders /\ JobsOf(m) # {} /\ JobsOf(m) \subseteq DOMAIN runs
      BY <1>1 DEF IInv, TypeOK, OInv, ResultInv
    <2>3. Landed(m)
      BY <1>1, <2>2, OrdersLand
    <2>4. NoCrashYet /\ pc = "idle" => \A i \in JobsOf(m) : runs[i] = "over"
      BY <1>1, <2>2 DEF OInv, ResultInv, MemoryInv
    <2>5. QED
      BY <2>3, <2>4
  <1>2. QED
    BY <1>1, OrdersInvariant, PTL

\* Unless a tick died, an acknowledged order has, at the end of the tick, all its jobs
\* and runs in the batch, and its result is given or awaited on every one of them.
THEOREM AppliedOrdersAreKept == Spec => []AppliedOrdersLand
  <1>1. ASSUME IInv, OInv PROVE AppliedOrdersLand
    <2>1. SUFFICES ASSUME NoCrashYet, pc = "idle", NEW m \in Orders, ack[m] = "applied"
                   PROVE  Landed(m) /\ (m \in result \/ pending[m] = JobsOf(m))
      BY DEF AppliedOrdersLand
    <2>2. m \in result \/ pending[m] # {}
      BY <1>1, <2>1 DEF OInv, AckInv, Draining
    <2>3. CASE m \in result
      BY <1>1, <2>3, OrdersLand DEF OInv, ResultInv
    <2>4. CASE pending[m] # {}
      BY <1>1, <2>4, OrdersLand DEF OInv, PendingInv
    <2>5. QED
      BY <2>2, <2>3, <2>4
  <1>2. QED
    BY <1>1, OrdersInvariant, PTL

================================================================================
