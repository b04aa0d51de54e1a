----------------------------- MODULE JobLifecycle -----------------------------
(***************************************************************************)
(* What the engine promises about one single-prompt job, seen in the       *)
(* persisted status only: which state may follow which from one tick to    *)
(* the next, and that attempts are spent one at a time within a budget.    *)
(* TickEngine implements one copy of this per run.                         *)
(***************************************************************************)
EXTENDS RunStates

CONSTANT Budget   \* max_attempts of the job

VARIABLES state, attempts

job == <<state, attempts>>

Init == state = "queued" /\ attempts = 0

Become(s) == state' = s /\ UNCHANGED attempts

\* A worker starts only against a whole attempt.
Spend == attempts < Budget /\ attempts' = attempts + 1

Claim == state = "queued" /\ Spend /\ state' = "claimed"

Hear == state \in {"claimed", "stalled"} /\ Become("running")

FallSilent == state \in {"claimed", "running"} /\ Become("stalled")

NeverLaunch == state = "claimed" /\ Become("auth_or_launch_failed")

Finish == state \in InFlight /\ \E s \in {"completed", "failed", "abandoned"} : Become(s)

\* A retry needs an attempt left.  Without a backoff the same tick claims it again.
Retry ==
    /\ state \in InFlight
    /\ \/ attempts < Budget /\ Become("queued")
       \/ Spend /\ state' = "claimed"

\* The done_check of a job that was never dispatched, or a CANCEL.
Withdraw == state = "queued" /\ \E s \in {"completed", "abandoned"} : Become(s)

Next == Claim \/ Hear \/ FallSilent \/ NeverLaunch \/ Finish \/ Retry \/ Withdraw

Spec == Init /\ [][Next]_job
=============================================================================
