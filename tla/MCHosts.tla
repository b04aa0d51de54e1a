-------------------------------- MODULE MCHosts --------------------------------
(* Small deployments of Hosts: each has what its questions need, and no more. *)
EXTENDS Hosts

Base == [hosts |-> {"ticker"}, first |-> {1}, shell |-> {1}, measurable |-> Jobs,
         interval |-> 1, orders |-> {}, deaths |-> 0, sleeps |-> 0, lockFaults |-> 0]

\* A session with a safety tick and a death: what the one leaves, the other meets.
WithSafetyTick ==
    [Base EXCEPT !.hosts = {"agent", "cron"}, !.shell = {}, !.deaths = 1, !.orders = {"STOP"}]

\* A lone ticker whose pace is changed.
LonePace == [Base EXCEPT !.interval = 2, !.orders = {"CADENCE", "POLL-NOW"}]

\* A lone ticker that is paused and polled; its job may hang for ever, so that it
\* always has something to come back for.
LonePause ==
    [Base EXCEPT !.measurable = {}, !.interval = 2, !.orders = {"POLL-NOW", "PAUSE", "RESUME"}]

\* A lone session with two subagent jobs, one of which cannot be measured.
LoneSession ==
    [Base EXCEPT !.hosts = {"agent"}, !.first = Jobs, !.shell = {}, !.measurable = {1},
                 !.orders = {"POOL"}, !.sleeps = 1]

\* A ticker with a safety tick; a job joins at any moment.
LateJob ==
    [Base EXCEPT !.hosts = {"ticker", "cron"}, !.shell = Jobs, !.orders = {"ADD"}]

\* A session whose batch meets a blocker.
Blocked == [Base EXCEPT !.hosts = {"agent"}, !.shell = {}, !.orders = {"BLOCK"}]

\* Two hosts, and a lock file that once does not open.
BrokenLock == [Base EXCEPT !.hosts = {"ticker", "cron"}, !.lockFaults = 1]

AllDeployments ==
    {WithSafetyTick, LonePace, LonePause, LoneSession, LateJob, Blocked, BrokenLock}

SessionAndCron == {[WithSafetyTick EXCEPT !.orders = {}, !.deaths = 0]}
================================================================================
