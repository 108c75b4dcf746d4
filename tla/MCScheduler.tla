---------------------------- MODULE MCScheduler ----------------------------
(***************************************************************************)
(* Schedules for the instances of Scheduler.                               *)
(***************************************************************************)
EXTENDS Scheduler

Interval(d) == [kind |-> "interval", arg |-> d]
Timeout(d)  == [kind |-> "timeout", arg |-> d]
Cron(times) == [kind |-> "cron", arg |-> times]

\* Jobs that meet at the same time, jobs that end, one due at once.
Mixed   == {Interval(1), Timeout(0), Cron({1, 2})}
Zero    == {Interval(0), Interval(1)}
=============================================================================
