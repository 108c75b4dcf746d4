----------------------------- MODULE Scheduler -----------------------------
(***************************************************************************)
(* The in-memory scheduler (nivasa-scheduling/src/lib.rs): a map of jobs   *)
(* behind a RwLock, and ticks that run every due job.  A tick takes the    *)
(* read lock to choose a job, awaits the handler with no lock held, and    *)
(* takes the write lock to set the next fire time from what it had read.   *)
(* Ticks, registrations and removals interleave between those steps, and a *)
(* tick may be dropped while it waits for a handler.                       *)
(*                                                                         *)
(* Which ids a tick reports as fired is left out.                          *)
(***************************************************************************)
EXTENDS Naturals, FiniteSets, FiniteSetsExt

CONSTANTS
  Tickers,     \* callers of tick
  Jobs,        \* the ids that may be drawn, each at most once
  Schedules,   \* [kind |-> "interval" or "timeout", arg |-> duration],
               \* [kind |-> "cron", arg |-> the times the expression matches]
  None,
  MaxTime,     \* bound on the clock
  MaxDrops     \* bound on dropped ticks

VARIABLES
  clock,   \* Utc::now()
  jobs,    \* the map; None for an id that is not in it
  drawn,   \* ids given to jobs so far
  pc,      \* where each tick is
  now,     \* its `now`
  due,     \* its `snapshot`
  runs,    \* how often the handler was started for each fire time: 0, 1 or 2 (more)
  drops,   \* ticks dropped so far
  alone    \* no tick has overlapped another one or been dropped

history == <<drops, alone>>
vars == <<clock, jobs, drawn, pc, now, due, runs, history>>

Durations == {s.arg : s \in {z \in Schedules : z.kind # "cron"}}

\* No fire time lies further ahead.
Horizon == MaxTime + Max(Durations \cup {0}) + 1
Times   == 0 .. Horizon

\* `born` is the clock at registration.
Job      == [schedule : Schedules, born : Times, next : Times]
Snapshot == [id : Jobs, schedule : Schedules, at : Times]

\* Durations have a longest one (they are i64 milliseconds); the times of a cron expression are
\* cut off where the instance ends.
ASSUME SchedulerAssumption ==
  /\ MaxTime \in Nat /\ MaxDrops \in Nat
  /\ Durations \subseteq Nat /\ \E d \in Durations \cup {0} : \A e \in Durations : e <= d
  /\ \A s \in Schedules : s.kind \in {"interval", "timeout", "cron"} /\ (s.kind = "cron" => s.arg \subseteq Times)
  /\ None \notin Nat \cup Job \cup Snapshot

\* Every variable has its type.
TypeOK ==
  /\ clock \in 0 .. MaxTime
  /\ jobs \in [Jobs -> Job \cup {None}]
  /\ drawn \subseteq Jobs
  /\ pc \in [Tickers -> {"idle", "choose", "handler"}]
  /\ now \in [Tickers -> 0 .. MaxTime]
  /\ due \in [Tickers -> Snapshot \cup {None}]
  /\ runs \in [Jobs -> [Times -> 0 .. 2]]
  /\ drops \in 0 .. MaxDrops
  /\ alone \in BOOLEAN

Init ==
  /\ clock = 0
  /\ jobs = [j \in Jobs |-> None]
  /\ drawn = {}
  /\ pc = [t \in Tickers |-> "idle"]
  /\ now = [t \in Tickers |-> 0]
  /\ due = [t \in Tickers |-> None]
  /\ runs = [j \in Jobs |-> [x \in Times |-> 0]]
  /\ drops = 0
  /\ alone = TRUE

AdvanceClock ==
  /\ clock < MaxTime
  /\ clock' = clock + 1
  /\ UNCHANGED <<jobs, drawn, pc, now, due, runs, history>>

-----------------------------------------------------------------------------

After(times, t) == LET later == {x \in times : x > t}
                   IN  IF later = {} THEN None ELSE Min(later)

InitialFireAt(s, t) == IF s.kind = "cron" THEN After(s.arg, t) ELSE t + s.arg

NextAfter(s, t) ==
  CASE s.kind = "cron"     -> After(s.arg, t)
    [] s.kind = "interval" -> t + s.arg
    [] s.kind = "timeout"  -> None

\* register_interval_at refuses a zero interval; register_interval and
\* register_pattern do not, and what is registered is the same.  A cron job
\* that will never fire is refused.
Register(j) ==
  /\ j \notin drawn
  /\ \E s \in Schedules :
       /\ InitialFireAt(s, clock) # None
       /\ jobs' = [jobs EXCEPT ![j] =
            [schedule |-> s, born |-> clock, next |-> InitialFireAt(s, clock)]]
  /\ drawn' = drawn \cup {j}
  /\ UNCHANGED <<clock, pc, now, due, runs, history>>

RemoveJob(j) ==
  /\ jobs[j] # None
  /\ jobs' = [jobs EXCEPT ![j] = None]
  /\ UNCHANGED <<clock, drawn, pc, now, due, runs, history>>

-----------------------------------------------------------------------------

Return(t) ==
  /\ pc' = [pc EXCEPT ![t] = "idle"]
  /\ now' = [now EXCEPT ![t] = 0]
  /\ due' = [due EXCEPT ![t] = None]

BeginTick(t) ==
  /\ pc[t] = "idle"
  /\ pc' = [pc EXCEPT ![t] = "choose"]
  /\ now' = [now EXCEPT ![t] = clock]
  /\ alone' = (alone /\ \A u \in Tickers : pc[u] = "idle")
  /\ UNCHANGED <<clock, jobs, drawn, due, runs, drops>>

Due(t) == {j \in Jobs : jobs[j] # None /\ jobs[j].next <= now[t]}

\* Among jobs due at the same time the order of the map decides.
Earliest(t) == {j \in Due(t) : \A k \in Due(t) : jobs[j].next <= jobs[k].next}

Choose(t) ==
  /\ pc[t] = "choose"
  /\ \E j \in Earliest(t) :
       LET at == jobs[j].next
       IN  /\ due' = [due EXCEPT ![t] = [id |-> j, schedule |-> jobs[j].schedule, at |-> at]]
           /\ runs' = [runs EXCEPT ![j][at] = Min({@ + 1, 2})]
  /\ pc' = [pc EXCEPT ![t] = "handler"]
  /\ UNCHANGED <<clock, jobs, drawn, now, history>>

NoneDue(t) ==
  /\ pc[t] = "choose"
  /\ Due(t) = {}
  /\ Return(t)
  /\ UNCHANGED <<clock, jobs, drawn, runs, history>>

\* Slip: the job is put back from the snapshot, whether or not it is still there.
Reschedule_PutBack(t) ==
  LET s == due[t]
      next == NextAfter(s.schedule, s.at)
  IN  jobs' = [jobs EXCEPT ![s.id] =
        IF next = None THEN None ELSE [schedule |-> s.schedule, born |-> 0, next |-> next]]

\* Slip: the next fire time is reckoned from now.
Reschedule_FromNow(t) ==
  LET s == due[t]
      next == NextAfter(s.schedule, now[t])
  IN  jobs' = [jobs EXCEPT ![s.id] =
        IF @ = None \/ next = None THEN None ELSE [@ EXCEPT !.next = next]]

\* Slip: the fire time is left as it was.
Reschedule_Not(t) ==
  jobs' = [jobs EXCEPT ![due[t].id] =
    IF @ # None /\ @.schedule.kind = "timeout" THEN None ELSE @]

\* The job, if it is still there, gets the time after the one that was run, or
\* goes when there is none.
Reschedule(t) ==
  LET s == due[t]
      next == NextAfter(s.schedule, s.at)
  IN  jobs' = [jobs EXCEPT ![s.id] =
        IF @ = None \/ next = None THEN None ELSE [@ EXCEPT !.next = next]]

\* The handler has returned: with Ok the loop goes on, with Err the tick ends.
Settle(t) ==
  /\ pc[t] = "handler"
  /\ Reschedule(t)
  /\ \/ /\ pc' = [pc EXCEPT ![t] = "choose"]
        /\ due' = [due EXCEPT ![t] = None]
        /\ UNCHANGED now
     \/ Return(t)
  /\ UNCHANGED <<clock, drawn, runs, history>>

\* The caller drops the future of the tick.
Cancel(t) ==
  /\ drops < MaxDrops
  /\ pc[t] # "idle"
  /\ Return(t)
  /\ drops' = drops + 1
  /\ alone' = FALSE
  /\ UNCHANGED <<clock, jobs, drawn, runs>>

Tick(t) == BeginTick(t) \/ Choose(t) \/ NoneDue(t) \/ Settle(t)

Next ==
  \/ AdvanceClock
  \/ \E j \in Jobs : Register(j) \/ RemoveJob(j)
  \/ \E t \in Tickers : Tick(t) \/ Cancel(t)

Spec == Init /\ [][Next]_vars

\* Handlers return, and the callers tick again and again.
FairSpec == Spec /\ \A t \in Tickers : WF_vars(Tick(t))

-----------------------------------------------------------------------------

\* The fire times of a job, from its registration on.
Occurrences(job) ==
  CASE job.schedule.kind = "cron"     -> {x \in job.schedule.arg : x > job.born}
    [] job.schedule.kind = "interval" -> {x \in Times : \E n \in 1 .. Horizon : x = job.born + n * job.schedule.arg}
    [] job.schedule.kind = "timeout"  -> {job.born + job.schedule.arg}

InHand(j, x) == {t \in Tickers : due[t] # None /\ due[t].id = j /\ due[t].at = x}

\* However ticks overlap, fail or are dropped, a job never moves past a fire
\* time for which its handler was not started (lib.rs:490-497: the next time is
\* reckoned from due_at, not from now).
NothingSkipped ==
  \A j \in Jobs : jobs[j] # None =>
    \A x \in Occurrences(jobs[j]) : x < jobs[j].next => runs[j][x] > 0

\* As long as ticks follow one another and none is dropped, a handler is started exactly once
\* for every fire time that the job has moved past, never for one that is still
\* to come, and for the one in hand only by the tick that has it, even when
\* handlers fail (lib.rs:476-507).
ExactlyOnce ==
  alone => \A j \in Jobs : jobs[j] # None =>
    \A x \in Occurrences(jobs[j]) :
      runs[j][x] = IF x < jobs[j].next THEN 1 ELSE Cardinality(InHand(j, x))

\* A job that is gone, removed or finished, does not come back with the answer
\* of a handler that was running then (lib.rs:491).
GoneForGood ==
  [][\A j \in drawn : jobs[j] = None => jobs'[j] = None]_vars

\* Every tick returns, whatever its handlers answer.
TickReturns == \A t \in Tickers : pc[t] # "idle" ~> pc[t] = "idle"

\* A job that is due is run, or removed, in the end, failures of other jobs
\* notwithstanding.
DueIsRun ==
  \A j \in Jobs : \A x \in 0 .. MaxTime :
    jobs[j] # None /\ jobs[j].next = x /\ clock >= x ~> runs[j][x] > 0 \/ jobs[j] = None

\* No occurrence of a job is lost, however ticks overlap, fail or are dropped; as long as they
\* follow one another none is run twice either (lib.rs:476-507).
OnceEach == TypeOK /\ NothingSkipped /\ ExactlyOnce
=============================================================================
