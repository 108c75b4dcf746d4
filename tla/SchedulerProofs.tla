--------------------------- MODULE SchedulerProofs ---------------------------
(* Proofs about Scheduler, for any tickers, jobs, schedules and times: the types, that no fire     *)
(* time is skipped however ticks overlap, that each is run once as long as they do not, and that   *)
(* a job that is gone stays gone.                                                                  *)
EXTENDS Scheduler, FiniteSetTheorems, WellFoundedInduction, TLAPS

-----------------------------------------------------------------------------
(* Fire times. *)

OccursAt(s, born) == Occurrences([schedule |-> s, born |-> born, next |-> 0])

LEMMA Constants ==
  /\ MaxTime \in Nat /\ Horizon \in Nat /\ MaxTime < Horizon
  /\ \A s \in Schedules : s.kind # "cron" => s.arg \in Nat /\ MaxTime + s.arg \in Times
  /\ \A s \in Schedules : s.kind = "cron" => s.arg \subseteq Times
  /\ Times \subseteq Nat /\ 0 .. MaxTime \subseteq Times
<1> DEFINE m == Max(Durations \cup {0})
<1>1. m \in Durations \cup {0} /\ \A d \in Durations \cup {0} : d <= m
  <2>1. PICK d \in Durations \cup {0} : \A e \in Durations : e <= d
    BY SchedulerAssumption
  <2>2. Durations \cup {0} \subseteq Nat
    BY SchedulerAssumption
  <2>3. d \in Durations \cup {0} /\ \A e \in Durations \cup {0} : d >= e
    BY <2>1, <2>2
  <2>4. m \in Durations \cup {0} /\ \A e \in Durations \cup {0} : m >= e
    BY <2>3 DEF Max
  <2> QED
    BY <2>2, <2>4
<1>2. m \in Nat /\ MaxTime \in Nat /\ Horizon = MaxTime + m + 1
  <2>1. Horizon = MaxTime + m + 1
    BY DEF Horizon
  <2> HIDE DEF m
  <2> QED
    BY <1>1, <2>1, SchedulerAssumption
<1> HIDE DEF m
<1>3. Horizon \in Nat /\ MaxTime < Horizon /\ MaxTime + m <= Horizon
  BY <1>2
<1>4. ASSUME NEW s \in Schedules, s.kind # "cron" PROVE s.arg \in Nat /\ MaxTime + s.arg \in Times
  <2>1. s.arg \in Durations
    BY <1>4 DEF Durations
  <2>2. s.arg \in Nat /\ s.arg <= m
    BY <1>1, <2>1, SchedulerAssumption
  <2> QED
    BY <1>2, <1>3, <2>2 DEF Times
<1>5. Times \subseteq Nat /\ 0 .. MaxTime \subseteq Times
  BY <1>2, <1>3 DEF Times
<1> QED
  BY <1>2, <1>3, <1>4, <1>5, SchedulerAssumption

\* Every set of natural numbers that is not empty has a least one.
LEMMA LeastTime ==
  ASSUME NEW S \in SUBSET Nat, S # {}
  PROVE  Min(S) \in S /\ \A x \in S : Min(S) <= x
<1> DEFINE Less == {p \in Nat \X Nat : p[1] < p[2]}
<1>1. OpToRel(<, Nat) = Less
  BY DEF OpToRel
<1>2. PICK n \in S : \A m \in S : <<m, n>> \notin Less
  BY <1>1, NatLessThanWellFounded, WFMin
<1>3. ASSUME NEW m \in S PROVE n <= m
  <2>1. ~(m < n)
    BY <1>2
  <2>2. m \in Nat /\ n \in Nat
    OBVIOUS
  <2> QED
    BY <2>1, <2>2
<1> QED
  BY <1>3 DEF Min

LEMMA OccursCases ==
  ASSUME NEW s \in Schedules, NEW born
  PROVE  /\ s.kind = "cron" => OccursAt(s, born) = {x \in s.arg : x > born}
         /\ s.kind = "interval" => OccursAt(s, born) = {x \in Times : \E n \in 1 .. Horizon : x = born + n * s.arg}
         /\ s.kind = "timeout" => OccursAt(s, born) = {born + s.arg}
BY DEF OccursAt, Occurrences

LEMMA OccursOfJob ==
  ASSUME NEW job
  PROVE  Occurrences(job) = OccursAt(job.schedule, job.born)
BY DEF OccursAt, Occurrences

\* The times of a schedule that never stands still.
Moves(s) == s.kind = "interval" => s.arg > 0

LEMMA Multiples ==
  ASSUME NEW d \in Nat \ {0}, NEW m \in Nat, NEW n \in Nat
  PROVE  /\ (n + 1) * d = n * d + d
         /\ n <= n * d
         /\ m * d < (n + 1) * d => m * d <= n * d
<1>1. (n + 1) * d = n * d + d /\ m * d \in Nat /\ n * d \in Nat
  OBVIOUS
<1>2. n <= n * d
  OBVIOUS
<1>3. CASE m <= n
  <2>1. PICK k \in Nat : n = m + k
    BY <1>3
  <2>2. n * d = m * d + k * d /\ k * d \in Nat
    BY <2>1
  <2> QED
    BY <1>1, <1>2, <2>2
<1>4. CASE m > n
  <2>1. PICK k \in Nat : m = (n + 1) + k
    <3>1. m - (n + 1) \in Nat /\ m = (n + 1) + (m - (n + 1))
      BY <1>4
    <3> QED
      BY <3>1
  <2>2. m * d = (n + 1) * d + k * d /\ k * d \in Nat /\ (n + 1) * d \in Nat
    BY <2>1
  <2>3. ~(m * d < (n + 1) * d)
    BY <2>2
  <2> QED
    BY <1>1, <1>2, <2>3
<1> QED
  BY <1>3, <1>4

LEMMA AfterIsNext ==
  ASSUME NEW times \in SUBSET Times, NEW t \in Nat, After(times, t) # None
  PROVE  /\ After(times, t) \in times /\ After(times, t) > t
         /\ \A x \in times : x > t => After(times, t) <= x
<1> DEFINE later == {x \in times : x > t}
<1>1. later \subseteq Nat
  BY Constants
<1>2. later # {} /\ After(times, t) = Min(later)
  BY DEF After
<1>3. Min(later) \in later /\ \A x \in later : Min(later) <= x
  BY <1>1, <1>2, LeastTime
<1> QED
  BY <1>2, <1>3

\* What follows a fire time is the next occurrence: none lies between them.
LEMMA NextOccurrence ==
  ASSUME NEW s \in Schedules, NEW born \in Times, NEW at \in OccursAt(s, born), at <= MaxTime,
         NextAfter(s, at) # None
  PROVE  /\ NextAfter(s, at) \in OccursAt(s, born)
         /\ \A x \in OccursAt(s, born) : x < NextAfter(s, at) => x <= at
         /\ Moves(s) => at < NextAfter(s, at)
<1>1. s.kind \in {"interval", "cron"}
  BY SchedulerAssumption DEF NextAfter
<1>2. CASE s.kind = "cron"
  <2>1. OccursAt(s, born) = {x \in s.arg : x > born} /\ s.arg \subseteq Times
    BY <1>2, OccursCases, Constants
  <2>2. at \in Nat /\ born \in Nat
    BY <2>1, Constants
  <2>3. NextAfter(s, at) = After(s.arg, at)
    BY <1>2 DEF NextAfter
  <2> DEFINE next == NextAfter(s, at)
  <2>4. next \in s.arg /\ next > at /\ \A x \in s.arg : x > at => next <= x
    <3>1. After(s.arg, at) # None /\ s.arg \in SUBSET Times
      BY <2>1, <2>3
    <3>2. /\ After(s.arg, at) \in s.arg /\ After(s.arg, at) > at
          /\ \A x \in s.arg : x > at => After(s.arg, at) <= x
      BY <2>2, <3>1, AfterIsNext
    <3> QED
      BY <2>3, <3>2
  <2>5. next \in Nat /\ \A x \in s.arg : x \in Nat
    BY <2>1, <2>4, Constants
  <2> HIDE DEF next
  <2>6. next \in OccursAt(s, born)
    BY <2>1, <2>2, <2>4, <2>5
  <2>7. \A x \in OccursAt(s, born) : x < next => x <= at
    BY <2>1, <2>2, <2>4, <2>5
  <2> QED
    BY <2>2, <2>4, <2>5, <2>6, <2>7 DEF next
<1>3. CASE s.kind = "interval"
  <2>1. OccursAt(s, born) = {x \in Times : \E n \in 1 .. Horizon : x = born + n * s.arg}
    BY <1>3, OccursCases
  <2>2. NextAfter(s, at) = at + s.arg
    BY <1>3 DEF NextAfter
  <2>3. s.arg \in Nat /\ born \in Nat /\ at \in Times /\ at \in Nat /\ Horizon \in Nat
    BY <1>3, <2>1, Constants
  <2>4. at + s.arg \in Times
    <3>1. MaxTime + s.arg \in Times /\ MaxTime \in Nat
      BY <1>3, Constants
    <3> QED
      BY <2>3, <3>1 DEF Times
  <2>5. PICK n \in 1 .. Horizon : at = born + n * s.arg
    BY <2>1
  <2>6. CASE s.arg = 0
    <3>1. at + s.arg = at
      BY <2>3, <2>6
    <3>2. \A x \in OccursAt(s, born) : x \in Nat
      BY <2>1, Constants
    <3> QED
      BY <1>3, <2>2, <2>3, <2>6, <3>1, <3>2 DEF Moves
  <2>7. CASE s.arg # 0
    <3> DEFINE d == s.arg
    <3>1. d \in Nat \ {0} /\ n \in Nat /\ n + 1 \in Nat /\ n * d \in Nat
      BY <2>3, <2>7
    <3> HIDE DEF d
    <3>2. at + d = born + (n + 1) * d
      <4>1. (n + 1) * d = n * d + d
        BY <3>1, Multiples
      <4> QED
        BY <2>3, <2>5, <3>1, <4>1 DEF d
    <3>3. n + 1 \in 1 .. Horizon
      <4>1. n + 1 <= (n + 1) * d /\ (n + 1) * d \in Nat
        BY <3>1, Multiples
      <4>2. at + d <= Horizon
        BY <2>4 DEF Times, d
      <4> QED
        BY <2>3, <3>1, <3>2, <4>1, <4>2
    <3>4. at + d \in OccursAt(s, born)
      BY <2>1, <2>4, <3>2, <3>3 DEF d
    <3>5. ASSUME NEW x \in OccursAt(s, born), x < at + d PROVE x <= at
      <4>1. PICK m \in 1 .. Horizon : x = born + m * d
        BY <2>1 DEF d
      <4>2. m \in Nat /\ m * d \in Nat /\ (n + 1) * d \in Nat
        BY <2>3, <3>1, <4>1
      <4>3. m * d < (n + 1) * d
        BY <2>3, <3>2, <3>5, <4>1, <4>2
      <4>4. m * d <= n * d
        BY <3>1, <4>2, <4>3, Multiples
      <4> QED
        BY <2>3, <2>5, <3>1, <4>1, <4>2, <4>4 DEF d
    <3>6. at < at + d
      BY <2>3, <3>1
    <3> QED
      BY <2>2, <3>4, <3>5, <3>6 DEF d
  <2> QED
    BY <2>6, <2>7
<1> QED
  BY <1>1, <1>2, <1>3

LEMMA FirstOccurrence ==
  ASSUME NEW s \in Schedules, NEW born \in 0 .. MaxTime, InitialFireAt(s, born) # None
  PROVE  /\ InitialFireAt(s, born) \in OccursAt(s, born)
         /\ \A x \in OccursAt(s, born) : InitialFireAt(s, born) <= x
<1>1. born \in Nat /\ MaxTime \in Nat /\ Horizon \in Nat
  BY Constants
<1>2. CASE s.kind = "cron"
  <2>1. OccursAt(s, born) = {x \in s.arg : x > born} /\ s.arg \subseteq Times
    BY <1>2, OccursCases, Constants
  <2>2. InitialFireAt(s, born) = After(s.arg, born)
    BY <1>2 DEF InitialFireAt
  <2> QED
    BY <1>1, <2>1, <2>2, AfterIsNext
<1>3. CASE s.kind # "cron"
  <2>1. InitialFireAt(s, born) = born + s.arg
    BY <1>3 DEF InitialFireAt
  <2>2. s.arg \in Nat /\ born + s.arg \in Times
    <3>1. s.arg \in Nat /\ MaxTime + s.arg \in Times
      BY <1>3, Constants
    <3> QED
      BY <1>1, <3>1 DEF Times
  <2>3. CASE s.kind = "timeout"
    BY <1>1, <2>1, <2>2, <2>3, OccursCases
  <2>4. CASE s.kind = "interval"
    <3>1. OccursAt(s, born) = {x \in Times : \E n \in 1 .. Horizon : x = born + n * s.arg}
      BY <2>4, OccursCases
    <3>2. 1 \in 1 .. Horizon /\ born + s.arg = born + 1 * s.arg
      <4>1. MaxTime < Horizon
        BY Constants
      <4> QED
        BY <1>1, <2>2, <4>1
    <3>3. \A n \in 1 .. Horizon : s.arg <= n * s.arg /\ n * s.arg \in Nat
      <4>1. SUFFICES ASSUME NEW n \in 1 .. Horizon PROVE s.arg <= n * s.arg /\ n * s.arg \in Nat
        OBVIOUS
      <4>2. n - 1 \in Nat /\ n = (n - 1) + 1
        BY <1>1
      <4>3. n * s.arg = (n - 1) * s.arg + s.arg /\ (n - 1) * s.arg \in Nat
        BY <2>2, <4>2
      <4> QED
        BY <2>2, <4>3
    <3> QED
      BY <1>1, <2>1, <2>2, <3>1, <3>2, <3>3
  <2> QED
    BY <1>3, <2>3, <2>4, SchedulerAssumption
<1> QED
  BY <1>2, <1>3

-----------------------------------------------------------------------------
(* The invariant. *)

\* A job in the map was drawn and stands at one of its fire times.
Stands(j) ==
  /\ jobs[j] # None => /\ j \in drawn /\ jobs[j].born \in 0 .. MaxTime
                       /\ jobs[j].next \in OccursAt(jobs[j].schedule, jobs[j].born)
  /\ j \notin drawn => \A x \in Times : runs[j][x] = 0

\* What a tick has in hand is a fire time of the job it was taken from, and was run with all before.
Hands(t) ==
  /\ due[t] # None <=> pc[t] = "handler"
  /\ due[t] # None => due[t].id \in drawn /\ due[t].at <= MaxTime
  /\ due[t] # None /\ jobs[due[t].id] # None =>
       /\ due[t].schedule = jobs[due[t].id].schedule
       /\ due[t].at \in OccursAt(jobs[due[t].id].schedule, jobs[due[t].id].born)
       /\ \A x \in OccursAt(jobs[due[t].id].schedule, jobs[due[t].id].born) :
            x <= due[t].at => runs[due[t].id][x] > 0

\* NothingSkipped and ExactlyOnce, of one job.
Complete(j) ==
  jobs[j] # None =>
    \A x \in OccursAt(jobs[j].schedule, jobs[j].born) : x < jobs[j].next => runs[j][x] > 0
Once(j) ==
  alone /\ jobs[j] # None =>
    \A x \in OccursAt(jobs[j].schedule, jobs[j].born) :
      /\ x < jobs[j].next => runs[j][x] = 1
      /\ ~(x < jobs[j].next) => runs[j][x] = Cardinality(InHand(j, x))

\* Ticks that do not overlap: one at most is on its way, and its job still stands where it was.
Apart ==
  alone =>
    /\ \A t, u \in Tickers : pc[t] # "idle" /\ pc[u] # "idle" => t = u
    /\ \A t \in Tickers : due[t] # None /\ jobs[due[t].id] # None => due[t].at = jobs[due[t].id].next

SchedulerInv ==
  TypeOK /\ (\A j \in Jobs : Stands(j) /\ Complete(j)) /\ (\A t \in Tickers : Hands(t))

ApartInv == Apart /\ \A j \in Jobs : Once(j)

LEMMA OccursTimes ==
  ASSUME NEW s \in Schedules, NEW born \in 0 .. MaxTime
  PROVE  OccursAt(s, born) \subseteq Times /\ OccursAt(s, born) \subseteq Nat
<1>1. OccursAt(s, born) \subseteq Times
  <2>1. CASE s.kind = "cron"
    BY <2>1, OccursCases, Constants
  <2>2. CASE s.kind = "interval"
    BY <2>2, OccursCases
  <2>3. CASE s.kind = "timeout"
    <3>1. s.arg \in Nat /\ MaxTime + s.arg \in Times /\ MaxTime \in Nat /\ born \in Nat /\ Horizon \in Nat
      BY <2>3, Constants
    <3>2. born + s.arg \in Times
      BY <3>1 DEF Times
    <3> QED
      BY <2>3, <3>2, OccursCases
  <2> QED
    BY <2>1, <2>2, <2>3, SchedulerAssumption
<1> QED
  BY <1>1, Constants

LEMMA JobTyped ==
  ASSUME SchedulerInv, NEW j \in Jobs, jobs[j] # None
  PROVE  /\ jobs[j] \in Job
         /\ jobs[j].schedule \in Schedules /\ jobs[j].born \in 0 .. MaxTime
         /\ jobs[j].born \in Times /\ jobs[j].next \in Times /\ jobs[j].next \in Nat
         /\ OccursAt(jobs[j].schedule, jobs[j].born) \subseteq Times
         /\ OccursAt(jobs[j].schedule, jobs[j].born) \subseteq Nat
<1>1. jobs[j] \in Job
  BY DEF SchedulerInv, TypeOK
<1>2. jobs[j].schedule \in Schedules /\ jobs[j].born \in Times /\ jobs[j].next \in Times
  BY <1>1 DEF Job
<1>3. jobs[j].born \in 0 .. MaxTime
  BY DEF SchedulerInv, Stands
<1> QED
  BY <1>1, <1>2, <1>3, OccursTimes, Constants

LEMMA HandTyped ==
  ASSUME TypeOK, NEW t \in Tickers, due[t] # None
  PROVE  due[t] \in Snapshot /\ due[t].id \in Jobs /\ due[t].schedule \in Schedules /\ due[t].at \in Nat
<1>1. due[t] \in Snapshot
  BY DEF TypeOK
<1>2. due[t].id \in Jobs /\ due[t].schedule \in Schedules /\ due[t].at \in Times
  BY <1>1 DEF Snapshot
<1> QED
  BY <1>1, <1>2, Constants

LEMMA Counts ==
  ASSUME NEW v \in 0 .. 2
  PROVE  Min({v + 1, 2}) \in 1 .. 2 /\ (v = 0 => Min({v + 1, 2}) = 1)
<1> DEFINE S == {v + 1, 2}
<1>1. S \in SUBSET Nat /\ S # {}
  OBVIOUS
<1>2. Min(S) \in S /\ \A x \in S : Min(S) <= x
  BY <1>1, LeastTime
<1>3. Min(S) \in {v + 1, 2} /\ Min(S) <= v + 1 /\ Min(S) <= 2
  BY <1>2
<1> QED
  BY <1>3

LEMMA NoneApart == None \notin Job /\ None \notin Snapshot
BY SchedulerAssumption

LEMMA SchedulerInitial == Init => SchedulerInv /\ ApartInv
<1> SUFFICES ASSUME Init PROVE SchedulerInv /\ ApartInv
  OBVIOUS
<1>1. MaxTime \in Nat /\ MaxDrops \in Nat
  BY SchedulerAssumption
<1>2. TypeOK
  BY <1>1 DEF Init, TypeOK
<1>3. \A j \in Jobs : Stands(j) /\ Complete(j) /\ Once(j)
  BY DEF Init, Stands, Complete, Once
<1>4. \A t \in Tickers : Hands(t)
  BY DEF Init, Hands
<1>5. Apart
  BY DEF Init, Apart
<1> QED
  BY <1>2, <1>3, <1>4, <1>5 DEF SchedulerInv, ApartInv

-----------------------------------------------------------------------------
(* Each step. *)

LEMMA Registered ==
  ASSUME SchedulerInv, NEW j \in Jobs, Register(j)
  PROVE  SchedulerInv' /\ (ApartInv => ApartInv')
<1>1. PICK s \in Schedules :
        /\ InitialFireAt(s, clock) # None
        /\ jobs' = [jobs EXCEPT ![j] = [schedule |-> s, born |-> clock, next |-> InitialFireAt(s, clock)]]
  BY DEF Register
<1> DEFINE next == InitialFireAt(s, clock)
           job == [schedule |-> s, born |-> clock, next |-> next]
<1>2. clock \in 0 .. MaxTime
  BY DEF SchedulerInv, TypeOK
<1>3. next \in OccursAt(s, clock) /\ \A x \in OccursAt(s, clock) : next <= x
  BY <1>1, <1>2, FirstOccurrence
<1>4. /\ OccursAt(s, clock) \subseteq Times /\ OccursAt(s, clock) \subseteq Nat
      /\ clock \in Times
  BY <1>2, OccursTimes, Constants
<1> HIDE DEF next
<1>5. job \in Job /\ job # None /\ job.schedule = s /\ job.born = clock /\ job.next = next
  BY <1>3, <1>4, NoneApart DEF Job
<1> HIDE DEF job
<1>6. /\ j \notin drawn /\ drawn' = drawn \cup {j}
      /\ UNCHANGED <<clock, pc, now, due, runs, drops, alone>>
      /\ jobs'[j] = job
      /\ \A k \in Jobs \ {j} : jobs'[k] = jobs[k]
      /\ jobs' \in [Jobs -> Job \cup {None}]
  BY <1>1, <1>5 DEF Register, history, job, next, SchedulerInv, TypeOK
<1>7. TypeOK'
  BY <1>6 DEF SchedulerInv, TypeOK
<1>8. \A x \in OccursAt(s, clock) : runs[j][x] = 0 /\ ~(x < next)
  BY <1>3, <1>4, <1>6 DEF SchedulerInv, Stands
<1>9. ASSUME NEW k \in Jobs PROVE Stands(k)' /\ Complete(k)'
  <2>1. CASE k = j
    BY <1>2, <1>3, <1>5, <1>6, <1>8, <2>1 DEF Stands, Complete
  <2>2. CASE k # j
    BY <1>6, <2>2 DEF SchedulerInv, Stands, Complete
  <2> QED
    BY <2>1, <2>2
<1>10. ASSUME NEW t \in Tickers PROVE Hands(t)' /\ (due[t] # None => due[t].id \in Jobs \ {j})
  <2>1. Hands(t) /\ (due[t] # None => due[t].id \in Jobs \ {j})
    BY <1>6, HandTyped DEF SchedulerInv, Hands
  <2> QED
    BY <1>6, <2>1 DEF Hands
<1>11. ASSUME ApartInv PROVE ApartInv'
  <2>1. Apart'
    BY <1>6, <1>10, <1>11 DEF ApartInv, Apart
  <2>2. ASSUME NEW k \in Jobs PROVE Once(k)'
    <3>1. CASE k = j
      <4>1. \A x : InHand(j, x)' = {}
        BY <1>6, <1>10 DEF InHand
      <4>2. \A x : Cardinality(InHand(j, x)') = 0
        BY <4>1, FS_EmptySet
      <4> QED
        BY <1>5, <1>6, <1>8, <3>1, <4>2 DEF Once
    <3>2. CASE k # j
      <4>1. \A x : InHand(k, x)' = InHand(k, x)
        BY <1>6 DEF InHand
      <4> QED
        BY <1>6, <1>11, <3>2, <4>1 DEF ApartInv, Once
    <3> QED
      BY <3>1, <3>2
  <2> QED
    BY <2>1, <2>2 DEF ApartInv
<1> QED
  BY <1>7, <1>9, <1>10, <1>11 DEF SchedulerInv

LEMMA Removed ==
  ASSUME SchedulerInv, NEW j \in Jobs, RemoveJob(j)
  PROVE  SchedulerInv' /\ (ApartInv => ApartInv')
<1>1. /\ UNCHANGED <<clock, drawn, pc, now, due, runs, drops, alone>>
      /\ jobs'[j] = None /\ \A k \in Jobs \ {j} : jobs'[k] = jobs[k]
      /\ jobs' \in [Jobs -> Job \cup {None}]
  BY DEF RemoveJob, history, SchedulerInv, TypeOK
<1>2. TypeOK'
  BY <1>1 DEF SchedulerInv, TypeOK
<1>3. \A k \in Jobs : jobs'[k] # None => jobs'[k] = jobs[k]
  BY <1>1
<1>4. ASSUME NEW k \in Jobs PROVE Stands(k)' /\ Complete(k)' /\ (Once(k) => Once(k)')
  <2>1. \A x : InHand(k, x)' = InHand(k, x)
    BY <1>1 DEF InHand
  <2> QED
    BY <1>1, <1>3, <2>1 DEF SchedulerInv, Stands, Complete, Once
<1>5. ASSUME NEW t \in Tickers PROVE Hands(t)'
  BY <1>1, <1>3, HandTyped DEF SchedulerInv, Hands
<1>6. Apart => Apart'
  BY <1>1, <1>3, HandTyped DEF SchedulerInv, Apart
<1> QED
  BY <1>2, <1>4, <1>5, <1>6 DEF SchedulerInv, ApartInv

\* A step that changes no job and no count, and what no tick has in hand but t, which has nothing.
LEMMA HandEmptied ==
  ASSUME SchedulerInv, NEW t \in Tickers, UNCHANGED <<clock, jobs, drawn, runs>>,
         due' = [due EXCEPT ![t] = None], pc'[t] # "handler",
         pc' \in [Tickers -> {"idle", "choose", "handler"}], now' \in [Tickers -> 0 .. MaxTime],
         \A u \in Tickers \ {t} : pc'[u] = pc[u],
         drops' \in 0 .. MaxDrops, alone' \in BOOLEAN
  PROVE  SchedulerInv'
<1>1. /\ due' \in [Tickers -> Snapshot \cup {None}]
      /\ due'[t] = None /\ \A u \in Tickers \ {t} : due'[u] = due[u]
  BY DEF SchedulerInv, TypeOK
<1>2. TypeOK'
  BY <1>1 DEF SchedulerInv, TypeOK
<1>3. ASSUME NEW k \in Jobs PROVE Stands(k)' /\ Complete(k)'
  BY DEF SchedulerInv, Stands, Complete
<1>4. ASSUME NEW u \in Tickers PROVE Hands(u)'
  BY <1>1 DEF SchedulerInv, Hands
<1> QED
  BY <1>2, <1>3, <1>4 DEF SchedulerInv

LEMMA TickBegins ==
  ASSUME SchedulerInv, NEW t \in Tickers, BeginTick(t)
  PROVE  SchedulerInv' /\ (ApartInv => ApartInv')
<1>1. /\ due[t] = None /\ UNCHANGED <<clock, jobs, drawn, due, runs, drops>>
      /\ pc'[t] = "choose" /\ \A u \in Tickers \ {t} : pc'[u] = pc[u]
      /\ pc' \in [Tickers -> {"idle", "choose", "handler"}]
      /\ now' \in [Tickers -> 0 .. MaxTime]
      /\ alone' = (alone /\ \A u \in Tickers : pc[u] = "idle")
  BY DEF BeginTick, SchedulerInv, TypeOK, Hands
<1>2. due' = [due EXCEPT ![t] = None]
  BY <1>1 DEF SchedulerInv, TypeOK
<1>3. SchedulerInv'
  BY <1>1, <1>2, HandEmptied DEF SchedulerInv, TypeOK
<1>4. ASSUME ApartInv PROVE ApartInv'
  <2>1. Apart'
    BY <1>1, <1>4 DEF ApartInv, Apart
  <2>2. ASSUME NEW k \in Jobs PROVE Once(k)'
    <3>1. \A x : InHand(k, x)' = InHand(k, x)
      BY <1>1 DEF InHand
    <3>2. alone' => alone
      BY <1>1
    <3> QED
      BY <1>1, <1>4, <3>1, <3>2 DEF ApartInv, Once
  <2> QED
    BY <2>1, <2>2 DEF ApartInv
<1> QED
  BY <1>3, <1>4

LEMMA TickEnds ==
  ASSUME SchedulerInv, NEW t \in Tickers, NoneDue(t) \/ Cancel(t)
  PROVE  SchedulerInv' /\ (ApartInv => ApartInv')
<1>1. /\ UNCHANGED <<clock, jobs, drawn, runs>>
      /\ pc' \in [Tickers -> {"idle", "choose", "handler"}] /\ now' \in [Tickers -> 0 .. MaxTime]
      /\ due' = [due EXCEPT ![t] = None]
      /\ pc'[t] = "idle" /\ \A u \in Tickers \ {t} : pc'[u] = pc[u]
  BY SchedulerAssumption DEF NoneDue, Cancel, Return, SchedulerInv, TypeOK
<1>2. drops' \in 0 .. MaxDrops /\ alone' \in BOOLEAN
  <2>1. CASE NoneDue(t)
    BY <2>1 DEF NoneDue, history, SchedulerInv, TypeOK
  <2>2. CASE Cancel(t)
    <3>1. drops \in Nat /\ MaxDrops \in Nat /\ drops < MaxDrops /\ drops' = drops + 1 /\ alone' = FALSE
      BY <2>2, SchedulerAssumption DEF Cancel, SchedulerInv, TypeOK
    <3>2. drops' \in 0 .. MaxDrops
      BY <3>1
    <3> QED
      BY <3>1, <3>2
  <2> QED
    BY <2>1, <2>2
<1>3. SchedulerInv'
  BY <1>1, <1>2, HandEmptied
<1>4. ASSUME ApartInv, alone' PROVE NoneDue(t) /\ alone /\ due' = due
  <2>1. NoneDue(t) /\ alone /\ due[t] = None
    BY <1>4 DEF NoneDue, Cancel, history, SchedulerInv, Hands
  <2> QED
    BY <1>1, <2>1 DEF SchedulerInv, TypeOK
<1>5. ASSUME ApartInv PROVE ApartInv'
  <2>1. Apart'
    BY <1>1, <1>4, <1>5 DEF ApartInv, Apart
  <2>2. ASSUME NEW k \in Jobs, alone' PROVE Once(k)'
    <3>1. alone /\ \A x : InHand(k, x)' = InHand(k, x)
      BY <1>4, <1>5, <2>2 DEF InHand
    <3> QED
      BY <1>1, <1>5, <3>1 DEF ApartInv, Once
  <2> QED
    BY <2>1, <2>2 DEF ApartInv, Once
<1> QED
  BY <1>3, <1>5

LEMMA JobChosen ==
  ASSUME SchedulerInv, NEW t \in Tickers, Choose(t)
  PROVE  SchedulerInv' /\ (ApartInv => ApartInv')
<1>1. PICK j \in Earliest(t) :
        /\ due' = [due EXCEPT ![t] = [id |-> j, schedule |-> jobs[j].schedule, at |-> jobs[j].next]]
        /\ runs' = [runs EXCEPT ![j][jobs[j].next] = Min({@ + 1, 2})]
  BY DEF Choose
<1> DEFINE at == jobs[j].next
           hand == [id |-> j, schedule |-> jobs[j].schedule, at |-> at]
           count == Min({runs[j][at] + 1, 2})
<1>2. j \in Jobs /\ jobs[j] # None /\ at <= now[t]
  BY DEF Earliest, Due
<1>3. /\ at \in Times /\ at \in Nat /\ jobs[j].schedule \in Schedules
      /\ at \in OccursAt(jobs[j].schedule, jobs[j].born)
      /\ OccursAt(jobs[j].schedule, jobs[j].born) \subseteq Times
      /\ OccursAt(jobs[j].schedule, jobs[j].born) \subseteq Nat
      /\ j \in drawn
  BY <1>2, JobTyped DEF SchedulerInv, Stands
<1>4. at <= MaxTime
  <2>1. now[t] \in 0 .. MaxTime /\ MaxTime \in Nat
    BY Constants DEF SchedulerInv, TypeOK
  <2> QED
    BY <1>2, <1>3, <2>1
<1>5. runs[j][at] \in 0 .. 2 /\ count \in 1 .. 2 /\ (runs[j][at] = 0 => count = 1)
  <2>1. runs[j][at] \in 0 .. 2
    BY <1>2, <1>3 DEF SchedulerInv, TypeOK
  <2> QED
    BY <2>1, Counts
<1> HIDE DEF count
<1>6. /\ \A k \in Jobs : \A x \in Times : runs'[k][x] = IF k = j /\ x = at THEN count ELSE runs[k][x]
      /\ runs' \in [Jobs -> [Times -> 0 .. 2]]
  <2>1. runs' = [runs EXCEPT ![j] = [runs[j] EXCEPT ![at] = count]]
    BY <1>1 DEF count
  <2>2. runs \in [Jobs -> [Times -> 0 .. 2]] /\ count \in 0 .. 2
    BY <1>5 DEF SchedulerInv, TypeOK
  <2> QED
    BY <1>2, <1>3, <2>1, <2>2
<1>7. \A k \in Jobs : \A x \in Times : runs[k][x] > 0 => runs'[k][x] > 0
  BY <1>5, <1>6
<1> HIDE DEF at
<1>8. hand \in Snapshot /\ hand # None /\ hand.id = j /\ hand.schedule = jobs[j].schedule /\ hand.at = at
  BY <1>2, <1>3, NoneApart DEF Snapshot
<1> HIDE DEF hand
<1>9. /\ UNCHANGED <<clock, jobs, drawn, now, drops, alone>>
      /\ pc[t] = "choose" /\ pc'[t] = "handler" /\ \A u \in Tickers \ {t} : pc'[u] = pc[u]
      /\ pc' \in [Tickers -> {"idle", "choose", "handler"}]
      /\ due'[t] = hand /\ \A u \in Tickers \ {t} : due'[u] = due[u]
      /\ due' \in [Tickers -> Snapshot \cup {None}]
  BY <1>1, <1>8 DEF Choose, history, hand, at, SchedulerInv, TypeOK
<1>10. TypeOK'
  BY <1>6, <1>9 DEF SchedulerInv, TypeOK
<1>11. ASSUME NEW k \in Jobs PROVE Stands(k)' /\ Complete(k)'
  <2>1. jobs[k] # None => OccursAt(jobs[k].schedule, jobs[k].born) \subseteq Times
    BY JobTyped
  <2>2. Complete(k)'
    BY <1>7, <1>9, <2>1 DEF SchedulerInv, Complete
  <2>3. Stands(k)'
    BY <1>3, <1>6, <1>9 DEF SchedulerInv, Stands
  <2> QED
    BY <2>2, <2>3
<1>12. ASSUME NEW u \in Tickers PROVE Hands(u)'
  <2>1. CASE u = t
    <3>1. \A x \in OccursAt(jobs[j].schedule, jobs[j].born) : x <= at => runs'[j][x] > 0
      <4>1. SUFFICES ASSUME NEW x \in OccursAt(jobs[j].schedule, jobs[j].born), x <= at
                     PROVE  runs'[j][x] > 0
        OBVIOUS
      <4>2. x \in Times /\ x \in Nat
        BY <1>3
      <4>3. CASE x < at
        <5>1. runs[j][x] > 0
          BY <1>2, <4>3 DEF SchedulerInv, Complete, at
        <5> QED
          BY <1>2, <1>7, <4>2, <5>1
      <4>4. CASE x = at
        BY <1>2, <1>5, <1>6, <4>2, <4>4
      <4> QED
        BY <1>3, <4>1, <4>2, <4>3, <4>4
    <3> QED
      BY <1>2, <1>3, <1>4, <1>8, <1>9, <2>1, <3>1 DEF Hands
  <2>2. CASE u # t
    <3>1. CASE due[u] = None \/ jobs[due[u].id] = None
      BY <1>9, <2>2, <3>1 DEF SchedulerInv, Hands
    <3>2. CASE due[u] # None /\ jobs[due[u].id] # None
      <4>1. due[u].id \in Jobs /\ OccursAt(jobs[due[u].id].schedule, jobs[due[u].id].born) \subseteq Times
        BY <3>2, HandTyped, JobTyped DEF SchedulerInv
      <4> QED
        BY <1>7, <1>9, <2>2, <3>2, <4>1 DEF SchedulerInv, Hands
    <3> QED
      BY <3>1, <3>2
  <2> QED
    BY <2>1, <2>2
<1>13. ASSUME ApartInv, alone PROVE Apart' /\ \A k \in Jobs : Once(k)'
  <2>1. \A u \in Tickers : due[u] = None
    BY <1>9, <1>13 DEF SchedulerInv, Hands, ApartInv, Apart
  <2>2. Apart'
    BY <1>8, <1>9, <1>13, <2>1 DEF ApartInv, Apart, at
  <2>3. ASSUME NEW k \in Jobs PROVE Once(k)'
    <3>1. \A x : InHand(k, x) = {} /\ Cardinality(InHand(k, x)) = 0
      BY <2>1, FS_EmptySet DEF InHand
    <3>9. \A u \in Tickers : due'[u] # None => u = t /\ due'[u].id = j /\ due'[u].at = at
      BY <1>8, <1>9, <2>1
    <3>2. \A x : (k # j \/ x # at) => InHand(k, x)' = {}
      BY <3>9 DEF InHand
    <3>3. \A x : x = at => InHand(j, x)' = {t}
      <4>1. \A x : InHand(j, x)' = {u \in Tickers : due'[u] # None /\ due'[u].id = j /\ due'[u].at = x}
        BY DEF InHand
      <4>2. due'[t] # None
        BY <1>8, <1>9
      <4> QED
        BY <1>8, <1>9, <3>9, <4>1, <4>2
    <3>4. /\ \A x : (k # j \/ x # at) => Cardinality(InHand(k, x)') = 0
          /\ \A x : x = at => Cardinality(InHand(j, x)') = 1
      BY <3>2, <3>3, FS_EmptySet, FS_Singleton
    <3>5. jobs[k] # None => OccursAt(jobs[k].schedule, jobs[k].born) \subseteq Times
                            /\ OccursAt(jobs[k].schedule, jobs[k].born) \subseteq Nat
      BY JobTyped
    <3>6. Once(k)
      BY <1>13 DEF ApartInv
    <3>7. CASE k # j
      BY <1>6, <1>9, <1>13, <3>1, <3>4, <3>5, <3>6, <3>7 DEF Once
    <3>8. CASE k = j
      <4>1. runs[j][at] = 0
        <5>1. ~(at < at)
          BY <1>3
        <5> QED
          BY <1>2, <1>3, <1>13, <3>1, <3>6, <3>8, <5>1 DEF Once, at
      <4>2. count = 1
        BY <1>5, <4>1
      <4>3. SUFFICES ASSUME NEW x \in OccursAt(jobs[j].schedule, jobs[j].born)
                     PROVE  /\ x < at => runs'[j][x] = 1
                            /\ ~(x < at) => runs'[j][x] = Cardinality(InHand(j, x)')
        BY <1>9, <3>8 DEF Once, at
      <4>4. x \in Times /\ x \in Nat
        BY <1>3
      <4>5. CASE x = at
        <5>1. runs'[j][at] = 1
          BY <1>2, <1>3, <1>6, <4>2
        <5>2. ~(at < at)
          BY <1>3
        <5> QED
          BY <3>4, <4>5, <5>1, <5>2
      <4>6. CASE x # at
        <5>1. runs'[j][x] = runs[j][x] /\ Cardinality(InHand(j, x)') = 0
          BY <1>2, <1>6, <3>4, <3>8, <4>4, <4>6
        <5>2. (x < at => runs[j][x] = 1) /\ (~(x < at) => runs[j][x] = 0)
          BY <1>2, <1>13, <3>1, <3>6, <3>8 DEF Once, at
        <5> QED
          BY <5>1, <5>2
      <4> QED
        BY <4>5, <4>6
    <3> QED
      BY <3>7, <3>8
  <2> QED
    BY <2>2, <2>3
<1>14. ApartInv => ApartInv'
  BY <1>9, <1>13 DEF ApartInv, Apart, Once
<1> QED
  BY <1>10, <1>11, <1>12, <1>14 DEF SchedulerInv

\* What Reschedule makes of the jobs: that of the tick moves on or goes, the others stay.
LEMMA Rescheduled ==
  ASSUME SchedulerInv, NEW t \in Tickers, due[t] # None, Reschedule(t)
  PROVE  /\ \A k \in Jobs \ {due[t].id} : jobs'[k] = jobs[k]
         /\ jobs'[due[t].id] # None =>
              /\ jobs[due[t].id] # None /\ NextAfter(due[t].schedule, due[t].at) # None
              /\ jobs'[due[t].id].schedule = jobs[due[t].id].schedule
              /\ jobs'[due[t].id].born = jobs[due[t].id].born
              /\ jobs'[due[t].id].next = NextAfter(due[t].schedule, due[t].at)
              /\ jobs'[due[t].id].next \in OccursAt(jobs[due[t].id].schedule, jobs[due[t].id].born)
              /\ \A x \in OccursAt(jobs[due[t].id].schedule, jobs[due[t].id].born) :
                   x < jobs'[due[t].id].next => x <= due[t].at
              /\ Moves(jobs[due[t].id].schedule) => due[t].at < jobs'[due[t].id].next
         /\ jobs' \in [Jobs -> Job \cup {None}]
<1> DEFINE s == due[t]
           j == s.id
           next == NextAfter(s.schedule, s.at)
<1>1. s \in Snapshot /\ j \in Jobs /\ s.schedule \in Schedules /\ s.at \in Nat /\ s.at <= MaxTime
  BY HandTyped DEF SchedulerInv, Hands
<1>2. jobs' = [jobs EXCEPT ![j] = IF jobs[j] = None \/ next = None THEN None ELSE [jobs[j] EXCEPT !.next = next]]
  BY DEF Reschedule
<1>3. jobs \in [Jobs -> Job \cup {None}]
  BY DEF SchedulerInv, TypeOK
<1>4. CASE jobs[j] = None \/ next = None
  <2>1. jobs' = [jobs EXCEPT ![j] = None]
    BY <1>2, <1>4
  <2> HIDE DEF next
  <2> QED
    BY <1>1, <1>3, <2>1
<1>5. CASE jobs[j] # None /\ next # None
  <2> DEFINE moved == [jobs[j] EXCEPT !.next = next]
  <2>1. jobs' = [jobs EXCEPT ![j] = moved]
    BY <1>2, <1>5
  <2>2. /\ jobs[j] \in Job /\ jobs[j].born \in Times
        /\ OccursAt(jobs[j].schedule, jobs[j].born) \subseteq Times
    BY <1>1, <1>5, JobTyped
  <2>3. s.schedule = jobs[j].schedule /\ s.at \in OccursAt(jobs[j].schedule, jobs[j].born)
    BY <1>5 DEF SchedulerInv, Hands
  <2>4. /\ next \in OccursAt(jobs[j].schedule, jobs[j].born)
        /\ \A x \in OccursAt(jobs[j].schedule, jobs[j].born) : x < next => x <= s.at
        /\ Moves(jobs[j].schedule) => s.at < next
    BY <1>1, <1>5, <2>2, <2>3, NextOccurrence
  <2> HIDE DEF next
  <2>5. moved \in Job /\ moved.schedule = jobs[j].schedule /\ moved.born = jobs[j].born /\ moved.next = next
    BY <2>2, <2>4 DEF Job
  <2> HIDE DEF moved
  <2>6. jobs'[j] = moved /\ jobs' \in [Jobs -> Job \cup {None}] /\ \A k \in Jobs \ {j} : jobs'[k] = jobs[k]
    BY <1>1, <1>3, <2>1, <2>5
  <2> QED
    BY <1>5, <2>4, <2>5, <2>6 DEF next
<1> QED
  BY <1>4, <1>5

LEMMA HandlerSettled ==
  ASSUME SchedulerInv, NEW t \in Tickers, Settle(t)
  PROVE  SchedulerInv' /\ ((\A s \in Schedules : Moves(s)) /\ ApartInv => ApartInv')
<1> DEFINE j == due[t].id
           at == due[t].at
<1>1. /\ pc[t] = "handler" /\ due[t] # None /\ Reschedule(t)
      /\ UNCHANGED <<clock, drawn, runs, drops, alone>>
      /\ due' = [due EXCEPT ![t] = None]
      /\ pc' \in [Tickers -> {"idle", "choose", "handler"}] /\ now' \in [Tickers -> 0 .. MaxTime]
      /\ pc'[t] \in {"idle", "choose"} /\ \A u \in Tickers \ {t} : pc'[u] = pc[u]
  BY SchedulerAssumption DEF Settle, Return, history, SchedulerInv, TypeOK, Hands
<1>2. j \in Jobs /\ at \in Nat /\ j \in drawn
  BY <1>1, HandTyped DEF SchedulerInv, Hands
<1>3. /\ due' \in [Tickers -> Snapshot \cup {None}]
      /\ due'[t] = None /\ \A u \in Tickers \ {t} : due'[u] = due[u]
  BY <1>1 DEF SchedulerInv, TypeOK
<1>4. /\ \A k \in Jobs \ {j} : jobs'[k] = jobs[k]
      /\ jobs' \in [Jobs -> Job \cup {None}]
      /\ jobs'[j] # None =>
           /\ jobs[j] # None
           /\ jobs'[j].schedule = jobs[j].schedule /\ jobs'[j].born = jobs[j].born
           /\ jobs'[j].next \in OccursAt(jobs[j].schedule, jobs[j].born)
           /\ \A x \in OccursAt(jobs[j].schedule, jobs[j].born) : x < jobs'[j].next => x <= at
           /\ Moves(jobs[j].schedule) => at < jobs'[j].next
  BY <1>1, Rescheduled
<1>5. \A k \in Jobs : jobs'[k] # None =>
        jobs[k] # None /\ jobs'[k].schedule = jobs[k].schedule /\ jobs'[k].born = jobs[k].born
  BY <1>4
<1>6. jobs[j] # None =>
        /\ at \in OccursAt(jobs[j].schedule, jobs[j].born)
        /\ \A x \in OccursAt(jobs[j].schedule, jobs[j].born) : x <= at => runs[j][x] > 0
  BY <1>1 DEF SchedulerInv, Hands
<1> HIDE DEF j, at
<1>7. TypeOK'
  BY <1>1, <1>3, <1>4 DEF SchedulerInv, TypeOK
<1>8. ASSUME NEW k \in Jobs PROVE Stands(k)' /\ Complete(k)'
  <2>1. CASE k = j
    <3>1. Stands(j) /\ Complete(j)
      BY <1>2 DEF SchedulerInv
    <3> QED
      BY <1>1, <1>2, <1>4, <1>6, <2>1, <3>1 DEF Stands, Complete
  <2>2. CASE k # j
    BY <1>1, <1>4, <2>2 DEF SchedulerInv, Stands, Complete
  <2> QED
    BY <2>1, <2>2
<1>9. ASSUME NEW u \in Tickers PROVE Hands(u)'
  <2>1. CASE u = t
    BY <1>1, <1>3, <2>1 DEF Hands
  <2>2. CASE u # t
    <3>1. Hands(u) /\ due'[u] = due[u] /\ pc'[u] = pc[u] /\ UNCHANGED <<drawn, runs>>
          /\ (due[u] # None => due[u].id \in Jobs)
      BY <1>1, <1>3, <2>2, HandTyped DEF SchedulerInv
    <3> QED
      BY <1>5, <3>1 DEF Hands
  <2> QED
    BY <2>1, <2>2
<1>10. ASSUME \A s \in Schedules : Moves(s), ApartInv, alone PROVE Apart' /\ \A k \in Jobs : Once(k)'
  <2>1. \A u \in Tickers : due'[u] = None /\ (u # t => due[u] = None)
    <3>1. ASSUME NEW u \in Tickers, u # t PROVE due[u] = None
      <4>1. pc[u] = "idle"
        BY <1>1, <1>10, <3>1 DEF ApartInv, Apart
      <4> QED
        BY <4>1 DEF SchedulerInv, Hands
    <3> QED
      BY <1>3, <3>1
  <2>2. Apart'
    BY <1>1, <1>10, <2>1 DEF ApartInv, Apart
  <2>3. \A k, x : InHand(k, x)' = {} /\ Cardinality(InHand(k, x)') = 0
    BY <2>1, FS_EmptySet DEF InHand
  <2>4. \A k, x : Cardinality(InHand(k, x)) = IF k = j /\ x = at THEN 1 ELSE 0
    <3>1. \A k, x : InHand(k, x) = IF k = j /\ x = at THEN {t} ELSE {}
      BY <1>1, <2>1 DEF InHand, j, at
    <3> QED
      BY <3>1, FS_EmptySet, FS_Singleton
  <2>5. ASSUME NEW k \in Jobs PROVE Once(k)'
    <3>1. Once(k)
      BY <1>10 DEF ApartInv
    <3>2. CASE k # j
      BY <1>1, <1>4, <1>10, <2>3, <2>4, <3>1, <3>2 DEF Once
    <3>3. CASE k = j
      <4>1. SUFFICES ASSUME jobs'[j] # None, NEW x \in OccursAt(jobs[j].schedule, jobs[j].born)
                     PROVE  /\ x < jobs'[j].next => runs[j][x] = 1
                            /\ ~(x < jobs'[j].next) => runs[j][x] = 0
        BY <1>1, <1>4, <2>3, <3>3 DEF Once
      <4>2. /\ at = jobs[j].next /\ jobs[j].schedule \in Schedules
            /\ x \in Nat /\ jobs'[j].next \in Nat
        BY <1>1, <1>2, <1>4, <1>10, <4>1, JobTyped DEF ApartInv, Apart, j, at
      <4>3. at < jobs'[j].next
        BY <1>4, <1>10, <4>1, <4>2
      <4>4. /\ x < at => runs[j][x] = 1
            /\ ~(x < at) => runs[j][x] = Cardinality(InHand(j, x))
        BY <1>4, <1>10, <3>1, <3>3, <4>1, <4>2 DEF Once
      <4>5. CASE x < at
        BY <1>2, <4>2, <4>3, <4>4, <4>5
      <4>6. CASE x = at
        BY <1>2, <2>4, <4>2, <4>3, <4>4, <4>6
      <4>7. CASE x > at
        <5>1. ~(x < at) /\ x # at /\ ~(x <= at)
          BY <1>2, <4>2, <4>7
        <5>2. runs[j][x] = 0
          BY <2>4, <4>4, <5>1
        <5>3. ~(x < jobs'[j].next)
          BY <1>4, <4>1, <5>1
        <5> QED
          BY <5>2, <5>3
      <4> QED
        BY <1>2, <4>2, <4>5, <4>6, <4>7
    <3> QED
      BY <3>2, <3>3
  <2> QED
    BY <2>2, <2>5
<1>11. (\A s \in Schedules : Moves(s)) /\ ApartInv => ApartInv'
  BY <1>1, <1>10 DEF ApartInv, Apart, Once
<1> QED
  BY <1>7, <1>8, <1>9, <1>11 DEF SchedulerInv

LEMMA SchedulerStep ==
  SchedulerInv /\ [Next]_vars =>
    SchedulerInv' /\ ((\A s \in Schedules : Moves(s)) /\ ApartInv => ApartInv')
<1> SUFFICES ASSUME SchedulerInv, [Next]_vars
             PROVE  SchedulerInv' /\ ((\A s \in Schedules : Moves(s)) /\ ApartInv => ApartInv')
  OBVIOUS
<1>1. ASSUME AdvanceClock \/ UNCHANGED vars PROVE SchedulerInv' /\ (ApartInv => ApartInv')
  <2>1. UNCHANGED <<jobs, drawn, pc, now, due, runs, drops, alone>>
    BY <1>1 DEF AdvanceClock, vars, history
  <2>2. clock' \in 0 .. MaxTime
    <3>1. clock \in 0 .. MaxTime /\ MaxTime \in Nat
      BY SchedulerAssumption DEF SchedulerInv, TypeOK
    <3> QED
      BY <1>1, <3>1 DEF AdvanceClock, vars
  <2>3. TypeOK'
    BY <2>1, <2>2 DEF SchedulerInv, TypeOK
  <2>4. \A k, x : InHand(k, x)' = InHand(k, x)
    BY <2>1 DEF InHand
  <2>5. ASSUME NEW k \in Jobs PROVE Stands(k)' /\ Complete(k)' /\ (Once(k) => Once(k)')
    BY <2>1, <2>4 DEF SchedulerInv, Stands, Complete, Once
  <2>6. ASSUME NEW t \in Tickers PROVE Hands(t)'
    BY <2>1 DEF SchedulerInv, Hands
  <2>7. Apart => Apart'
    BY <2>1 DEF Apart
  <2> QED
    BY <2>3, <2>5, <2>6, <2>7 DEF SchedulerInv, ApartInv
<1> QED
  BY <1>1, Registered, Removed, TickBegins, JobChosen, TickEnds, HandlerSettled DEF Next, Tick

-----------------------------------------------------------------------------
(* Theorems. *)

\* Every variable keeps its type: no fire time lies past the horizon.
THEOREM SchedulerTyped == Spec => []TypeOK
<1>1. SchedulerInv => TypeOK
  BY DEF SchedulerInv
<1> QED
  BY <1>1, SchedulerInitial, SchedulerStep, PTL DEF Spec

\* However ticks overlap, fail or are dropped, no job moves past a fire time that was not run.
THEOREM NothingIsSkipped == Spec => []NothingSkipped
<1>1. SchedulerInv => NothingSkipped
  BY OccursOfJob DEF SchedulerInv, Complete, NothingSkipped
<1> QED
  BY <1>1, SchedulerInitial, SchedulerStep, PTL DEF Spec

\* Unless an interval is zero, which only register_interval_at refuses, ticks that follow one
\* another run every fire time exactly once (lib.rs:476-507).
THEOREM EachRunOnce ==
  ASSUME \A s \in Schedules : Moves(s)
  PROVE  Spec => []OnceEach
<1>1. SchedulerInv /\ ApartInv => OnceEach
  <2>1. SchedulerInv => TypeOK /\ NothingSkipped
    BY OccursOfJob DEF SchedulerInv, Complete, NothingSkipped
  <2>2. SchedulerInv /\ ApartInv => ExactlyOnce
    <3>1. SUFFICES ASSUME SchedulerInv, ApartInv, alone, NEW j \in Jobs, jobs[j] # None,
                          NEW x \in Occurrences(jobs[j])
                   PROVE  runs[j][x] = IF x < jobs[j].next THEN 1 ELSE Cardinality(InHand(j, x))
      BY DEF ExactlyOnce
    <3>2. Once(j) /\ x \in OccursAt(jobs[j].schedule, jobs[j].born)
      BY <3>1, OccursOfJob DEF ApartInv
    <3> QED
      BY <3>1, <3>2 DEF Once
  <2> QED
    BY <2>1, <2>2 DEF OnceEach
<1>2. SchedulerInv /\ ApartInv /\ [Next]_vars => SchedulerInv' /\ ApartInv'
  BY SchedulerStep
<1> QED
  BY <1>1, <1>2, SchedulerInitial, PTL DEF Spec

\* A job that was removed or has finished is never put back, whatever a tick still has in hand.
THEOREM GoneStaysGone == Spec => GoneForGood
<1>1. SchedulerInv /\ [Next]_vars => [\A j \in drawn : jobs[j] = None => jobs'[j] = None]_vars
  <2>1. SUFFICES ASSUME SchedulerInv, Next, NEW j \in drawn, jobs[j] = None PROVE jobs'[j] = None
    OBVIOUS
  <2>2. j \in Jobs
    BY <2>1 DEF SchedulerInv, TypeOK
  <2>3. CASE \E k \in Jobs : Register(k)
    BY <2>1, <2>2, <2>3 DEF Register
  <2>4. CASE \E k \in Jobs : RemoveJob(k)
    BY <2>1, <2>2, <2>4 DEF RemoveJob, SchedulerInv, TypeOK
  <2>5. CASE \E t \in Tickers : Settle(t)
    <3>1. PICK t \in Tickers : Settle(t)
      BY <2>5
    <3>2. due[t] # None /\ Reschedule(t)
      BY <2>1, <3>1 DEF Settle, SchedulerInv, Hands
    <3>3. due[t].id \in Jobs
      BY <2>1, <3>2, HandTyped DEF SchedulerInv
    <3> QED
      BY <2>1, <2>2, <3>2, <3>3, Rescheduled
  <2>6. CASE AdvanceClock \/ \E t \in Tickers : BeginTick(t) \/ Choose(t) \/ NoneDue(t) \/ Cancel(t)
    BY <2>1, <2>6 DEF AdvanceClock, BeginTick, Choose, NoneDue, Cancel
  <2> QED
    BY <2>1, <2>3, <2>4, <2>5, <2>6 DEF Next, Tick
<1> QED
  BY <1>1, SchedulerInitial, SchedulerStep, PTL DEF Spec, GoneForGood
=============================================================================
