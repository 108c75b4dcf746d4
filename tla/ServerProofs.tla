---------------------------- MODULE ServerProofs ----------------------------
(* Proofs about Server, for any connections, threads, paths and configurations: the types, that  *)
(* no event is ever refused and the chart tells the outcome, and that handlers run only behind   *)
(* every layer of their request.                                                                 *)
EXTENDS Server, FiniteSetTheorems, SequenceTheorems, WellFoundedInduction, TLAPS

Charts == ChartStates \cup {"none", "refused"}
Jobs == {"none", "queued", "running", "done", "panicked"}

-----------------------------------------------------------------------------
(* The chart. *)

\* No state has two transitions for one event.
LEMMA ChartIsFunction ==
  \A t, u \in Transitions : t[1] = u[1] /\ t[2] = u[2] => t = u
BY DEF Transitions

LEMMA ChartSends == \A t \in Transitions : SendEvent(t[1], t[2]) = t[3]
<1>1. SUFFICES ASSUME NEW t \in Transitions PROVE SendEvent(t[1], t[2]) = t[3]
  OBVIOUS
<1>2. <<t[1], t[2]>> \in DOMAIN Target
  BY DEF Target
<1>3. Target[<<t[1], t[2]>>]
        = (CHOOSE u \in Transitions : <<u[1], u[2]>> = <<t[1], t[2]>>)[3]
  BY DEF Target
<1>4. (CHOOSE u \in Transitions : <<u[1], u[2]>> = <<t[1], t[2]>>) = t
  BY ChartIsFunction
<1> QED
  BY <1>2, <1>3, <1>4 DEF SendEvent

LEMMA ChartTargets == \A t \in Transitions : t[3] \in ChartStates
<1>1. {"received", "middleware_chain", "route_matching", "guard_chain", "interceptor_pre",
       "pipe_transform", "handler_execution", "interceptor_post", "error_handling",
       "sending_response", "done"} \subseteq ChartStates
  BY DEF ChartStates, Transitions
<1> QED
  BY <1>1 DEF Transitions

LEMMA SendType == \A s, e : SendEvent(s, e) \in ChartStates \cup {"refused"}
<1>1. SUFFICES ASSUME NEW s, NEW e, <<s, e>> \in DOMAIN Target
               PROVE SendEvent(s, e) \in ChartStates
  BY DEF SendEvent
<1>2. PICK t \in Transitions : <<t[1], t[2]>> = <<s, e>>
  BY <1>1 DEF Target
<1>3. s = t[1] /\ e = t[2]
  BY <1>2
<1> QED
  BY <1>2, <1>3, ChartSends, ChartTargets

\* The sends handle_request makes, from the states it makes them in.
LEMMA Sends ==
  /\ Drive("received", "request.parsed", "error.middleware") = "error_handling"
  /\ Drive("received", "request.parsed", "middleware.complete") = "route_matching"
  /\ SendEvent("route_matching", "route.matched") = "guard_chain"
  /\ SendEvent("route_matching", "route.not_found") = "error_handling"
  /\ SendEvent("route_matching", "route.method_not_allowed") = "error_handling"
  /\ SendEvent("guard_chain", "guard.denied") = "error_handling"
  /\ SendEvent("guard_chain", "error.guard") = "error_handling"
  /\ Drive("guard_chain", "guards.passed", "interceptors.pre.complete") = "pipe_transform"
  /\ SendEvent("pipe_transform", "pipes.complete") = "handler_execution"
  /\ SendEvent("pipe_transform", "error.pipe") = "error_handling"
  /\ SendEvent("handler_execution", "error.handler") = "error_handling"
  /\ SendEvent("handler_execution", "error.interceptor") = "error_handling"
  /\ Drive("handler_execution", "handler.complete", "error.interceptor_post") = "error_handling"
  /\ Finish("handler_execution") = "done"
<1> DEFINE After(t) == SendEvent(t[1], t[2]) = t[3]
<1>1. /\ After(<<"received", "request.parsed", "middleware_chain">>)
      /\ After(<<"middleware_chain", "error.middleware", "error_handling">>)
      /\ After(<<"middleware_chain", "middleware.complete", "route_matching">>)
      /\ After(<<"route_matching", "route.matched", "guard_chain">>)
      /\ After(<<"route_matching", "route.not_found", "error_handling">>)
      /\ After(<<"route_matching", "route.method_not_allowed", "error_handling">>)
      /\ After(<<"guard_chain", "guard.denied", "error_handling">>)
      /\ After(<<"guard_chain", "error.guard", "error_handling">>)
      /\ After(<<"guard_chain", "guards.passed", "interceptor_pre">>)
      /\ After(<<"interceptor_pre", "interceptors.pre.complete", "pipe_transform">>)
  <2> HIDE DEF After
  <2>1. \A t \in Transitions : After(t)
    BY ChartSends DEF After
  <2> QED
    BY <2>1 DEF Transitions
<1>2. /\ After(<<"pipe_transform", "pipes.complete", "handler_execution">>)
      /\ After(<<"pipe_transform", "error.pipe", "error_handling">>)
      /\ After(<<"handler_execution", "error.handler", "error_handling">>)
      /\ After(<<"handler_execution", "error.interceptor", "error_handling">>)
      /\ After(<<"handler_execution", "handler.complete", "interceptor_post">>)
      /\ After(<<"interceptor_post", "error.interceptor_post", "error_handling">>)
      /\ After(<<"interceptor_post", "interceptors.post.complete", "sending_response">>)
      /\ After(<<"sending_response", "response.sent", "done">>)
  <2> HIDE DEF After
  <2>1. \A t \in Transitions : After(t)
    BY ChartSends DEF After
  <2> QED
    BY <2>1 DEF Transitions
<1> QED
  BY <1>1, <1>2 DEF Drive, Finish

-----------------------------------------------------------------------------
(* Types. *)

LEMMA SetupType ==
  ASSUME TypeOK
  PROVE  /\ setup.requests \in [Conns -> Nat]
         /\ setup.global \in Nat /\ setup.module \in Nat /\ setup.routeModule \in Nat
         /\ setup.guards \in Nat /\ setup.pipes \in Nat /\ setup.interceptors \in Nat
BY ServerAssumption DEF TypeOK

\* A request that moves on, and one that is answered, keep the types.
LEMMA GoTyped ==
  ASSUME TypeOK, NEW c \in Conns, NEW place \in Places, NEW layer \in Nat, NEW s \in Charts,
         Go(c, place, layer, s),
         called' \in [Conns -> BOOLEAN], res' \in [Conns -> {"none", "ok", "err"}],
         DOMAIN job' = Conns, \A d \in Conns : job'[d] \in [1..setup.requests[d] -> Jobs]
  PROVE  TypeOK'
BY DEF TypeOK, Go, Charts, Jobs

LEMMA AnswerTyped ==
  ASSUME TypeOK, NEW c \in Conns, NEW kind \in Answers, NEW s \in Charts, Answer(c, kind, s),
         UNCHANGED <<called, job>>, res' \in [Conns -> {"none", "ok", "err"}]
  PROVE  TypeOK'
<1>1. "transition" \in Answers /\ "idle" \in Places
  BY DEF Answers, Places
<1> QED
  BY <1>1 DEF TypeOK, Answer, Charts, Jobs

LEMMA FiltersTyped ==
  ASSUME TypeOK, NEW c \in Conns, NEW s \in Charts, ToFilters(c, s), UNCHANGED <<called, res, job>>
  PROVE  TypeOK'
<1>1. CASE s = "refused"
  BY <1>1, AnswerTyped DEF ToFilters, TypeOK, Answers
<1>2. CASE s # "refused"
  <2>1. Go(c, "filter", 0, s) /\ "filter" \in Places /\ 0 \in Nat
    BY <1>2 DEF ToFilters, Places
  <2> QED
    BY <2>1, GoTyped DEF TypeOK, Jobs
<1> QED
  BY <1>1, <1>2

LEMMA DriveType ==
  /\ \A s, e : SendEvent(s, e) \in Charts
  /\ \A s, e, f : Drive(s, e, f) \in Charts
  /\ \A s : Finish(s) \in Charts
BY SendType DEF Charts, Drive, Finish

LEMMA SpawnTyped ==
  ASSUME TypeOK, NEW c \in Conns, NEW n, NEW j \in Jobs, job' = [job EXCEPT ![c][n] = j]
  PROVE  DOMAIN job' = Conns /\ \A d \in Conns : job'[d] \in [1..setup.requests[d] -> Jobs]
BY DEF TypeOK, Jobs

LEMMA TypeStep == TypeOK /\ [Next]_vars => TypeOK'
<1> SUFFICES ASSUME TypeOK, [Next]_vars PROVE TypeOK'
  OBVIOUS
<1> USE SetupType, DriveType
<1>j. DOMAIN job = Conns /\ \A d \in Conns : job[d] \in [1..setup.requests[d] -> Jobs]
  BY DEF TypeOK, Jobs
<1>1. ASSUME NEW c \in Conns, MatchRoute(c) PROVE TypeOK'
  <2> DEFINE parsed == Drive("received", "request.parsed", "middleware.complete")
  <2>1. CASE Go(c, "module", 1, SendEvent(parsed, "route.matched"))
    BY <1>1, <1>j, <2>1, GoTyped DEF MatchRoute, TypeOK, Places, MwStages
  <2>2. CASE Answer(c, "notFound", SendEvent(parsed, "route.not_found"))
    BY <1>1, <2>2, AnswerTyped DEF MatchRoute, TypeOK, Answers, Refusals
  <2>3. CASE Answer(c, "methodNotAllowed", SendEvent(parsed, "route.method_not_allowed"))
    BY <1>1, <2>3, AnswerTyped DEF MatchRoute, TypeOK, Answers, Refusals
  <2> QED
    BY <1>1, <2>1, <2>2, <2>3 DEF MatchRoute
<1>2. ASSUME NEW c \in Conns, NextSequence(c) PROVE TypeOK'
  <2>1. StageAfter[pc[c]] \in Places /\ chart[c] \in Charts /\ 1 \in Nat
    BY <1>2 DEF NextSequence, StageAfter, Places, MwStages, TypeOK, Charts
  <2> QED
    BY <1>2, <1>j, <2>1, GoTyped DEF NextSequence, TypeOK
<1>3. ASSUME NEW c \in Conns, GuardsPassed(c) PROVE TypeOK'
  <2> DEFINE s == Drive(chart[c], "guards.passed", "interceptors.pre.complete")
  <2>1. CASE s = "refused"
    BY <1>3, <2>1, AnswerTyped DEF GuardsPassed, TypeOK, Answers
  <2>2. CASE s # "refused"
    <3>1. Go(c, "pipe", 1, s) /\ s \in Charts /\ "pipe" \in Places
      BY <1>3, <2>2 DEF GuardsPassed, Places
    <3> QED
      BY <1>3, <1>j, <3>1, GoTyped DEF GuardsPassed, TypeOK
  <2> QED
    BY <2>1, <2>2
<1>4. ASSUME NEW c \in Conns, PipesPass(c) PROVE TypeOK'
  <2> DEFINE s == SendEvent(chart[c], "pipes.complete")
  <2>1. CASE s = "refused"
    BY <1>4, <2>1, AnswerTyped DEF PipesPass, TypeOK, Answers
  <2>2. CASE s # "refused"
    <3>1. Go(c, "run", 1, s) /\ s \in Charts /\ "run" \in Places
      BY <1>4, <2>2 DEF PipesPass, Places
    <3> QED
      BY <1>4, <1>j, <3>1, GoTyped DEF PipesPass, TypeOK
  <2> QED
    BY <2>1, <2>2
<1>5. ASSUME NEW c \in Conns, PipeFails(c) \/ GuardFails(c) \/ InterceptorFailed(c) PROVE TypeOK'
  BY <1>5, FiltersTyped DEF PipeFails, GuardFails, InterceptorFailed
<1>6. ASSUME NEW c \in Conns, RunDirect(c) \/ RunIntercepted(c) PROVE TypeOK'
  <2>1. chart[c] \in Charts /\ {"wait", "interceptor"} \subseteq Places /\ "queued" \in Jobs
    BY DEF TypeOK, Charts, Places, Jobs
  <2>2. CASE RunDirect(c)
    BY <1>j, <2>1, <2>2, GoTyped, SpawnTyped DEF RunDirect, Spawn, TypeOK
  <2>3. CASE RunIntercepted(c)
    BY <1>j, <2>1, <2>3, GoTyped DEF RunIntercepted, TypeOK
  <2> QED
    BY <1>6, <2>2, <2>3
<1>7. ASSUME NEW c \in Conns, HandlerReturns(c) PROVE TypeOK'
  <2>1. chart[c] \in Charts /\ "interceptor" \in Places
    BY DEF TypeOK, Charts, Places
  <2>2. CASE setup.interceptors > 0
    <3>1. /\ Go(c, "interceptor", setup.interceptors, chart[c]) /\ UNCHANGED <<called, job>>
          /\ res' \in [Conns -> {"none", "ok", "err"}]
      BY <1>7, <2>2, ZenonT(40) DEF HandlerReturns, TypeOK
    <3> QED
      BY <1>j, <2>1, <3>1, GoTyped DEF TypeOK
  <2>3. CASE ~(setup.interceptors > 0)
    <3>1. \E kind \in Answers, s \in Charts : Answer(c, kind, s)
      BY <1>7, <2>3 DEF HandlerReturns, Answers, Failures
    <3> QED
      BY <1>7, <2>3, <3>1, AnswerTyped, SMTT(30) DEF HandlerReturns, TypeOK
  <2> QED
    BY <2>2, <2>3
<1>8. ASSUME NEW c \in Conns, Completed(c) \/ InterceptorAnswered(c) \/ FilterEnds(c) PROVE TypeOK'
  <2>1. \E kind \in Answers, s \in Charts : Answer(c, kind, s)
    BY <1>8 DEF Completed, InterceptorAnswered, FilterEnds, Answers, Failures, TypeOK, Charts
  <2> QED
    BY <1>8, <2>1, AnswerTyped DEF Completed, InterceptorAnswered, FilterEnds, TypeOK
<1>9. ASSUME NEW c \in Conns, Accept(c) \/ Leave(c) \/ Panic(c) PROVE TypeOK'
  BY <1>9 DEF Accept, Leave, Panic, TypeOK, Places
<1>10. ASSUME NEW c \in Conns, Receive(c) PROVE TypeOK'
  BY <1>10, SMTT(30) DEF Receive, TypeOK, Places, Answers
<1>11. ASSUME NEW c \in Conns,
              Preflight(c) \/ RejectBody(c) \/ ShortCircuit(c) \/ GuardDenies(c) \/ Timeout(c)
       PROVE TypeOK'
  <2>1. \E kind \in Answers, s \in Charts : Answer(c, kind, s)
    BY <1>11 DEF Preflight, RejectBody, ShortCircuit, GuardDenies, Timeout, Answers, Refusals,
                 TypeOK, Charts
  <2> QED
    BY <1>11, <2>1, AnswerTyped DEF Preflight, RejectBody, ShortCircuit, GuardDenies, Timeout, TypeOK
<1>12. ASSUME NEW c \in Conns, CollectBody(c) \/ Forward(c) \/ GuardPasses(c) PROVE TypeOK'
  <2>1. \E place \in Places, layer \in Nat, s \in Charts : Go(c, place, layer, s)
    BY <1>12 DEF CollectBody, Forward, GuardPasses, Places, MwStages, TypeOK, Charts
  <2> QED
    BY <1>12, <1>j, <2>1, GoTyped DEF CollectBody, Forward, GuardPasses, TypeOK
<1>13. ASSUME NEW c \in Conns, CallNext(c) PROVE TypeOK'
  <2>1. chart[c] \in Charts /\ {"wait", "interceptor"} \subseteq Places /\ "queued" \in Jobs
    BY DEF TypeOK, Charts, Places, Jobs
  <2>2. CASE at[c] < setup.interceptors
    <3>1. Go(c, "interceptor", at[c] + 1, chart[c]) /\ at[c] + 1 \in Nat /\ UNCHANGED <<called, job, res>>
      BY <1>13, <2>2 DEF CallNext, TypeOK
    <3> QED
      BY <1>j, <2>1, <3>1, GoTyped DEF TypeOK
  <2>3. CASE ~(at[c] < setup.interceptors)
    <3>1. /\ Go(c, "wait", at[c], chart[c]) /\ at[c] \in Nat /\ UNCHANGED res
          /\ called' = [called EXCEPT ![c] = TRUE] /\ Spawn(c)
      BY <1>13, <2>3 DEF CallNext, TypeOK
    <3>2. called' \in [Conns -> BOOLEAN]
      BY <3>1 DEF TypeOK
    <3>3. DOMAIN job' = Conns /\ \A d \in Conns : job'[d] \in [1..setup.requests[d] -> Jobs]
      BY <2>1, <3>1, SpawnTyped DEF Spawn
    <3> QED
      BY <2>1, <3>1, <3>2, <3>3, GoTyped DEF TypeOK
  <2> QED
    BY <2>2, <2>3
<1>14. ASSUME NEW c \in Conns, Abandon(c) \/ InterceptorReturns(c) PROVE TypeOK'
  <2>1. \E place \in Places, layer \in Nat, s \in Charts : Go(c, place, layer, s)
    <3>1. chart[c] \in Charts /\ {"settle", "interceptor"} \subseteq Places /\ at[c] \in Nat
      BY DEF TypeOK, Charts, Places
    <3>2. CASE Abandon(c)
      <4>1. PICK k \in 1..setup.interceptors : Go(c, "interceptor", k, chart[c])
        BY <3>2 DEF Abandon
      <4> QED
        BY <3>1, <4>1
    <3>3. CASE InterceptorReturns(c)
      <4>1. CASE at[c] > 1
        <5>1. Go(c, "interceptor", at[c] - 1, chart[c]) /\ at[c] - 1 \in Nat
          BY <3>1, <3>3, <4>1 DEF InterceptorReturns
        <5> QED
          BY <3>1, <5>1
      <4>2. CASE ~(at[c] > 1)
        BY <3>1, <3>3, <4>2 DEF InterceptorReturns
      <4> QED
        BY <4>1, <4>2
    <3> QED
      BY <1>14, <3>2, <3>3
  <2>2. res' \in [Conns -> {"none", "ok", "err"}] /\ UNCHANGED <<called, job>>
    BY <1>14 DEF Abandon, InterceptorReturns, TypeOK
  <2> QED
    BY <1>j, <2>1, <2>2, GoTyped DEF TypeOK
<1>15. ASSUME NEW c \in Conns, NEW n \in DOMAIN job[c], JobStarts(c, n) \/ JobEnds(c, n) PROVE TypeOK'
  <2>1. \E j \in Jobs : job' = [job EXCEPT ![c][n] = j]
    BY <1>15 DEF JobStarts, JobEnds, Jobs
  <2>2. DOMAIN job' = Conns /\ \A d \in Conns : job'[d] \in [1..setup.requests[d] -> Jobs]
    BY <2>1, SpawnTyped
  <2> QED
    BY <1>15, <2>2 DEF JobStarts, JobEnds, TypeOK, Jobs
<1>16. CASE AcceptFails \/ Shutdown \/ Return \/ Stop \/ UNCHANGED vars
  BY <1>16 DEF AcceptFails, Shutdown, Return, Stop, vars, TypeOK, Places
<1> QED
  BY <1>1, <1>2, <1>3, <1>4, <1>5, <1>6, <1>7, <1>8, <1>9, <1>10, <1>11, <1>12, <1>13, <1>14,
     <1>15, <1>16
  DEF Next, ServerStep, OtherStep

LEMMA TypeInit == Init => TypeOK
<1>1. (CHOOSE p \in Paths : TRUE) \in Paths
  BY ServerAssumption
<1> QED
  BY <1>1, ServerAssumption DEF Init, TypeOK, Places, Answers

\* Every variable of the server keeps its type: handle_request leaves no connection in a place
\* that does not exist.
THEOREM ServerTyped == Spec => []TypeOK
BY TypeInit, TypeStep, PTL DEF Spec

-----------------------------------------------------------------------------
(* Steps of one connection leave the others alone. *)

Only(c) ==
  /\ setup' = setup
  /\ \A d \in Conns \ {c} :
       /\ pc'[d] = pc[d] /\ at'[d] = at[d] /\ path'[d] = path[d] /\ chart'[d] = chart[d]
       /\ called'[d] = called[d] /\ res'[d] = res[d] /\ answer'[d] = answer[d]
       /\ sent'[d] = sent[d] /\ job'[d] = job[d] /\ trail'[d] = trail[d]

\* `trail` is a history without a type of its own; it has an entry per connection.
TypeInv == TypeOK /\ DOMAIN trail = Conns

ConnStep(c) ==
  \/ ServerStep(c) \/ OtherStep(c) \/ Timeout(c)
  \/ \E n \in DOMAIN job[c] : JobStarts(c, n) \/ JobEnds(c, n)

LEMMA StepIsLocal ==
  ASSUME TypeOK, DOMAIN trail = Conns, NEW c \in Conns, ConnStep(c)
  PROVE  Only(c) /\ DOMAIN trail' = Conns
<1> USE DEF TypeOK, Only
<1>1. CASE MatchRoute(c) \/ NextSequence(c) \/ GuardsPassed(c) \/ PipesPass(c)
  BY <1>1 DEF MatchRoute, NextSequence, GuardsPassed, PipesPass, Go, Answer
<1>2. CASE PipeFails(c) \/ GuardFails(c) \/ InterceptorFailed(c)
  BY <1>2 DEF PipeFails, GuardFails, InterceptorFailed, ToFilters, Go, Answer
<1>3. CASE RunDirect(c) \/ RunIntercepted(c)
  BY <1>3 DEF RunDirect, RunIntercepted, Spawn, Go
<1>4. CASE HandlerReturns(c)
  BY <1>4 DEF HandlerReturns, Go, Answer
<1>5. CASE Completed(c) \/ InterceptorAnswered(c) \/ FilterEnds(c)
  BY <1>5 DEF Completed, InterceptorAnswered, FilterEnds, Answer
<1>6. CASE Accept(c) \/ Leave(c) \/ Panic(c) \/ Receive(c)
  BY <1>6 DEF Accept, Leave, Panic, Receive
<1>7. CASE Preflight(c) \/ RejectBody(c) \/ ShortCircuit(c) \/ GuardDenies(c) \/ Timeout(c)
  BY <1>7 DEF Preflight, RejectBody, ShortCircuit, GuardDenies, Timeout, Answer
<1>8. CASE CollectBody(c) \/ Forward(c) \/ GuardPasses(c)
  BY <1>8 DEF CollectBody, Forward, GuardPasses, Passed, Go
<1>9. CASE CallNext(c)
  BY <1>9 DEF CallNext, Passed, Spawn, Go
<1>10. CASE Abandon(c) \/ InterceptorReturns(c)
  BY <1>10 DEF Abandon, InterceptorReturns, Go
<1>11. CASE \E n \in DOMAIN job[c] : JobStarts(c, n) \/ JobEnds(c, n)
  BY <1>11 DEF JobStarts, JobEnds
<1> QED
  BY <1>1, <1>2, <1>3, <1>4, <1>5, <1>6, <1>7, <1>8, <1>9, <1>10, <1>11
  DEF ConnStep, ServerStep, OtherStep

-----------------------------------------------------------------------------
(* The chart and the outcome. *)

\* The handler of the current request has been handed to the pool.
Begun(c) == sent[c] \in DOMAIN job[c] /\ job[c][sent[c]] # "none"

\* The place of a request determines the state of its engine.
InStep(c) ==
  /\ pc[c] \in {"body", "global"} => chart[c] = "none"
  /\ pc[c] \in {"module", "routeModule", "route", "guard"} => chart[c] = "guard_chain"
  /\ pc[c] = "pipe" => chart[c] = "pipe_transform"
  /\ pc[c] \in {"run", "interceptor", "wait", "settle"} => chart[c] = "handler_execution"
  /\ pc[c] = "filter" => chart[c] = "error_handling"
  /\ Busy(c) => answer[c] = "none" /\ sent[c] \in DOMAIN job[c]

Tells(c) ==
  /\ chart[c] # "refused" /\ answer[c] # "transition"
  /\ answer[c] = "handled" <=> chart[c] = "done"
  /\ answer[c] \in Failures \cup {"denied", "notFound", "methodNotAllowed"}
       => chart[c] = "error_handling"
  /\ pc[c] = "wait" \/ called[c] \/ chart[c] = "done" => Begun(c)

ChartInv == \A c \in Conns : InStep(c) /\ Tells(c)

LEMMA ChartInit == Init => ChartInv
BY DEF Init, ChartInv, InStep, Tells, Busy, Closed, Failures

\* A chart that is in step stays so at every step of its connection.
LEMMA ChartConnStep ==
  ASSUME TypeOK, NEW c \in Conns, InStep(c), Tells(c), ConnStep(c)
  PROVE  InStep(c)' /\ Tells(c)'
<1> USE Sends DEF TypeOK, InStep, Tells, Busy, Closed, Begun
<1>1. CASE MatchRoute(c)
  BY <1>1 DEF MatchRoute, Go, Answer, Failures
<1>2. CASE NextSequence(c)
  BY <1>2 DEF NextSequence, StageAfter, Go
<1>3. CASE GuardsPassed(c)
  BY <1>3 DEF GuardsPassed, Go, Answer
<1>4. CASE PipesPass(c)
  BY <1>4 DEF PipesPass, Go, Answer
<1>5. CASE PipeFails(c) \/ GuardFails(c)
  BY <1>5 DEF PipeFails, GuardFails, ToFilters, Go, Answer
<1>6. CASE InterceptorFailed(c)
  BY <1>6 DEF InterceptorFailed, ToFilters, Go, Answer
<1>7. CASE RunDirect(c)
  BY <1>7 DEF RunDirect, Spawn, Go
<1>8. CASE RunIntercepted(c)
  BY <1>8 DEF RunIntercepted, Go
<1>9. CASE HandlerReturns(c)
  <2>1. CASE setup.interceptors > 0
    BY <1>9, <2>1 DEF HandlerReturns, Go
  <2>2. CASE ~(setup.interceptors > 0)
    BY <1>9, <2>2 DEF HandlerReturns, Answer, Failures
  <2> QED
    BY <2>1, <2>2
<1>10. CASE Completed(c)
  BY <1>10 DEF Completed, Answer, Failures
<1>11. CASE InterceptorAnswered(c)
  BY <1>11 DEF InterceptorAnswered, Answer, Failures
<1>12. CASE FilterEnds(c)
  BY <1>12 DEF FilterEnds, Answer, Failures
<1>13. CASE Accept(c) \/ Leave(c) \/ Panic(c)
  BY <1>13 DEF Accept, Leave, Panic
<1>14. CASE Receive(c)
  <2>1. sent'[c] = sent[c] + 1 /\ sent'[c] \in 1..setup.requests[c] /\ job' = job
    BY <1>14, SetupType DEF Receive
  <2>2. DOMAIN job[c] = 1..setup.requests[c]
    BY DEF TypeOK
  <2> QED
    BY <1>14, <2>1, <2>2 DEF Receive, Failures
<1>15. CASE Preflight(c) \/ RejectBody(c)
  BY <1>15 DEF Preflight, RejectBody, Answer, Failures
<1>16. CASE ShortCircuit(c)
  BY <1>16 DEF ShortCircuit, Answer, Failures, MwStages
<1>17. CASE GuardDenies(c)
  BY <1>17 DEF GuardDenies, Answer, Failures
<1>18. CASE Timeout(c)
  <2>1. pc[c] \in {"body", "interceptor", "wait", "guard", "filter"} \cup MwStages
    BY <1>18 DEF Timeout, Awaiting
  <2>2. chart[c] \notin {"done", "refused"}
    BY <2>1 DEF MwStages
  <2> QED
    BY <1>18, <2>2 DEF Timeout, Answer, Failures
<1>19. CASE CollectBody(c) \/ Forward(c) \/ GuardPasses(c)
  BY <1>19 DEF CollectBody, Forward, GuardPasses, Go, MwStages
<1>20. CASE CallNext(c)
  <2>1. CASE at[c] < setup.interceptors
    BY <1>20, <2>1 DEF CallNext, Go
  <2>2. CASE ~(at[c] < setup.interceptors)
    BY <1>20, <2>2 DEF CallNext, Spawn, Go
  <2> QED
    BY <2>1, <2>2
<1>21. CASE Abandon(c)
  BY <1>21 DEF Abandon, Go
<1>22. CASE InterceptorReturns(c)
  BY <1>22 DEF InterceptorReturns, Go
<1>23. CASE \E n \in DOMAIN job[c] : JobStarts(c, n) \/ JobEnds(c, n)
  BY <1>23 DEF JobStarts, JobEnds
<1> QED
  BY <1>1, <1>2, <1>3, <1>4, <1>5, <1>6, <1>7, <1>8, <1>9, <1>10, <1>11, <1>12, <1>13, <1>14,
     <1>15, <1>16, <1>17, <1>18, <1>19, <1>20, <1>21, <1>22, <1>23
  DEF ConnStep, ServerStep, OtherStep

LEMMA ChartStep == TypeInv /\ ChartInv /\ [Next]_vars => ChartInv'
<1> SUFFICES ASSUME TypeInv, ChartInv, [Next]_vars, NEW d \in Conns PROVE InStep(d)' /\ Tells(d)'
  BY DEF ChartInv
<1>1. InStep(d) /\ Tells(d) /\ TypeOK
  BY DEF ChartInv, TypeInv
<1>2. ASSUME NEW c \in Conns, ConnStep(c) PROVE InStep(d)' /\ Tells(d)'
  <2>1. CASE c = d
    BY <1>1, <1>2, <2>1, ChartConnStep
  <2>2. CASE c # d
    <3>1. Only(c)
      BY <1>2, StepIsLocal DEF TypeInv
    <3> QED
      BY <1>1, <2>2, <3>1 DEF Only, InStep, Tells, Busy, Closed, Begun
  <2> QED
    BY <2>1, <2>2
<1>3. CASE AcceptFails \/ Shutdown \/ Return \/ Stop \/ UNCHANGED vars
  BY <1>1, <1>3 DEF AcceptFails, Shutdown, Return, Stop, vars, InStep, Tells, Busy, Closed, Begun
<1> QED
  BY <1>2, <1>3 DEF Next, ConnStep

LEMMA TypeInvariant == Spec => []TypeInv
<1>1. Init => TypeInv
  BY TypeInit DEF TypeInv, Init
<1>2. TypeInv /\ [Next]_vars => TypeInv'
  <2> SUFFICES ASSUME TypeInv, [Next]_vars PROVE DOMAIN trail' = Conns
    BY TypeStep DEF TypeInv
  <2>1. CASE \E c \in Conns : ConnStep(c)
    BY <2>1, StepIsLocal DEF TypeInv
  <2>2. CASE AcceptFails \/ Shutdown \/ Return \/ Stop \/ UNCHANGED vars
    BY <2>2 DEF AcceptFails, Shutdown, Return, Stop, vars, TypeInv
  <2> QED
    BY <2>1, <2>2 DEF Next, ConnStep
<1> QED
  BY <1>1, <1>2, PTL DEF Spec

LEMMA ChartInvariant == Spec => []ChartInv
BY TypeInvariant, ChartInit, ChartStep, PTL DEF Spec

\* handle_request never sends its engine an event the state does not have, for any number of
\* connections, layers and threads: the "transition failed" responses are unreachable.
THEOREM EngineNeverRefuses == Spec => []NoneRefused
<1>1. ChartInv => NoneRefused
  BY DEF ChartInv, Tells, NoneRefused
<1> QED
  BY <1>1, ChartInvariant, PTL

\* The chart ends in done for the answers of handlers, on the error path for every failure after
\* route matching, and is never done for any other answer.
THEOREM ChartIsTrue == Spec => []ChartTellsOutcome
<1>1. ChartInv => ChartTellsOutcome
  BY DEF ChartInv, Tells, Begun, ChartTellsOutcome, FailedStage, ErrorPath
<1> QED
  BY <1>1, ChartInvariant, PTL

-----------------------------------------------------------------------------
(* The layers a request has passed. *)

Stages == {"global", "module", "routeModule", "route", "guard", "pipe", "interceptor"}
Marks == Stages \X Nat

\* What a request has passed when it comes to a stage, under configuration `s` on path `p`.
AfterGlobal(s) == Layers("global", s.global)
AfterModule(s) == AfterGlobal(s) \o Layers("module", s.module)
AfterRouteModule(s) == AfterModule(s) \o Layers("routeModule", s.routeModule)
AfterRoute(s, p) ==
  AfterRouteModule(s) \o Layers("route", Cardinality(MatchingRouteMiddlewares(s, p)))
AfterGuards(s, p) == AfterRoute(s, p) \o Layers("guard", s.guards)
AfterPipes(s, p) == AfterGuards(s, p) \o Layers("pipe", s.pipes)
AfterAll(s, p) == AfterPipes(s, p) \o Layers("interceptor", s.interceptors)

LEMMA LayersType ==
  ASSUME NEW stage \in Stages, NEW n \in Nat PROVE Layers(stage, n) \in Seq(Marks)
BY DEF Layers, Marks

\* One more layer of a stage is the stage with one layer more.
LEMMA OneMore ==
  ASSUME NEW stage \in Stages, NEW b \in Seq(Marks), NEW n \in Nat \ {0}
  PROVE  Append(b \o Layers(stage, n - 1), <<stage, n>>) = b \o Layers(stage, n)
<1> DEFINE A == Layers(stage, n - 1)  Z == Layers(stage, n)  m == <<stage, n>>
<1>1. A \in Seq(Marks) /\ Z \in Seq(Marks) /\ m \in Marks
  BY LayersType, SMTT(30) DEF Marks
<1>2. Append(A, m) = Z
  <2>1. /\ Len(A) = n - 1 /\ Len(Z) = n /\ Z[n] = m
        /\ \A i \in 1..(n - 1) : A[i] = Z[i]
    BY DEF Layers
  <2> HIDE DEF A, Z, m
  <2>2. /\ Append(A, m) \in Seq(Marks) /\ Len(Append(A, m)) = n
        /\ \A i \in 1..(n - 1) : Append(A, m)[i] = A[i]
        /\ Append(A, m)[n] = m
    BY <1>1, <2>1, AppendProperties
  <2>3. ASSUME NEW i \in 1..n PROVE Append(A, m)[i] = Z[i]
    <3>1. CASE i = n
      BY <2>1, <2>2, <3>1
    <3>2. CASE i # n
      BY <2>1, <2>2, <3>2
    <3> QED
      BY <3>1, <3>2
  <2> QED
    BY <1>1, <2>1, <2>2, <2>3, SeqEqual
<1> HIDE DEF A, Z, m
<1>3. Append(b \o A, m) = b \o Append(A, m)
  <2>1. <<m>> \in Seq(Marks) /\ b \o A \in Seq(Marks)
    BY <1>1
  <2>2. Append(b \o A, m) = (b \o A) \o <<m>> /\ Append(A, m) = A \o <<m>>
    BY <1>1, <2>1, AppendIsConcat
  <2>3. (b \o A) \o <<m>> = b \o (A \o <<m>>)
    BY <1>1, <2>1, ConcatAssociative
  <2> QED
    BY <2>2, <2>3
<1> QED
  BY <1>2, <1>3 DEF A, Z, m

LEMMA NoLayers ==
  ASSUME NEW stage, NEW b \in Seq(Marks) PROVE b \o Layers(stage, 0) = b
<1>1. Layers(stage, 0) = <<>>
  BY DEF Layers
<1> QED
  BY <1>1

\* Layers of a stage, and what was passed before it.
CountOf(s, p, stage) ==
  CASE stage = "global" -> s.global
    [] stage = "module" -> s.module
    [] stage = "routeModule" -> s.routeModule
    [] stage = "route" -> Cardinality(MatchingRouteMiddlewares(s, p))
    [] stage = "guard" -> s.guards
    [] OTHER -> 0

Before(s, p, stage) ==
  CASE stage = "global" -> <<>>
    [] stage = "module" -> AfterGlobal(s)
    [] stage = "routeModule" -> AfterModule(s)
    [] stage = "route" -> AfterRouteModule(s)
    [] stage = "guard" -> AfterRoute(s, p)
    [] OTHER -> <<>>

Sequences == MwStages \cup {"guard"}

LEMMA CountType ==
  ASSUME TypeOK, NEW c \in Conns, NEW stage
  PROVE  Count(c, stage) = CountOf(setup, path[c], stage) /\ CountOf(setup, path[c], stage) \in Nat
<1>1. IsFiniteSet(DOMAIN setup.route)
  BY ServerAssumption DEF TypeOK
<1>2. IsFiniteSet(MatchingRouteMiddlewares(setup, path[c]))
  BY <1>1, FS_Subset DEF MatchingRouteMiddlewares
<1>3. Cardinality(MatchingRouteMiddlewares(setup, path[c])) \in Nat
  BY <1>2, FS_CardinalityType
<1> QED
  BY <1>3, SetupType DEF Count, CountOf

LEMMA AfterTypes ==
  ASSUME TypeOK, NEW c \in Conns
  PROVE  /\ AfterGlobal(setup) \in Seq(Marks) /\ AfterModule(setup) \in Seq(Marks)
         /\ AfterRouteModule(setup) \in Seq(Marks) /\ AfterRoute(setup, path[c]) \in Seq(Marks)
         /\ AfterGuards(setup, path[c]) \in Seq(Marks) /\ AfterPipes(setup, path[c]) \in Seq(Marks)
<1> DEFINE r == Cardinality(MatchingRouteMiddlewares(setup, path[c]))
<1>1. r \in Nat
  BY CountType DEF CountOf
<1>2. /\ Layers("global", setup.global) \in Seq(Marks)
      /\ Layers("module", setup.module) \in Seq(Marks)
      /\ Layers("routeModule", setup.routeModule) \in Seq(Marks)
      /\ Layers("route", r) \in Seq(Marks)
      /\ Layers("guard", setup.guards) \in Seq(Marks)
      /\ Layers("pipe", setup.pipes) \in Seq(Marks)
  BY <1>1, SetupType, LayersType DEF Stages
<1> QED
  BY <1>2 DEF AfterGlobal, AfterModule, AfterRouteModule, AfterRoute, AfterGuards, AfterPipes

LEMMA BeforeType ==
  ASSUME TypeOK, NEW c \in Conns, NEW stage PROVE Before(setup, path[c], stage) \in Seq(Marks)
BY AfterTypes DEF Before

\* A stage that is through is where the next one begins.
LEMMA StageThrough ==
  ASSUME TypeOK, NEW c \in Conns
  PROVE  LET whole(stage) == Before(setup, path[c], stage)
                               \o Layers(stage, CountOf(setup, path[c], stage))
         IN  /\ whole("global") = Before(setup, path[c], "module") \o Layers("module", 0)
             /\ whole("module") = Before(setup, path[c], "routeModule") \o Layers("routeModule", 0)
             /\ whole("routeModule") = Before(setup, path[c], "route") \o Layers("route", 0)
             /\ whole("route") = Before(setup, path[c], "guard") \o Layers("guard", 0)
             /\ whole("guard") = AfterGuards(setup, path[c])
<1>1. \A stage : Before(setup, path[c], stage) \o Layers(stage, 0) = Before(setup, path[c], stage)
  BY BeforeType, NoLayers
<1>2. <<>> \o Layers("global", setup.global) = Layers("global", setup.global)
  BY SetupType, LayersType, ConcatEmptySeq DEF Stages
<1> QED
  BY <1>1, <1>2 DEF Before, CountOf, AfterGlobal, AfterModule, AfterRouteModule, AfterRoute,
                    AfterGuards

\* What the trail holds while the handler has not been queued.
Written(c) ==
  /\ pc[c] = "body" => trail[c] = <<>>
  /\ pc[c] \in Sequences =>
       /\ at[c] \in 1..(CountOf(setup, path[c], pc[c]) + 1)
       /\ trail[c] = Before(setup, path[c], pc[c]) \o Layers(pc[c], at[c] - 1)
  /\ pc[c] = "pipe" => trail[c] = AfterGuards(setup, path[c])
  /\ pc[c] = "run" => trail[c] = AfterPipes(setup, path[c])
  /\ pc[c] = "interceptor" /\ res[c] = "none" =>
       /\ at[c] \in 1..setup.interceptors
       /\ trail[c] = AfterPipes(setup, path[c]) \o Layers("interceptor", at[c] - 1)

Early(c) ==
  \/ pc[c] \in Sequences \cup {"body", "pipe", "run"}
  \/ pc[c] = "interceptor" /\ res[c] = "none"

Guarded(c) ==
  /\ Early(c) => res[c] = "none" /\ job[c][sent[c]] = "none"
  /\ \A n \in DOMAIN job[c] : n > sent[c] => job[c][n] = "none"
  /\ Begun(c) => trail[c] = AfterAll(setup, path[c]) /\ answer[c] \notin Refusals

TrailInv == \A c \in Conns : Written(c) /\ Guarded(c)

LEMMA TrailInit == Init => TrailInv
BY ServerAssumption DEF Init, TrailInv, Written, Guarded, Early, Begun, Sequences, MwStages

\* A request comes to the first layer of a sequence with everything before it on its trail.
LEMMA Enters ==
  ASSUME TypeOK, NEW c \in Conns, NEW from \in {"global", "module", "routeModule", "route"},
         Written(c), pc[c] = from, at[c] > Count(c, from)
  PROVE  LET to == IF from = "global" THEN "module" ELSE StageAfter[from]
         IN  /\ trail[c] = Before(setup, path[c], to) \o Layers(to, 0)
             /\ to \in Sequences
<1>1. at[c] - 1 = CountOf(setup, path[c], from)
  BY CountType DEF Written, Sequences, MwStages
<1>2. trail[c] = Before(setup, path[c], from) \o Layers(from, CountOf(setup, path[c], from))
  BY <1>1 DEF Written, Sequences, MwStages
<1>3. CASE from = "global"
  BY <1>2, <1>3, StageThrough DEF Sequences, MwStages
<1>4. CASE from = "module"
  BY <1>2, <1>4, StageThrough, SMTT(30) DEF StageAfter, Sequences, MwStages
<1>5. CASE from = "routeModule"
  BY <1>2, <1>5, StageThrough DEF StageAfter, Sequences, MwStages
<1>6. CASE from = "route"
  BY <1>2, <1>6, StageThrough, SMTT(30) DEF StageAfter, Sequences, MwStages
<1> QED
  BY <1>3, <1>4, <1>5, <1>6

\* The guarded part needs to be looked at only where a handler may be there, or is queued.
LEMMA TrailConnStep ==
  ASSUME TypeInv, NEW c \in Conns, InStep(c), Tells(c), Written(c), Guarded(c), ConnStep(c)
  PROVE  Written(c)' /\ Guarded(c)'
<1> USE DEF TypeInv
<1>0. TypeOK
  OBVIOUS
<1>1. CASE MatchRoute(c)
  <2>1. CASE Go(c, "module", 1, SendEvent(Drive("received", "request.parsed",
                                                "middleware.complete"), "route.matched"))
    <3>1. trail[c] = Before(setup, path[c], "module") \o Layers("module", 0)
      BY <1>1, Enters DEF MatchRoute
    <3>2. CountOf(setup, path[c], "module") \in Nat
      BY CountType
    <3> QED
      BY <1>1, <2>1, <3>1, <3>2
      DEF MatchRoute, Go, TypeOK, Written, Guarded, Early, Begun, Sequences, MwStages
  <2>2. CASE pc'[c] = "idle" /\ UNCHANGED <<setup, path, sent, job, trail>>
    BY <1>1, <2>2 DEF MatchRoute, Written, Guarded, Early, Begun, Sequences, MwStages
  <2> QED
    BY <1>1, <2>1, <2>2 DEF MatchRoute, Answer, TypeOK
<1>2. CASE NextSequence(c)
  <2> DEFINE to == StageAfter[pc[c]]
  <2>1. pc[c] \in {"module", "routeModule", "route"} /\ at[c] > Count(c, pc[c])
    BY <1>2 DEF NextSequence, StageAfter
  <2>2. trail[c] = Before(setup, path[c], to) \o Layers(to, 0) /\ to \in Sequences
    BY <2>1, Enters
  <2>3. CountOf(setup, path[c], to) \in Nat
    BY CountType
  <2>4. /\ pc'[c] = to /\ at'[c] = 1
        /\ UNCHANGED <<setup, path, sent, answer, called, res, job, trail>>
    BY <1>2 DEF NextSequence, Go, TypeOK
  <2>5. Early(c) /\ to \notin {"body", "pipe", "run", "interceptor"}
    BY <2>1, <2>2 DEF Early, Sequences, MwStages
  <2> HIDE DEF to
  <2>6. Written(c)'
    BY <2>2, <2>3, <2>4, <2>5 DEF Written
  <2> QED
    BY <2>4, <2>5, <2>6 DEF Guarded, Begun
<1>3. CASE GuardsPassed(c)
  <2>1. at[c] - 1 = CountOf(setup, path[c], "guard")
    BY <1>3, CountType DEF GuardsPassed, Written, Sequences
  <2>2. trail[c] = AfterGuards(setup, path[c])
    BY <1>3, <2>1, StageThrough DEF GuardsPassed, Written, Sequences
  <2>3. /\ pc'[c] \in {"pipe", "idle"}
        /\ UNCHANGED <<setup, path, sent, called, res, job, trail>>
    BY <1>3 DEF GuardsPassed, Go, Answer, TypeOK
  <2>4. Early(c)
    BY <1>3 DEF GuardsPassed, Early, Sequences
  <2> QED
    BY <2>2, <2>3, <2>4 DEF Written, Guarded, Early, Begun, Sequences, MwStages
<1>4. CASE PipesPass(c)
  <2>1. trail'[c] = AfterPipes(setup, path[c])
    BY <1>4 DEF PipesPass, Written, AfterPipes
  <2>2. /\ pc'[c] \in {"run", "idle"}
        /\ UNCHANGED <<setup, path, sent, called, res, job>>
    BY <1>4 DEF PipesPass, Go, Answer, TypeOK
  <2>3. Early(c)
    BY <1>4 DEF PipesPass, Early
  <2> QED
    BY <2>1, <2>2, <2>3 DEF Written, Guarded, Early, Begun, Sequences, MwStages
<1>5. CASE PipeFails(c) \/ GuardFails(c) \/ InterceptorFailed(c)
  <2>1. /\ pc'[c] \in {"idle", "filter"} /\ answer'[c] \in {answer[c], "transition"}
        /\ UNCHANGED <<setup, path, sent, called, res, job, trail>>
    BY <1>5 DEF PipeFails, GuardFails, InterceptorFailed, ToFilters, Go, Answer, TypeOK
  <2> QED
    BY <2>1 DEF Written, Guarded, Early, Begun, Sequences, MwStages, Refusals
<1>6. CASE RunDirect(c)
  <2>1. trail[c] = AfterAll(setup, path[c])
    <3>1. AfterPipes(setup, path[c]) \o Layers("interceptor", 0) = AfterPipes(setup, path[c])
      BY AfterTypes, NoLayers
    <3> QED
      BY <1>6, <3>1 DEF RunDirect, Written, AfterAll
  <2>2. /\ pc'[c] = "wait" /\ answer[c] = "none"
        /\ UNCHANGED <<setup, path, sent, answer, called, res, trail>>
        /\ job' = [job EXCEPT ![c][sent[c]] = "queued"]
    BY <1>6 DEF RunDirect, Go, Spawn, TypeOK, InStep, Busy, Closed
  <2> QED
    BY <2>1, <2>2 DEF Written, Guarded, Early, Begun, Sequences, MwStages, Refusals, TypeOK
<1>7. CASE RunIntercepted(c)
  <2>1. trail[c] = AfterPipes(setup, path[c]) \o Layers("interceptor", 0)
    BY <1>7, AfterTypes, NoLayers DEF RunIntercepted, Written
  <2>2. /\ pc'[c] = "interceptor" /\ at'[c] = 1 /\ setup.interceptors > 0
        /\ UNCHANGED <<setup, path, sent, answer, called, res, job, trail>>
    BY <1>7 DEF RunIntercepted, Go, TypeOK
  <2>3. Early(c)
    BY <1>7 DEF RunIntercepted, Early
  <2> QED
    BY <2>1, <2>2, <2>3, SetupType DEF Written, Guarded, Early, Begun, Sequences, MwStages
<1>8. CASE HandlerReturns(c)
  <2>1. /\ pc'[c] = "idle" \/ (pc'[c] = "interceptor" /\ res'[c] # "none")
        /\ answer'[c] \notin Refusals
        /\ UNCHANGED <<setup, path, sent, called, job, trail>>
    <3>1. CASE setup.interceptors > 0
      BY <1>8, <3>1 DEF HandlerReturns, Go, TypeOK, InStep, Busy, Closed, Refusals
    <3>2. CASE ~(setup.interceptors > 0)
      BY <1>8, <3>2 DEF HandlerReturns, Answer, TypeOK, Refusals
    <3> QED
      BY <3>1, <3>2
  <2> QED
    BY <2>1 DEF Written, Guarded, Early, Begun, Sequences, MwStages
<1>9. CASE Completed(c) \/ InterceptorAnswered(c) \/ FilterEnds(c) \/ Timeout(c)
  <2>1. /\ pc'[c] = "idle" /\ answer'[c] \notin Refusals
        /\ UNCHANGED <<setup, path, sent, called, res, job, trail>>
    BY <1>9 DEF Completed, InterceptorAnswered, FilterEnds, Timeout, Answer, TypeOK, Refusals
  <2> QED
    BY <2>1 DEF Written, Guarded, Early, Begun, Sequences, MwStages
<1>10. CASE Accept(c) \/ Leave(c) \/ Panic(c)
  <2>1. /\ pc'[c] \in {"idle", "closed"}
        /\ UNCHANGED <<setup, path, sent, answer, called, res, job, trail>>
    BY <1>10 DEF Accept, Leave, Panic, TypeOK
  <2> QED
    BY <2>1 DEF Written, Guarded, Early, Begun, Sequences, MwStages
<1>11. CASE Receive(c)
  <2>1. /\ pc'[c] = "body" /\ res'[c] = "none" /\ trail'[c] = <<>> /\ answer'[c] = "none"
        /\ sent'[c] = sent[c] + 1 /\ sent'[c] \in DOMAIN job[c] /\ UNCHANGED <<setup, job>>
    BY <1>11, SetupType DEF Receive, TypeOK
  <2>2. \A n \in DOMAIN job[c] : n > sent[c] => job[c][n] = "none"
    BY DEF Guarded
  <2>3. sent[c] \in Nat /\ DOMAIN job[c] = 1..setup.requests[c]
    BY DEF TypeOK
  <2> QED
    BY <2>1, <2>2, <2>3 DEF Written, Guarded, Early, Begun, Sequences, MwStages
<1>12. CASE Preflight(c) \/ RejectBody(c) \/ ShortCircuit(c) \/ GuardDenies(c)
  <2>1. /\ pc'[c] = "idle" /\ UNCHANGED <<setup, path, sent, called, res, job, trail>>
    BY <1>12 DEF Preflight, RejectBody, ShortCircuit, GuardDenies, Answer, TypeOK
  <2>2. Early(c)
    BY <1>12 DEF Preflight, RejectBody, ShortCircuit, GuardDenies, Early, Sequences
  <2> QED
    BY <2>1, <2>2 DEF Written, Guarded, Early, Begun, Sequences, MwStages
<1>13. CASE CollectBody(c)
  <2>1. /\ pc'[c] = "global" /\ at'[c] = 1
        /\ UNCHANGED <<setup, path, sent, answer, called, res, job, trail>>
    BY <1>13 DEF CollectBody, Go, TypeOK
  <2>2. trail[c] = <<>> \o Layers("global", 0)
    <3>1. trail[c] = <<>>
      BY <1>13 DEF CollectBody, Written
    <3>2. <<>> \o Layers("global", 0) = <<>>
      <4>1. <<>> \in Seq(Marks)
        OBVIOUS
      <4> QED
        BY <4>1, NoLayers
    <3> QED
      BY <3>1, <3>2
  <2>3. Early(c) /\ CountOf(setup, path[c], "global") \in Nat
    BY <1>13, CountType DEF CollectBody, Early
  <2>4. Before(setup, path[c], "global") = <<>>
    BY DEF Before
  <2>5. at'[c] - 1 = 0 /\ at'[c] \in 1..(CountOf(setup, path[c], "global") + 1)
    BY <2>1, <2>3
  <2>6. trail'[c] = Before(setup, path[c], "global") \o Layers("global", 0)
    BY <2>1, <2>2, <2>4
  <2>7. Written(c)'
    BY <2>1, <2>5, <2>6 DEF Written
  <2> QED
    BY <2>1, <2>3, <2>7 DEF Guarded, Begun
<1>14. CASE Forward(c) \/ GuardPasses(c)
  <2>1. pc[c] \in Sequences /\ at[c] <= CountOf(setup, path[c], pc[c])
    BY <1>14, CountType DEF Forward, GuardPasses, Sequences
  <2>2. /\ pc'[c] = pc[c] /\ at'[c] = at[c] + 1 /\ trail'[c] = Append(trail[c], <<pc[c], at[c]>>)
        /\ UNCHANGED <<setup, path, sent, answer, called, res, job>>
    BY <1>14 DEF Forward, GuardPasses, Passed, Go, TypeOK
  <2>3. at[c] \in Nat \ {0} /\ pc[c] \in Stages /\ CountOf(setup, path[c], pc[c]) \in Nat
    <3>1. CountOf(setup, path[c], pc[c]) \in Nat
      BY CountType
    <3>2. at[c] \in 1..(CountOf(setup, path[c], pc[c]) + 1)
      BY <2>1 DEF Written
    <3> QED
      BY <2>1, <3>1, <3>2 DEF Sequences, MwStages, Stages
  <2>4. trail'[c] = Before(setup, path[c], pc[c]) \o Layers(pc[c], at[c])
    BY <2>1, <2>2, <2>3, BeforeType, OneMore, ZenonT(40) DEF Written
  <2>5. Early(c) /\ pc[c] \notin {"body", "pipe", "run", "interceptor"}
    BY <2>1 DEF Early, Sequences, MwStages
  <2>6. at'[c] - 1 = at[c] /\ at'[c] \in 1..(CountOf(setup, path[c], pc[c]) + 1)
    BY <2>1, <2>2, <2>3
  <2>7. Written(c)'
    BY <2>2, <2>4, <2>5, <2>6 DEF Written
  <2> QED
    BY <2>2, <2>5, <2>7 DEF Guarded, Early, Begun
<1>15. CASE CallNext(c)
  <2>1. /\ at[c] \in 1..setup.interceptors
        /\ trail[c] = AfterPipes(setup, path[c]) \o Layers("interceptor", at[c] - 1)
        /\ trail'[c] = Append(trail[c], <<"interceptor", at[c]>>)
        /\ UNCHANGED <<setup, path, sent, answer, res>>
    BY <1>15 DEF CallNext, Written, Passed, Go
  <2>2. trail'[c] = AfterPipes(setup, path[c]) \o Layers("interceptor", at[c])
    <3>1. at[c] \in Nat \ {0} /\ "interceptor" \in Stages
      BY <2>1, SetupType DEF Stages
    <3> QED
      BY <2>1, <3>1, AfterTypes, OneMore, ZenonT(40)
  <2>3. res[c] = "none" /\ Early(c) /\ answer[c] = "none"
    BY <1>15 DEF CallNext, Early, InStep, Busy, Closed
  <2>4. CASE at[c] < setup.interceptors
    <3>1. pc'[c] = "interceptor" /\ at'[c] = at[c] + 1 /\ UNCHANGED job
      BY <1>15, <2>4 DEF CallNext, Go, TypeOK
    <3>2. at'[c] - 1 = at[c] /\ at'[c] \in 1..setup.interceptors
      BY <2>1, <2>4, <3>1, SetupType, SMTT(30)
    <3>3. Written(c)'
      BY <2>1, <2>2, <3>1, <3>2 DEF Written, Sequences, MwStages
    <3> QED
      BY <2>1, <2>3, <3>1, <3>3 DEF Guarded, Begun
  <2>5. CASE ~(at[c] < setup.interceptors)
    <3>1. pc'[c] = "wait" /\ job' = [job EXCEPT ![c][sent[c]] = "queued"]
      BY <1>15, <2>5 DEF CallNext, Go, Spawn, TypeOK
    <3>2. at[c] = setup.interceptors
      BY <2>1, <2>5, SetupType
    <3>3. trail'[c] = AfterAll(setup, path[c])
      BY <2>2, <3>2 DEF AfterAll
    <3> QED
      BY <2>1, <2>3, <3>1, <3>3
      DEF Written, Guarded, Early, Begun, Sequences, MwStages, Refusals, TypeOK
  <2> QED
    BY <2>4, <2>5
<1>16. CASE Abandon(c) \/ InterceptorReturns(c)
  <2>1. /\ pc'[c] = "settle" \/ (pc'[c] = "interceptor" /\ res'[c] # "none")
        /\ UNCHANGED <<setup, path, sent, answer, called, job, trail>>
    BY <1>16 DEF Abandon, InterceptorReturns, Go, TypeOK
  <2> QED
    BY <2>1 DEF Written, Guarded, Early, Begun, Sequences, MwStages
<1>17. CASE \E n \in DOMAIN job[c] : JobStarts(c, n) \/ JobEnds(c, n)
  <2>1. PICK n \in DOMAIN job[c] : JobStarts(c, n) \/ JobEnds(c, n)
    BY <1>17
  <2>2. /\ job[c][n] # "none" /\ DOMAIN job'[c] = DOMAIN job[c]
        /\ \A k \in DOMAIN job[c] : k # n => job'[c][k] = job[c][k]
        /\ UNCHANGED <<setup, pc, at, path, sent, answer, called, res, trail>>
    BY <2>1 DEF JobStarts, JobEnds, TypeOK
  <2>3. Early(c) => sent[c] # n
    BY <2>2 DEF Guarded
  <2>4. Written(c)' /\ (Early(c)' <=> Early(c)) /\ (Begun(c)' => Begun(c))
    BY <2>2 DEF Written, Early, Begun
  <2>5. Early(c) => sent[c] \in DOMAIN job[c]
    BY DEF Early, InStep, Busy, Closed, Sequences, MwStages
  <2> QED
    BY <2>2, <2>3, <2>4, <2>5 DEF Guarded
<1> QED
  BY <1>1, <1>2, <1>3, <1>4, <1>5, <1>6, <1>7, <1>8, <1>9, <1>10, <1>11, <1>12, <1>13, <1>14,
     <1>15, <1>16, <1>17
  DEF ConnStep, ServerStep, OtherStep

LEMMA TrailStep == TypeInv /\ ChartInv /\ TrailInv /\ [Next]_vars => TrailInv'
<1> SUFFICES ASSUME TypeInv, ChartInv, TrailInv, [Next]_vars, NEW d \in Conns
             PROVE  Written(d)' /\ Guarded(d)'
  BY DEF TrailInv
<1>1. InStep(d) /\ Tells(d) /\ Written(d) /\ Guarded(d)
  BY DEF ChartInv, TrailInv
<1>2. ASSUME NEW c \in Conns, ConnStep(c) PROVE Written(d)' /\ Guarded(d)'
  <2>1. CASE c = d
    BY <1>1, <1>2, <2>1, TrailConnStep
  <2>2. CASE c # d
    <3>1. Only(c)
      BY <1>2, StepIsLocal DEF TypeInv
    <3> QED
      BY <1>1, <2>2, <3>1 DEF Only, Written, Guarded, Early, Begun
  <2> QED
    BY <2>1, <2>2
<1>3. CASE AcceptFails
  <2>1. pc'[d] = "closed" /\ UNCHANGED <<setup, path, sent, answer, job, trail>>
    BY <1>3 DEF AcceptFails
  <2> QED
    BY <1>1, <2>1 DEF Written, Guarded, Early, Begun, Sequences, MwStages
<1>4. CASE Shutdown \/ Return \/ Stop \/ UNCHANGED vars
  BY <1>1, <1>4 DEF Shutdown, Return, Stop, vars, Written, Guarded, Early, Begun
<1> QED
  BY <1>2, <1>3, <1>4 DEF Next, ConnStep

LEMMA TrailInvariant == Spec => []TrailInv
BY TypeInvariant, ChartInvariant, TrailInit, TrailStep, PTL DEF Spec

\* A handler is handed to the pool only after every middleware, guard, pipe and interceptor of its
\* own request let it through in the order of handle_request, and a refused request has none: for
\* any number of layers, and although handlers of timed-out requests still run.
THEOREM HandlersBehindLayers == Spec => []HandlerGuarded
<1>1. TypeInv /\ TrailInv => HandlerGuarded
  <2> SUFFICES ASSUME TypeInv, TrailInv, NEW c \in Conns, sent[c] > 0, job[c][sent[c]] # "none"
               PROVE  trail[c] = FullTrail(c) /\ answer[c] \notin Refusals
    BY DEF HandlerGuarded
  <2>1. TypeOK
    BY DEF TypeInv
  <2>2. DOMAIN job[c] = 1..setup.requests[c] /\ sent[c] \in Nat /\ sent[c] <= setup.requests[c]
    BY <2>1 DEF TypeOK
  <2>3. sent[c] \in DOMAIN job[c]
    BY <2>1, <2>2, SetupType
  <2>4. trail[c] = AfterAll(setup, path[c]) /\ answer[c] \notin Refusals
    BY <2>3 DEF TrailInv, Guarded, Begun
  <2>5. AfterAll(setup, path[c]) = FullTrail(c)
    BY DEF AfterAll, AfterPipes, AfterGuards, AfterRoute, AfterRouteModule, AfterModule,
           AfterGlobal, FullTrail, Count
  <2> QED
    BY <2>4, <2>5
<1> QED
  BY <1>1, TypeInvariant, TrailInvariant, PTL

-----------------------------------------------------------------------------
(* The exception filter that is asked. *)

\* Every set of natural numbers that is not empty has a least one.
LEMMA LeastNumber ==
  ASSUME NEW S \in SUBSET Nat, S # {}
  PROVE  \E n \in S : \A m \in S : n <= m
<1> DEFINE Less == {p \in Nat \X Nat : p[1] < p[2]}
<1>1. OpToRel(<, Nat) = Less
  BY DEF OpToRel
<1>2. PICK n \in S : \A m \in S : <<m, n>> \notin Less
  BY <1>1, NatLessThanWellFounded, WFMin
<1>3. SUFFICES ASSUME NEW m \in S PROVE n <= m
  BY <1>2
<1>4. ~(m < n)
  BY <1>2
<1>5. m \in Nat /\ n \in Nat
  OBVIOUS
<1> QED
  BY <1>4, <1>5

Kinds == {"exact", "all", "other"}

\* `b` takes the exception if any of the first `k` filters does, and is the best of those that do:
\* the highest score, and the last of them.
Best(filters, k, b) ==
  /\ b \in 0..k
  /\ b # 0 => Score(filters[b]) > 0
  /\ \A i \in 1..k : Score(filters[i]) > 0 =>
       /\ b # 0 /\ Score(filters[i]) <= Score(filters[b])
       /\ Score(filters[i]) = Score(filters[b]) => i <= b

\* The loop over a scope's filters ends with the best of them, for any number of filters.
LEMMA LoopSelects ==
  ASSUME NEW filters \in Seq(Kinds)
  PROVE  Best(filters, Len(filters), SelectExceptionFilter(filters))
<1> DEFINE n == Len(filters)
           Better(best, i) ==
             \/ Score(filters[i]) > 0 /\ best = 0
             \/ best # 0 /\ Score(filters[i]) > Score(filters[best])
             \/ best # 0 /\ Score(filters[i]) > 0 /\ Score(filters[i]) = Score(filters[best]) /\ i > best
           Turn(f, i) == IF i = 0 THEN 0 ELSE IF Better(f[i - 1], i) THEN i ELSE f[i - 1]
           IsLoop(f, k) == f = [i \in 0..k |-> Turn(f, i)]
<1>n. n \in Nat
  OBVIOUS
<1>s. \A i \in 1..n : Score(filters[i]) \in 0..2
  BY DEF Score, Kinds
<1>1. \E f : IsLoop(f, n)
  <2> DEFINE Bad == {k \in Nat : ~ \E f : IsLoop(f, k)}
  <2>1. SUFFICES ASSUME Bad # {} PROVE FALSE
    BY <1>n
  <2>2. PICK k \in Bad : \A m \in Bad : k <= m
    BY <2>1, LeastNumber
  <2>3. CASE k = 0
    <3>1. IsLoop([i \in 0..0 |-> 0], 0)
      BY DEF IsLoop
    <3> QED
      BY <2>2, <2>3, <3>1
  <2>4. CASE k # 0
    <3>1. k - 1 \in Nat /\ k \in Nat /\ ~(k <= k - 1)
      BY <2>2, <2>4
    <3>2. PICK f : IsLoop(f, k - 1)
      BY <2>2, <3>1
    <3> DEFINE g == [i \in 0..k |-> IF i = k THEN IF Better(f[k - 1], k) THEN k ELSE f[k - 1] ELSE f[i]]
    <3> HIDE DEF Better, Bad
    <3>3. \A i \in 0..k - 1 : g[i] = f[i]
      BY <3>1
    <3>4. \A i \in 0..k : g[i] = Turn(g, i)
      <4>1. ASSUME NEW i \in 0..k PROVE g[i] = Turn(g, i)
        <5>1. CASE i = 0
          <6>1. f[0] = 0
            BY <3>1, <3>2
          <6> QED
            BY <2>4, <3>1, <5>1, <6>1
        <5>2. CASE i # 0 /\ i # k
          <6>1. i \in 0..k - 1 /\ i - 1 \in 0..k - 1
            BY <3>1, <4>1, <5>2
          <6>2. f[i] = Turn(f, i)
            BY <3>2, <6>1
          <6> QED
            BY <3>3, <5>2, <6>1, <6>2
        <5>3. CASE i = k
          <6>1. g[k - 1] = f[k - 1] /\ g[k] = IF Better(f[k - 1], k) THEN k ELSE f[k - 1]
            BY <3>1, <3>3
          <6> QED
            BY <2>4, <5>3, <6>1
        <5> QED
          BY <5>1, <5>2, <5>3
      <4> QED
        BY <4>1
    <3>5. IsLoop(g, k)
      BY <3>4
    <3> QED
      BY <2>2, <3>5 DEF Bad
  <2> QED
    BY <2>3, <2>4
<1> DEFINE fold == CHOOSE f : IsLoop(f, n)
<1>2. IsLoop(fold, n)
  BY <1>1
<1>3. SelectExceptionFilter(filters) = fold[n]
  BY DEF SelectExceptionFilter
<1> HIDE DEF fold
<1>4. /\ fold[0] = 0
      /\ \A i \in 1..n : fold[i] = IF Better(fold[i - 1], i) THEN i ELSE fold[i - 1]
  <2> HIDE DEF Better
  <2> QED
    BY <1>n, <1>2
<1>5. \A k \in 0..n : Best(filters, k, fold[k])
  <2> DEFINE Bad == {k \in 0..n : ~Best(filters, k, fold[k])}
  <2>1. SUFFICES ASSUME Bad # {} PROVE FALSE
    OBVIOUS
  <2>0. 0..n \subseteq Nat /\ Bad \subseteq 0..n
    BY <1>n
  <2>2. PICK k \in Bad : \A m \in Bad : k <= m
    <3> HIDE DEF Bad, n
    <3> QED
      BY <2>0, <2>1, LeastNumber
  <2>3. CASE k = 0
    BY <1>4, <2>2, <2>3 DEF Best
  <2>4. CASE k # 0
    <3>1. k \in 1..n /\ k - 1 \in 0..n /\ ~(k <= k - 1)
      BY <1>n, <2>2, <2>4
    <3>2. Best(filters, k - 1, fold[k - 1])
      BY <2>2, <3>1
    <3> DEFINE b == fold[k - 1]
    <3>3. fold[k] = IF Better(b, k) THEN k ELSE b
      BY <1>4, <3>1
    <3>4. b \in 0..k - 1 /\ (b # 0 => b \in 1..n)
      BY <1>n, <3>1, <3>2 DEF Best
    <3> HIDE DEF b, n, fold
    <3>5. Best(filters, k, fold[k])
      <4>1. CASE Better(b, k)
        BY <1>n, <1>s, <3>1, <3>2, <3>3, <3>4, <4>1, SMTT(30) DEF Best, b
      <4>2. CASE ~Better(b, k)
        BY <1>n, <1>s, <3>1, <3>2, <3>3, <3>4, <4>2 DEF Best, b
      <4> QED
        BY <4>1, <4>2
    <3> QED
      BY <2>2, <3>5
  <2> QED
    BY <2>3, <2>4
<1> QED
  BY <1>n, <1>3, <1>5

\* Only the steps to the filters bring a request there, and they ask the chosen one.
AskedInv ==
  /\ DOMAIN caught = Conns
  /\ \A c \in Conns : pc[c] = "filter" => caught[c] = ChosenFilter

\* A step that takes its connection elsewhere, and tells no filter of it.
LEMMA Elsewhere ==
  ASSUME TypeOK, AskedInv, NEW c \in Conns, NEW place, place # "filter",
         pc' = [pc EXCEPT ![c] = place], DOMAIN caught' = Conns,
         \A d \in Conns \ {c} : caught'[d] = caught[d], setup' = setup
  PROVE  AskedInv'
<1>1. ChosenFilter' = ChosenFilter
  BY DEF ChosenFilter
<1> QED
  BY <1>1 DEF AskedInv, TypeOK

LEMMA AsksChosen ==
  ASSUME TypeOK, AskedInv, NEW c \in Conns, NEW s, ToFilters(c, s)
  PROVE  AskedInv'
<1>1. ChosenFilter' = ChosenFilter
  BY DEF ToFilters, Answer, Go, ChosenFilter
<1>2. CASE s = "refused"
  BY <1>2, Elsewhere DEF ToFilters, Answer, AskedInv
<1>3. CASE s # "refused"
  BY <1>1, <1>3 DEF ToFilters, Go, AskedInv, TypeOK
<1> QED
  BY <1>2, <1>3

LEMMA AskedConnStep ==
  ASSUME TypeOK, AskedInv, NEW c \in Conns, ConnStep(c)
  PROVE  AskedInv'
<1>g. ASSUME NEW place, place # "filter", NEW k, NEW s, Go(c, place, k, s), caught' = caught
      PROVE  AskedInv'
  BY <1>g, Elsewhere DEF Go, AskedInv
<1>a. ASSUME NEW kind, NEW s, Answer(c, kind, s), caught' = caught PROVE AskedInv'
  BY <1>a, Elsewhere DEF Answer, AskedInv
<1>1. CASE GuardFails(c) \/ PipeFails(c) \/ InterceptorFailed(c)
  BY <1>1, AsksChosen DEF GuardFails, PipeFails, InterceptorFailed
<1>2. CASE MatchRoute(c) \/ GuardsPassed(c) \/ PipesPass(c)
  BY <1>2, <1>g, <1>a DEF MatchRoute, GuardsPassed, PipesPass
<1>3. CASE NextSequence(c)
  <2>1. StageAfter[pc[c]] # "filter"
    BY <1>3 DEF NextSequence, StageAfter
  <2> QED
    BY <1>3, <2>1, <1>g DEF NextSequence
<1>4. CASE RunDirect(c) \/ RunIntercepted(c) \/ CallNext(c) \/ Abandon(c) \/ InterceptorReturns(c)
  BY <1>4, <1>g DEF RunDirect, RunIntercepted, CallNext, Abandon, InterceptorReturns
<1>5. CASE HandlerReturns(c)
  BY <1>5, <1>g, <1>a DEF HandlerReturns
<1>6. CASE Completed(c) \/ InterceptorAnswered(c) \/ FilterEnds(c) \/ Timeout(c) \/ Preflight(c)
           \/ RejectBody(c) \/ ShortCircuit(c) \/ GuardDenies(c)
  BY <1>6, <1>a DEF Completed, InterceptorAnswered, FilterEnds, Timeout, Preflight, RejectBody,
                    ShortCircuit, GuardDenies
<1>7. CASE CollectBody(c) \/ Forward(c) \/ GuardPasses(c)
  BY <1>7, <1>g DEF CollectBody, Forward, GuardPasses, MwStages
<1>8. CASE Accept(c) \/ Leave(c) \/ Panic(c)
  BY <1>8, Elsewhere DEF Accept, Leave, Panic, AskedInv
<1>9. CASE Receive(c)
  <2>1. /\ pc' = [pc EXCEPT ![c] = "body"] /\ setup' = setup
        /\ caught' = [caught EXCEPT ![c] = <<>>]
    BY <1>9 DEF Receive
  <2> QED
    BY <2>1, Elsewhere DEF AskedInv
<1>10. CASE \E n \in DOMAIN job[c] : JobStarts(c, n) \/ JobEnds(c, n)
  BY <1>10 DEF JobStarts, JobEnds, AskedInv, ChosenFilter
<1> QED
  BY <1>1, <1>2, <1>3, <1>4, <1>5, <1>6, <1>7, <1>8, <1>9, <1>10 DEF ConnStep, ServerStep, OtherStep

LEMMA AskedInvariant == Spec => []AskedInv
<1>1. Init => AskedInv
  BY DEF Init, AskedInv
<1>2. TypeOK /\ AskedInv /\ [Next]_vars => AskedInv'
  <2> SUFFICES ASSUME TypeOK, AskedInv, [Next]_vars PROVE AskedInv'
    OBVIOUS
  <2>1. ASSUME NEW c \in Conns, ConnStep(c) PROVE AskedInv'
    BY <2>1, AskedConnStep
  <2>2. CASE AcceptFails
    BY <2>2 DEF AcceptFails, AskedInv
  <2>3. CASE Shutdown \/ Return \/ Stop \/ UNCHANGED vars
    BY <2>3 DEF Shutdown, Return, Stop, vars, AskedInv, ChosenFilter
  <2> QED
    BY <2>1, <2>2, <2>3 DEF Next, ConnStep
<1> QED
  BY <1>1, <1>2, ServerTyped, PTL DEF Spec

\* Whatever filters are registered, and however many in each scope, an exception goes to the one
\* the documentation promises: handler before controller before global, a matching type before a
\* catch-all, the later of two equals; it goes to none only if none takes it.
THEOREM FiltersTakePrecedence == Spec => []FilterPrecedence
<1>1. TypeOK /\ AskedInv => FilterPrecedence
  <2> DEFINE rank == [handler |-> 1, controller |-> 2, global |-> 3]
             takes(s, i) == setup.filters[s][i] \in {"exact", "all"}
             picked(s) == SelectExceptionFilter(setup.filters[s])
  <2> SUFFICES ASSUME TypeOK, AskedInv, NEW c \in Conns, pc[c] = "filter",
                      NEW s \in {"handler", "controller", "global"},
                      NEW i \in DOMAIN setup.filters[s], takes(s, i)
               PROVE  /\ caught[c] # <<>>
                      /\ rank[caught[c][1]] <= rank[s]
                      /\ s = caught[c][1] => LET best == caught[c][2] IN
                           /\ takes(s, best)
                           /\ setup.filters[s][i] = "exact" => setup.filters[s][best] = "exact"
                           /\ setup.filters[s][i] = setup.filters[s][best] => i <= best
    BY DEF FilterPrecedence
  <2>1. /\ setup.filters \in [{"handler", "controller", "global"} -> Seq(Kinds)]
        /\ DOMAIN setup.filters = {"handler", "controller", "global"}
    BY ServerAssumption DEF TypeOK, Kinds
  <2>2. \A t \in {"handler", "controller", "global"} :
          Best(setup.filters[t], Len(setup.filters[t]), picked(t))
    BY <2>1, LoopSelects
  <2>3. caught[c] = IF picked("handler") # 0 THEN <<"handler", picked("handler")>>
                    ELSE IF picked("controller") # 0 THEN <<"controller", picked("controller")>>
                    ELSE IF picked("global") # 0 THEN <<"global", picked("global")>>
                    ELSE <<>>
    BY <2>1 DEF AskedInv, ChosenFilter
  <2>4. /\ setup.filters[s] \in Seq(Kinds)
        /\ i \in 1..Len(setup.filters[s])
        /\ setup.filters[s][i] \in {"exact", "all"}
    BY <2>1
  <2> DEFINE q == setup.filters[s]  b == picked(s)
  <2>5. Score(q[i]) > 0 /\ Best(q, Len(q), b)
    BY <2>2, <2>4 DEF Score
  <2>6. b # 0 /\ b \in 1..Len(q) /\ q[b] \in Kinds /\ Score(q[b]) > 0
    <3> HIDE DEF q, b
    <3> QED
      BY <2>4, <2>5 DEF Best, q
  <2>7. /\ q[b] \in {"exact", "all"}
        /\ q[i] = "exact" => q[b] = "exact"
        /\ q[i] = q[b] => i <= b
    <3> HIDE DEF q, b
    <3> QED
      BY <2>4, <2>5, <2>6 DEF Best, q, Score, Kinds
  <2> HIDE DEF picked, takes
  <2>8. caught[c] # <<>> /\ rank[caught[c][1]] <= rank[s]
    BY <2>3, <2>6
  <2>9. s = caught[c][1] => caught[c][2] = b
    BY <2>3, <2>6
  <2> QED
    BY <2>7, <2>8, <2>9 DEF takes
<1> QED
  BY <1>1, ServerTyped, AskedInvariant, PTL

=============================================================================
