------------------------------- MODULE Server -------------------------------
(* NivasaServer: the accept loop, its connections, and the path of a request through             *)
(* handle_request, with the blocking handler threads that outlive it. A connection carries one   *)
(* request after another (HTTP/1.1 keep-alive); it runs in a task of its own, so connections     *)
(* interleave freely. Code without an await cannot be dropped: Awaiting says where it can.       *)
EXTENDS RequestChart

CONSTANTS
  Conns,        \* connections a client may open
  Threads,      \* threads of the blocking pool
  Paths,        \* request paths
  Setups        \* the server configurations to start from; `requests` bounds the requests of
                \* a connection

ASSUME ServerAssumption ==
  /\ Threads \in Nat \ {0}
  /\ Paths # {}
  /\ \A s \in Setups :
       /\ s.requests \in [Conns -> Nat]
       /\ {s.global, s.module, s.routeModule, s.guards, s.pipes, s.interceptors} \subseteq Nat
       /\ IsFiniteSet(DOMAIN s.route)
       /\ s.filters \in [{"handler", "controller", "global"} -> Seq({"exact", "all", "other"})]

VARIABLES
  setup,        \* the configuration `listen` was started with
  server,       \* the accept loop: accepting, draining, returned, failed
  pc,           \* per connection: new, idle, closed, or the place its request is at
  at,           \* layer of the sequence `pc` is in
  path,         \* path of the request
  chart,        \* state of RequestPipeline's engine, "none" before it is created
  called,       \* handler_called of execute_interceptors
  res,          \* what `next` returned to the interceptor `at`: none, ok or err
  answer,       \* the response of the last request
  sent,         \* requests received so far
  job,          \* the blocking handler task of every request
  trail,        \* history: the layers the request has passed, in order
  caught        \* history: the exception filter that was asked

vars == <<setup, server, pc, at, path, chart, called, res, answer, sent, job, trail, caught>>

MwStages == {"global", "module", "routeModule", "route"}

\* Route middleware of configuration `s` that applies to path `p`.
MatchingRouteMiddlewares(s, p) ==
  {i \in DOMAIN s.route : p \in s.route[i].on /\ p \notin s.route[i].excluded}

Count(c, stage) ==
  CASE stage = "global" -> setup.global
    [] stage = "module" -> setup.module
    [] stage = "routeModule" -> setup.routeModule
    [] stage = "route" -> Cardinality(MatchingRouteMiddlewares(setup, path[c]))
    [] stage = "guard" -> setup.guards
    [] OTHER -> 0

Closed(c) == pc[c] \in {"new", "closed"}
Busy(c) == ~Closed(c) /\ pc[c] # "idle"

Score(f) == CASE f = "exact" -> 2 [] f = "all" -> 1 [] OTHER -> 0
\* Mutant: the first of several equally good filters wins.
SelectExceptionFilter_First(filters) ==
  LET picked == {i \in DOMAIN filters : Score(filters[i]) > 0}
  IN  IF picked = {} THEN 0
      ELSE CHOOSE i \in picked : \A k \in picked :
             Score(filters[k]) < Score(filters[i]) \/ (Score(filters[k]) = Score(filters[i]) /\ i <= k)

\* The filters of one scope that take an HttpException: a matching type beats catch-all, and the
\* later registration wins among equals.
SelectExceptionFilter(filters) ==
  LET Better(best, i) ==
        \/ Score(filters[i]) > 0 /\ best = 0
        \/ best # 0 /\ Score(filters[i]) > Score(filters[best])
        \/ best # 0 /\ Score(filters[i]) > 0 /\ Score(filters[i]) = Score(filters[best]) /\ i > best
      fold[i \in 0..Len(filters)] ==
        IF i = 0 THEN 0 ELSE IF Better(fold[i - 1], i) THEN i ELSE fold[i - 1]
  IN  fold[Len(filters)]

\* The filter that is asked: handler scope first, then controller, then global.
ChosenFilter ==
  LET picked == [s \in DOMAIN setup.filters |-> SelectExceptionFilter(setup.filters[s])]
  IN  CASE picked.handler # 0 -> <<"handler", picked.handler>>
        [] picked.handler = 0 /\ picked.controller # 0 -> <<"controller", picked.controller>>
        [] picked.handler = 0 /\ picked.controller = 0 /\ picked.global # 0
             -> <<"global", picked.global>>
        [] OTHER -> <<>>

\* Where the request waits for something: user code, the body or the handler thread.
Awaiting(c) ==
  \/ pc[c] \in {"body", "interceptor", "wait"}
  \/ pc[c] \in MwStages \cup {"guard"} /\ at[c] <= Count(c, pc[c])
  \/ pc[c] = "filter" /\ caught[c] # <<>>
UserCode(c) == Awaiting(c) /\ pc[c] \notin {"body", "wait", "filter"}

Init ==
  /\ setup \in Setups
  /\ server = "accepting"
  /\ pc = [c \in Conns |-> "new"]
  /\ at = [c \in Conns |-> 0]
  /\ path \in [Conns -> {CHOOSE p \in Paths : TRUE}]
  /\ chart = [c \in Conns |-> "none"]
  /\ called = [c \in Conns |-> FALSE]
  /\ res = [c \in Conns |-> "none"]
  /\ answer = [c \in Conns |-> "none"]
  /\ sent = [c \in Conns |-> 0]
  /\ job = [c \in Conns |-> [n \in 1..setup.requests[c] |-> "none"]]
  /\ trail = [c \in Conns |-> <<>>]
  /\ caught = [c \in Conns |-> <<>>]

-----------------------------------------------------------------------------
(* The accept loop and its connections. *)

Accept(c) ==
  /\ server = "accepting"
  /\ pc[c] = "new"
  /\ pc' = [pc EXCEPT ![c] = "idle"]
  /\ UNCHANGED <<setup, server, at, path, chart, called, res, answer, sent, job, trail, caught>>

\* `accept?` returns from listen; dropping the JoinSet aborts every connection.
AcceptFails ==
  /\ server = "accepting"
  /\ server' = "failed"
  /\ pc' = [c \in Conns |-> "closed"]
  /\ UNCHANGED <<setup, at, path, chart, called, res, answer, sent, job, trail, caught>>

\* The shutdown future resolves and the loop breaks; open connections go on.
Shutdown ==
  /\ server = "accepting"
  /\ server' = "draining"
  /\ UNCHANGED <<setup, pc, at, path, chart, called, res, answer, sent, job, trail, caught>>

\* join_next has returned for every connection.
Return ==
  /\ server = "draining"
  /\ \A c \in Conns : Closed(c)
  /\ server' = "returned"
  /\ UNCHANGED <<setup, pc, at, path, chart, called, res, answer, sent, job, trail, caught>>

\* The client closes the connection; a request on it is dropped where it waits.
Leave(c) ==
  /\ pc[c] = "idle" \/ Awaiting(c)
  /\ pc' = [pc EXCEPT ![c] = "closed"]
  /\ UNCHANGED <<setup, server, at, path, chart, called, res, answer, sent, job, trail, caught>>

\* User code panics outside the filters: the connection's task ends with it.
Panic(c) ==
  /\ UserCode(c)
  /\ pc' = [pc EXCEPT ![c] = "closed"]
  /\ UNCHANGED <<setup, server, at, path, chart, called, res, answer, sent, job, trail, caught>>

Receive(c) ==
  /\ pc[c] = "idle"
  /\ sent[c] < setup.requests[c]
  /\ sent' = [sent EXCEPT ![c] = @ + 1]
  /\ \E p \in Paths : path' = [path EXCEPT ![c] = p]
  /\ pc' = [pc EXCEPT ![c] = "body"]
  /\ at' = [at EXCEPT ![c] = 0]
  /\ chart' = [chart EXCEPT ![c] = "none"]
  /\ called' = [called EXCEPT ![c] = FALSE]
  /\ res' = [res EXCEPT ![c] = "none"]
  /\ answer' = [answer EXCEPT ![c] = "none"]
  /\ trail' = [trail EXCEPT ![c] = <<>>]
  /\ caught' = [caught EXCEPT ![c] = <<>>]
  /\ UNCHANGED <<setup, server, job>>

-----------------------------------------------------------------------------
(* handle_request, one connection's current request. *)

\* The request moves on with its chart in state `s`.
Go(c, place, layer, s) ==
  /\ pc' = [pc EXCEPT ![c] = place]
  /\ at' = [at EXCEPT ![c] = layer]
  /\ chart' = [chart EXCEPT ![c] = s]
  /\ UNCHANGED <<setup, server, path, sent, answer>>

\* handle_request returns a response; a refused event turns it into "... transition failed".
Answer(c, kind, s) ==
  /\ answer' = [answer EXCEPT ![c] = IF s = "refused" THEN "transition" ELSE kind]
  /\ pc' = [pc EXCEPT ![c] = "idle"]
  /\ chart' = [chart EXCEPT ![c] = s]
  /\ UNCHANGED <<setup, server, path, sent, at>>

\* The three sends of a request whose handler has returned.
Finish(s) == SendEvent(Drive(s, "handler.complete", "interceptors.post.complete"), "response.sent")

\* A chain of sends that must succeed before an exception goes to the filters.
ToFilters(c, s) ==
  IF s = "refused"
  THEN Answer(c, "transition", s) /\ UNCHANGED caught
  ELSE Go(c, "filter", 0, s) /\ caught' = [caught EXCEPT ![c] = ChosenFilter]

\* What is recorded of `n` layers of one stage.
Layers(stage, n) == [i \in 1..n |-> <<stage, i>>]
Passed(c, stage) == trail' = [trail EXCEPT ![c] = Append(@, <<stage, at[c]>>)]

\* Mutant: the deadline is not armed while the handler runs.
Timeout_NotHandler(c) ==
  /\ setup.timeout
  /\ Awaiting(c) /\ pc[c] # "wait"
  /\ Answer(c, "timeout", chart[c])
  /\ UNCHANGED <<called, res, job, trail, caught>>

\* tokio::time::timeout drops the future; the handler's thread is not told.
Timeout(c) ==
  /\ setup.timeout
  /\ Awaiting(c)
  /\ Answer(c, "timeout", chart[c])
  /\ UNCHANGED <<called, res, job, trail, caught>>

Preflight(c) ==
  /\ pc[c] = "body"
  /\ setup.cors
  /\ Answer(c, "preflight", "none")
  /\ UNCHANGED <<called, res, job, trail, caught>>

\* TooLarge or Invalid.
RejectBody(c) ==
  /\ pc[c] = "body"
  /\ Answer(c, "badBody", "none")
  /\ UNCHANGED <<called, res, job, trail, caught>>

CollectBody(c) ==
  /\ pc[c] = "body"
  /\ Go(c, "global", 1, "none")
  /\ UNCHANGED <<called, res, job, trail, caught>>

\* execute_middleware: the layer called `next`; whatever it answered is dropped.
Forward(c) ==
  /\ pc[c] \in MwStages
  /\ at[c] <= Count(c, pc[c])
  /\ Passed(c, pc[c])
  /\ Go(c, pc[c], at[c] + 1, chart[c])
  /\ UNCHANGED <<called, res, job, caught>>

\* The layer did not call `next`. Only the global one tells a (fresh) pipeline.
ShortCircuit(c) ==
  /\ pc[c] \in MwStages
  /\ at[c] <= Count(c, pc[c])
  /\ Answer(c, "shortCircuit",
            IF pc[c] = "global" THEN Drive("received", "request.parsed", "error.middleware")
            ELSE chart[c])
  /\ UNCHANGED <<called, res, job, trail, caught>>

\* After the global middleware: RequestPipeline::new, parse_request, complete_middleware and
\* match_route. The outcome is the routing table's.
MatchRoute(c) ==
  /\ pc[c] = "global"
  /\ at[c] > Count(c, "global")
  /\ LET parsed == Drive("received", "request.parsed", "middleware.complete")
     IN  \/ Go(c, "module", 1, SendEvent(parsed, "route.matched"))
         \/ Answer(c, "notFound", SendEvent(parsed, "route.not_found"))
         \/ Answer(c, "methodNotAllowed", SendEvent(parsed, "route.method_not_allowed"))
  /\ UNCHANGED <<called, res, job, trail, caught>>

StageAfter == [module |-> "routeModule", routeModule |-> "route", route |-> "guard"]

NextSequence(c) ==
  /\ pc[c] \in DOMAIN StageAfter
  /\ at[c] > Count(c, pc[c])
  /\ Go(c, StageAfter[pc[c]], 1, chart[c])
  /\ UNCHANGED <<called, res, job, trail, caught>>

\* evaluate_guard_chain.
GuardPasses(c) ==
  /\ pc[c] = "guard"
  /\ at[c] <= Count(c, "guard")
  /\ Passed(c, "guard")
  /\ Go(c, "guard", at[c] + 1, chart[c])
  /\ UNCHANGED <<called, res, job, caught>>

\* Mutant: a guard that denies is passed over.
GuardDenies_Continues(c) ==
  /\ pc[c] = "guard"
  /\ at[c] <= Count(c, "guard")
  /\ Go(c, "guard", at[c] + 1, chart[c])
  /\ UNCHANGED <<called, res, job, trail, caught>>

GuardDenies(c) ==
  /\ pc[c] = "guard"
  /\ at[c] <= Count(c, "guard")
  /\ Answer(c, "denied", SendEvent(chart[c], "guard.denied"))
  /\ UNCHANGED <<called, res, job, trail, caught>>

GuardFails(c) ==
  /\ pc[c] = "guard"
  /\ at[c] <= Count(c, "guard")
  /\ ToFilters(c, SendEvent(chart[c], "error.guard"))
  /\ UNCHANGED <<called, res, job, trail>>

\* Mutant: interceptors.pre.complete is not sent.
GuardsPassed_NoPre(c) ==
  /\ pc[c] = "guard"
  /\ at[c] > Count(c, "guard")
  /\ Go(c, "pipe", 1, SendEvent(chart[c], "guards.passed"))
  /\ UNCHANGED <<called, res, job, trail, caught>>

GuardsPassed(c) ==
  /\ pc[c] = "guard"
  /\ at[c] > Count(c, "guard")
  /\ LET s == Drive(chart[c], "guards.passed", "interceptors.pre.complete")
     IN  IF s = "refused" THEN Answer(c, "transition", s) ELSE Go(c, "pipe", 1, s)
  /\ UNCHANGED <<called, res, job, trail, caught>>

\* apply_global_pipes runs without an await; `setup.pipes` of them, or the failure of one.
PipesPass(c) ==
  /\ pc[c] = "pipe"
  /\ trail' = [trail EXCEPT ![c] = @ \o Layers("pipe", setup.pipes)]
  /\ LET s == SendEvent(chart[c], "pipes.complete")
     IN  IF s = "refused" THEN Answer(c, "transition", s) ELSE Go(c, "run", 1, s)
  /\ UNCHANGED <<called, res, job, caught>>

PipeFails(c) ==
  /\ pc[c] = "pipe"
  /\ setup.pipes > 0
  /\ ToFilters(c, SendEvent(chart[c], "error.pipe"))
  /\ UNCHANGED <<called, res, job, trail>>

\* spawn_blocking puts the handler in the queue of the blocking pool.
Spawn(c) == job' = [job EXCEPT ![c][sent[c]] = "queued"]

RunDirect(c) ==
  /\ pc[c] = "run"
  /\ setup.interceptors = 0
  /\ Spawn(c)
  /\ Go(c, "wait", 0, chart[c])
  /\ UNCHANGED <<called, res, trail, caught>>

RunIntercepted(c) ==
  /\ pc[c] = "run"
  /\ setup.interceptors > 0
  /\ Go(c, "interceptor", 1, chart[c])
  /\ UNCHANGED <<called, res, job, trail, caught>>

\* An interceptor calls next.handle(), which consumes `next`: the following one starts, or after
\* the last the handler.
CallNext(c) ==
  /\ pc[c] = "interceptor"
  /\ res[c] = "none"
  /\ Passed(c, "interceptor")
  /\ IF at[c] < setup.interceptors
     THEN Go(c, "interceptor", at[c] + 1, chart[c]) /\ UNCHANGED <<called, job>>
     ELSE /\ called' = [called EXCEPT ![c] = TRUE]
          /\ Spawn(c)
          /\ Go(c, "wait", at[c], chart[c])
  /\ UNCHANGED <<res, caught>>

\* An interceptor that has called next gives up waiting for it.
Abandon(c) ==
  /\ pc[c] \in {"interceptor", "wait"}
  /\ \E k \in 1..setup.interceptors :
       /\ k < at[c] \/ pc[c] = "wait"
       /\ Go(c, "interceptor", k, chart[c])
  /\ res' = [res EXCEPT ![c] = "err"]
  /\ UNCHANGED <<called, job, trail, caught>>

\* The interceptor returns Ok or Err, with or without having called next.
InterceptorReturns(c) ==
  /\ pc[c] = "interceptor"
  /\ \E r \in {"ok", "err"} : res' = [res EXCEPT ![c] = r]
  /\ IF at[c] > 1 THEN Go(c, "interceptor", at[c] - 1, chart[c]) ELSE Go(c, "settle", 0, chart[c])
  /\ UNCHANGED <<called, job, trail, caught>>

\* The handler's JoinHandle is ready; a panic of the handler is an error.
HandlerReturns(c) ==
  LET outcome == job[c][sent[c]] IN
  /\ pc[c] = "wait"
  /\ outcome \in {"done", "panicked"}
  /\ IF setup.interceptors > 0
     THEN /\ res' = [res EXCEPT ![c] = IF outcome = "done" THEN "ok" ELSE "err"]
          /\ Go(c, "interceptor", setup.interceptors, chart[c])
     ELSE /\ IF outcome = "done"
             THEN Answer(c, "handled", Finish(chart[c]))
             ELSE Answer(c, "handlerFailed", SendEvent(chart[c], "error.handler"))
          /\ UNCHANGED res
  /\ UNCHANGED <<called, job, trail, caught>>

\* Mutant: Ok counts as completed whether or not the handler was called.
Completed_NotCalled(c) ==
  /\ pc[c] = "settle" /\ res[c] = "ok"
  /\ Answer(c, "handled", Finish(chart[c]))
  /\ UNCHANGED <<called, res, job, trail, caught>>

\* What handle_request makes of execute_interceptors' result.
Completed(c) ==
  /\ pc[c] = "settle" /\ res[c] = "ok" /\ called[c]
  /\ Answer(c, "handled", Finish(chart[c]))
  /\ UNCHANGED <<called, res, job, trail, caught>>

InterceptorAnswered(c) ==
  /\ pc[c] = "settle" /\ res[c] = "ok" /\ ~called[c]
  /\ Answer(c, "intercepted", SendEvent(chart[c], "error.interceptor"))
  /\ UNCHANGED <<called, res, job, trail, caught>>

InterceptorFailed(c) ==
  /\ pc[c] = "settle" /\ res[c] = "err"
  /\ ToFilters(c, IF called[c]
                  THEN Drive(chart[c], "handler.complete", "error.interceptor_post")
                  ELSE SendEvent(chart[c], "error.interceptor"))
  /\ UNCHANGED <<called, res, job, trail>>

\* handle_http_exception: the chosen filter answers or panics; without one the summary is sent.
FilterEnds(c) ==
  /\ pc[c] = "filter"
  /\ \E kind \in IF caught[c] = <<>> THEN {"summary"} ELSE {"filtered", "fallback"} :
       Answer(c, kind, chart[c])
  /\ UNCHANGED <<called, res, job, trail, caught>>

-----------------------------------------------------------------------------
(* The blocking pool (tokio): at most Threads handlers at a time, in any order. *)

Running == UNION {{<<c, n>> : n \in {k \in 1..setup.requests[c] : job[c][k] = "running"}} : c \in Conns}

JobStarts(c, n) ==
  /\ job[c][n] = "queued"
  /\ Cardinality(Running) < Threads
  /\ job' = [job EXCEPT ![c][n] = "running"]
  /\ UNCHANGED <<setup, server, pc, at, path, chart, called, res, answer, sent, trail, caught>>

JobEnds(c, n) ==
  /\ job[c][n] = "running"
  /\ \E outcome \in {"done", "panicked"} : job' = [job EXCEPT ![c][n] = outcome]
  /\ UNCHANGED <<setup, server, pc, at, path, chart, called, res, answer, sent, trail, caught>>

\* Code of the server itself, which nothing holds up.
ServerStep(c) ==
  \/ MatchRoute(c) \/ NextSequence(c) \/ GuardsPassed(c) \/ PipesPass(c) \/ PipeFails(c)
  \/ RunDirect(c) \/ RunIntercepted(c) \/ HandlerReturns(c)
  \/ Completed(c) \/ InterceptorAnswered(c) \/ InterceptorFailed(c)
  \/ (FilterEnds(c) /\ caught[c] = <<>>)

\* Steps of the client and of user code.
OtherStep(c) ==
  \/ Accept(c) \/ Leave(c) \/ Panic(c) \/ Receive(c) \/ Preflight(c) \/ RejectBody(c)
  \/ CollectBody(c) \/ Forward(c) \/ ShortCircuit(c)
  \/ GuardPasses(c) \/ GuardDenies(c) \/ GuardFails(c)
  \/ CallNext(c) \/ Abandon(c) \/ InterceptorReturns(c)
  \/ (FilterEnds(c) /\ caught[c] # <<>>)

Stop == server \in {"returned", "failed"} /\ (\A c \in Conns : Closed(c)) /\ UNCHANGED vars

Next ==
  \/ AcceptFails \/ Shutdown \/ Return \/ Stop
  \/ \E c \in Conns : ServerStep(c) \/ OtherStep(c) \/ Timeout(c)
                      \/ \E n \in DOMAIN job[c] : JobStarts(c, n) \/ JobEnds(c, n)

\* The runtime keeps polling: the server's own code and an armed timer always go on. Nothing is
\* assumed of user code, which may hang, nor of clients, which may keep an idle connection for ever.
Fairness ==
  /\ WF_vars(Return)
  /\ \A c \in Conns : WF_vars(ServerStep(c)) /\ WF_vars(Timeout(c))

Spec == Init /\ [][Next]_vars /\ Fairness

-----------------------------------------------------------------------------
(* Properties. *)

Refusals == {"preflight", "badBody", "shortCircuit", "notFound", "methodNotAllowed", "denied"}
Failures == {"intercepted", "handlerFailed", "filtered", "fallback", "summary"}

Places == MwStages \cup {"new", "idle", "closed", "body", "guard", "pipe", "run",
                        "interceptor", "wait", "settle", "filter"}
Answers == Refusals \cup Failures \cup {"none", "handled", "timeout", "transition"}

\* Every variable has its type: a layer, a chart state, one handler task per request received by
\* handle_request.
TypeOK ==
  /\ setup \in Setups
  /\ server \in {"accepting", "draining", "returned", "failed"}
  /\ pc \in [Conns -> Places]
  /\ at \in [Conns -> Nat]
  /\ path \in [Conns -> Paths]
  /\ chart \in [Conns -> ChartStates \cup {"none", "refused"}]
  /\ called \in [Conns -> BOOLEAN]
  /\ res \in [Conns -> {"none", "ok", "err"}]
  /\ answer \in [Conns -> Answers]
  /\ sent \in [Conns -> Nat] /\ \A c \in Conns : sent[c] <= setup.requests[c]
  /\ DOMAIN job = Conns
  /\ \A c \in Conns :
       job[c] \in [1..setup.requests[c] -> {"none", "queued", "running", "done", "panicked"}]

\* The path through handle_request never sends the engine an event its state does not have: the
\* "... transition failed" responses of server.rs are unreachable, whatever the layers do.
NoneRefused == \A c \in Conns : chart[c] # "refused" /\ answer[c] # "transition"

\* Every layer that must agree before the handler of this request may run, in order.
FullTrail(c) ==
  Layers("global", setup.global) \o Layers("module", setup.module)
    \o Layers("routeModule", setup.routeModule) \o Layers("route", Count(c, "route"))
    \o Layers("guard", setup.guards) \o Layers("pipe", setup.pipes)
    \o Layers("interceptor", setup.interceptors)

\* A handler is queued only after every middleware that applies to the path, every guard, pipe and
\* interceptor of the same request let it through in that order; a request that was refused has
\* no handler, then or later, also when an earlier request on the connection timed out.
HandlerGuarded ==
  \A c \in Conns : sent[c] > 0 /\ job[c][sent[c]] # "none" =>
    trail[c] = FullTrail(c) /\ answer[c] \notin Refusals

FailedStage == Failures \cup {"denied", "notFound", "methodNotAllowed"}
ErrorPath == {"error_handling", "sending_response", "done"}

\* When a response leaves handle_request, the chart tells what it was: done for the answer of a
\* handler that was started; on the error path of docs/request-lifecycle.md:66-73 for every failure
\* after route matching (how far along it is the subject of FailuresReachDone); and never done for a
\* short circuit, a preflight, a refused body or a deadline.
ChartTellsOutcome ==
  \A c \in Conns :
    /\ answer[c] = "handled" => chart[c] = "done" /\ job[c][sent[c]] # "none"
    /\ answer[c] \in FailedStage => chart[c] \in ErrorPath
    /\ chart[c] = "done" => answer[c] \in FailedStage \cup {"handled"}

\* docs/request-lifecycle.md:48-49: "When a stage fails, the pipeline enters `ErrorHandling` and
\* then continues to `SendingResponse` before reaching `Done`." The code sends none of the events
\* that leave error_handling.
FailuresReachDone == \A c \in Conns : answer[c] \in FailedStage => chart[c] = "done"

\* The filter that is asked is the one the documentation of filters promises: none of a more
\* specific scope would take the exception, none of its own scope is a better match, and none was
\* registered later with an equal one; no filter is asked only if none takes it.
FilterPrecedence ==
  LET rank == [handler |-> 1, controller |-> 2, global |-> 3]
      takes(s, i) == setup.filters[s][i] \in {"exact", "all"}
  IN  \A c \in Conns : pc[c] = "filter" =>
        \A s \in DOMAIN rank : \A i \in DOMAIN setup.filters[s] : takes(s, i) =>
          /\ caught[c] # <<>>
          /\ rank[caught[c][1]] <= rank[s]
          /\ s = caught[c][1] => LET best == caught[c][2] IN
               /\ takes(s, best)
               /\ setup.filters[s][i] = "exact" => setup.filters[s][best] = "exact"
               /\ setup.filters[s][i] = setup.filters[s][best] => i <= best

\* With a request timeout every request ends, also when middleware, guards, interceptors, filters
\* or the handler never return or no blocking thread is free.
DeadlineHolds == \A c \in Conns : (setup.timeout /\ Busy(c)) ~> ~Busy(c)

\* With a request timeout and after a shutdown signal, nothing but a client that keeps an idle
\* connection open can hold `listen`: again and again it has returned or a connection is idle. It
\* waits for connections, not for the blocking pool, whose threads may hang.
OnlyIdleHolds ==
  (setup.timeout /\ server = "draining") ~> (server = "returned" \/ \E c \in Conns : pc[c] = "idle")

\* With a request timeout no request and no handler holds the server up: requests end, and after a
\* shutdown signal only idle connections are waited for.
TimeoutsHold == DeadlineHolds /\ OnlyIdleHolds
=============================================================================
