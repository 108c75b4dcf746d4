---------------------------- MODULE RequestChart ----------------------------
(* The statechart of one HTTP request (src/statecharts/nivasa.request.scxml), as the generated   *)
(* transition function and StatechartEngine::send_event see it.                                  *)
EXTENDS Naturals, Sequences, FiniteSets

\* Every transition of the chart: <<state, event, target>>.
Transitions ==
  {<<"received", "request.parsed", "middleware_chain">>,
   <<"received", "error.parse", "error_handling">>,
   <<"middleware_chain", "middleware.complete", "route_matching">>,
   <<"middleware_chain", "error.middleware", "error_handling">>,
   <<"route_matching", "route.matched", "guard_chain">>,
   <<"route_matching", "route.not_found", "error_handling">>,
   <<"route_matching", "route.method_not_allowed", "error_handling">>,
   <<"guard_chain", "guards.passed", "interceptor_pre">>,
   <<"guard_chain", "guard.denied", "error_handling">>,
   <<"guard_chain", "error.guard", "error_handling">>,
   <<"interceptor_pre", "interceptors.pre.complete", "pipe_transform">>,
   <<"interceptor_pre", "error.interceptor", "error_handling">>,
   <<"pipe_transform", "pipes.complete", "handler_execution">>,
   <<"pipe_transform", "error.validation", "error_handling">>,
   <<"pipe_transform", "error.pipe", "error_handling">>,
   <<"handler_execution", "handler.complete", "interceptor_post">>,
   <<"handler_execution", "error.interceptor", "error_handling">>,
   <<"handler_execution", "error.handler", "error_handling">>,
   <<"interceptor_post", "interceptors.post.complete", "sending_response">>,
   <<"interceptor_post", "error.interceptor_post", "error_handling">>,
   <<"error_handling", "filter.handled", "sending_response">>,
   <<"error_handling", "error.filter.unhandled", "sending_response">>,
   <<"sending_response", "response.sent", "done">>,
   <<"sending_response", "error.send", "done">>}

ChartStates == {t[1] : t \in Transitions} \cup {"done"}

Target == [k \in {<<t[1], t[2]>> : t \in Transitions} |->
             (CHOOSE t \in Transitions : <<t[1], t[2]>> = k)[3]]

\* send_event: a transition the chart does not have is refused with InvalidTransitionError. The
\* callers chain sends with || and give up at the first refusal, so "refused" absorbs the rest.
SendEvent(state, event) ==
  IF <<state, event>> \in DOMAIN Target THEN Target[<<state, event>>] ELSE "refused"

\* Two sends, one after the other.
Drive(state, first, second) == SendEvent(SendEvent(state, first), second)
=============================================================================
