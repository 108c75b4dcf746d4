------------------------------ MODULE MCServer ------------------------------
(* Two server configurations: a deadline and two connections that share one handler thread, and a *)
(* chain of interceptors and pipes, with CORS and filters of every scope, without a deadline.     *)
EXTENDS Server
CONSTANTS c1, c2, public, private

Plain ==
  [requests |-> [c \in {c1, c2} |-> IF c = c1 THEN 2 ELSE 1],
   cors |-> FALSE, timeout |-> TRUE,
   global |-> 0, module |-> 0, routeModule |-> 0,
   route |-> <<[on |-> {public, private}, excluded |-> {public}]>>,
   guards |-> 1, pipes |-> 0, interceptors |-> 0,
   filters |-> [handler |-> <<>>, controller |-> <<"other">>, global |-> <<>>]]

Chained ==
  [requests |-> [c \in {c1, c2} |-> IF c = c1 THEN 2 ELSE 0],
   cors |-> TRUE, timeout |-> FALSE,
   global |-> 1, module |-> 1, routeModule |-> 1, route |-> <<>>,
   guards |-> 1, pipes |-> 1, interceptors |-> 2,
   filters |-> [handler |-> <<"other">>, controller |-> <<"all", "exact", "exact", "all">>,
                global |-> <<"exact">>]]

MCSetups == {Plain, Chained}
=============================================================================
