----------------------------- MODULE MCRequests -----------------------------
(* A request finds its route among every registry of up to four of these registrations, and goes  *)
(* through the server of MCServer: two parts, side by side.  `part` is the one a behaviour moves. *)
EXTENDS MCServer, Routing

CONSTANTS a, b, v1, v2

L(s) == <<"lit", s>>
P(n) == <<"param", n>>
Def(how, method, prefix, pattern, version) ==
  [how |-> how, method |-> method, prefix |-> prefix, pattern |-> pattern, version |-> version]

MCRoutes ==
  {Def("static", "GET", <<>>, <<>>, None), Def("static", "GET", <<>>, <<L(a)>>, None),
   Def("static", "GET", <<>>, <<P("x")>>, None),
   Def("pattern", "GET", <<>>, <<P("x")>>, None), Def("pattern", "POST", <<>>, <<P("y")>>, None),
   Def("pattern", "ALL", <<>>, <<P("x")>>, None),
   Def("pattern", "GET", <<>>, <<<<"opt", "x">>>>, None),
   Def("pattern", "GET", <<>>, <<<<"wild", "*">>>>, None),
   Def("pattern", "GET", <<L(a)>>, <<P("x")>>, None),
   Def("pattern", "GET", <<L(a)>>, <<<<"opt", "x">>>>, None),
   Def("pattern", "POST", <<L(a)>>, <<<<"wild", "rest">>>>, None),
   Def("pattern", "GET", <<P("x")>>, <<L(a)>>, None),
   Def("pattern", "GET", <<P("x")>>, <<L(b), <<"wild", "rest">>>>, None),
   Def("pattern", "GET", <<<<"opt", "x">>>>, <<L(a)>>, None),
   Def("uri", "GET", <<L(a)>>, <<P("x")>>, b),
   Def("tag", "GET", <<>>, <<L(a)>>, v1), Def("tag", "POST", <<>>, <<P("x")>>, v1),
   Def("tag", "GET", <<>>, <<<<"opt", "x">>>>, v2)}

-----------------------------------------------------------------------------
VARIABLE part

RequestsInit ==
  /\ part \in {"routing", "server"}
  /\ RoutingInit
  /\ Init
  /\ part = "routing" => setup = Plain

RequestsNext ==
  /\ UNCHANGED part
  /\ \/ part = "routing" /\ RoutingNext /\ UNCHANGED vars
     \/ part = "server" /\ Next /\ UNCHANGED routingVars

\* The server goes on as it does alone; beside a registry it does not move.
RequestsSpec ==
  /\ RequestsInit
  /\ [][RequestsNext]_<<part, vars, routingVars>>
  /\ part = "server" => Fairness
=============================================================================
