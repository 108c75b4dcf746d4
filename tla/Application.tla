---------------------------- MODULE Application ----------------------------
(***************************************************************************)
(* From a compiled module to a server: NestApplication::build, App::listen *)
(* and the process-wide registry of controller route handlers              *)
(* (nivasa/src/application.rs, nivasa-http/src/lib.rs:162-200).  The       *)
(* registry is filled as a side effect of asking the macros for the        *)
(* routes, under the path of the controller without the global prefix; the *)
(* server looks handlers up under its own paths with the prefix taken off. *)
(***************************************************************************)
EXTENDS Controllers, TLC

CONSTANTS
  GlobalPrefixes,   \* what authors pass to global_prefix, <<>> for no call
  MaxBuilds         \* bound on the calls of build

VARIABLES
  registry,   \* CONTROLLER_ROUTE_HANDLERS: [path, handler] to the controller that runs
  app         \* what build and listen came to

appVars == <<registry, app>>

NoApp == [stage |-> "new", prefix |-> <<>>, routes |-> <<>>, served |-> <<>>, builds |-> 0]

-----------------------------------------------------------------------------
(* Paths. *)

\* ServerOptionsBuilder::global_prefix and normalize_path_prefix: "/" stays "/".
NormalizePrefix(prefix) ==
  LET slashed == IF prefix = <<>> \/ Head(prefix) = "/" THEN prefix ELSE <<"/">> \o prefix
  IN  IF Len(slashed) > 1 THEN TrimRight(slashed) ELSE slashed

NormalizeRoute(path) == <<"/">> \o TrimRight(TrimLeft(path))

PrefixedRoutePath(prefix, path) ==
  LET route == NormalizeRoute(path)
  IN  IF prefix = <<>> THEN route
      ELSE IF route = <<"/">> THEN prefix ELSE prefix \o route

\* Slip: the prefix is not taken off.
LookupPath_Prefixed(prefix, path) == NormalizeRoute(path)

\* controller_lookup_path.
LookupPath(prefix, path) ==
  LET p == NormalizeRoute(path)
      g == NormalizeRoute(prefix)
      under == Len(p) > Len(g) /\ SubSeq(p, 1, Len(g)) = g /\ p[Len(g) + 1] = "/"
  IN  IF prefix = <<>> \/ g = <<"/">> THEN p
      ELSE IF p = g THEN <<"/">>
      ELSE IF under THEN SubSeq(p, Len(g) + 1, Len(p)) ELSE p

-----------------------------------------------------------------------------

ApplicationInit ==
  /\ ControllersInit
  /\ registry = << >>
  /\ app = NoApp

\* register_controller_route_handler, for every handler of the module in turn: the
\* last one under a key stays.
HandlersRegistered ==
  LET all == FlattenSeq([i \in DOMAIN text.controllers |-> HandlerRegistrations(i)])
  IN  FoldLeft(LAMBDA reg, h : ([path |-> h.path, handler |-> h.handler] :> h.controller) @@ reg,
               registry, all)

\* controller_registrations: the routes of the root module.
Registrations ==
  FlattenSeq([i \in DOMAIN text.controllers |->
    MapSeq(LAMBDA m : RouteRegistration(i, m), RoutesOf(text.controllers[i]))])

ResolvedRoutes(prefix) ==
  MapSeq(LAMBDA r : [r EXCEPT !.path = PrefixedRoutePath(prefix, @)], Registrations)

Duplicates(routes) ==
  \E i, j \in DOMAIN routes :
    i # j /\ routes[i].method = routes[j].method /\ routes[i].path = routes[j].path

BuildFails == app' = [NoApp EXCEPT !.stage = "failed", !.builds = app.builds + 1]

\* NestApplication::build, with any options.  A preflight that fails leaves the registry alone; a
\* configure or an initialize that fails, and routes that meet, do not.
Build ==
  /\ compiled = "compiled"
  /\ app.stage \in {"new", "failed"}
  /\ app.builds < MaxBuilds
  /\ \/ BuildFails /\ UNCHANGED registry       \* in preflight
     \/ BuildFails /\ registry' = HandlersRegistered   \* in configure or initialize
     \/ \E given \in GlobalPrefixes :
          LET prefix == NormalizePrefix(given)
              routes == ResolvedRoutes(prefix)
          IN  /\ registry' = HandlersRegistered
              /\ IF Duplicates(routes) THEN BuildFails
                 ELSE app' = [app EXCEPT !.stage = "built", !.prefix = prefix, !.routes = routes,
                                         !.builds = @ + 1]
  /\ UNCHANGED textVars

\* resolve_controller_route_handler.
Key(route) == [path |-> LookupPath(app.prefix, route.path), handler |-> route.handler]

Served(route) ==
  [method |-> route.method, path |-> route.path, runs |-> [controller |-> registry[Key(route)],
                                                           handler |-> route.handler],
   throttle |-> IF route.skip THEN NoThrottle ELSE route.throttle]

\* App::listen: to_server with the handlers of the registry.
Listen ==
  /\ app.stage = "built"
  /\ app' = IF \A i \in DOMAIN app.routes : Key(app.routes[i]) \in DOMAIN registry
              THEN [app EXCEPT !.stage = "listening", !.served = MapSeq(Served, app.routes)]
              ELSE [app EXCEPT !.stage = "missing"]
  /\ UNCHANGED <<textVars, registry>>

ApplicationNext ==
  \/ ControllersNext /\ UNCHANGED appVars
  \/ Build
  \/ Listen

-----------------------------------------------------------------------------

\* The methods with a verb: controller and position.
DeclaredRoutes ==
  {d \in (DOMAIN text.controllers) \X (1 .. MaxPieces) :
     /\ d[2] \in DOMAIN text.controllers[d[1]].methods
     /\ IsRoute(text.controllers[d[1]].methods[d[2]])}

Full(d) == LET c == text.controllers[d[1]] IN JoinRoute(c.path, RoutePath(c.methods[d[2]]))
Name(d) == text.controllers[d[1]].methods[d[2]].signature.name

\* The handler of another method, of the same name, is registered where the one of d is looked up.
Collides(d) ==
  \E e \in DeclaredRoutes : e # d /\ Full(e) = NormalizeRoute(Full(d)) /\ Name(e) = Name(d)

\* A listening application serves each method that was declared, once, under the global prefix,
\* with the handler of that method and with its own throttle, the default of its controller
\* otherwise and none if either is skipped, however the attributes are placed and
\* after however many builds that failed; only a method whose path and name
\* another controller repeats, for another verb, may get the handler of that one (application.rs:433-509,
\* http/lib.rs:168-200).
ServedAsDeclared ==
  app.stage = "listening" =>
    /\ Len(app.served) = Cardinality(DeclaredRoutes)
    /\ \A d \in DeclaredRoutes :
         LET c == text.controllers[d[1]]
             m == c.methods[d[2]]
         IN  \E i \in DOMAIN app.served :
               LET s == app.served[i]
               IN  /\ s.method = Verb(m)
                   /\ s.path = PrefixedRoutePath(app.prefix, Full(d))
                   /\ s.runs.handler = m.signature.name
                   /\ s.runs.controller = d[1] \/ Collides(d)
                   /\ s.throttle =
                        IF SkipThrottle(c.above \o c.below \o m.attrs) THEN NoThrottle
                        ELSE IF Has(m.attrs, "throttle") THEN ThrottleOf(m.attrs)
                        ELSE ThrottleOf(ClassSeen(c))

\* The server is refused for want of a handler only for a method that cannot be
\* dispatched or a path that is not written in its normal form, a leading slash
\* and no other around it; the global prefix never loses one (application.rs:1363-1392).
MissingIsExplained ==
  app.stage = "missing" =>
    \E d \in DeclaredRoutes :
      \/ ~Dispatchable(text.controllers[d[1]].methods[d[2]])
      \/ Full(d) # NormalizeRoute(Full(d))

\* A server that starts serves what was declared; one that does not has a reason to
\* (application.rs:1363-1392).
ServedOrExplained == ServedAsDeclared /\ MissingIsExplained
=============================================================================
