------------------------------ MODULE Routing -------------------------------
(* RouteDispatchRegistry: routes kept in order of specificity with an index by first segment, the *)
(* matcher with its captures, and the copy of the registry the server makes for every request.   *)
(* A path is a sequence of segments; a pattern is a sequence of <<kind, name>>, which stands for  *)
(* the text that is registered. Names are compared as the code compares the joined path.          *)
EXTENDS Naturals, Sequences, SequencesExt, Functions, Lists

CONSTANTS
  Letters,      \* texts of a segment
  Variables,    \* names of parameters and wildcards
  Routes,       \* the registrations a program may make: [how, method, prefix, pattern, version]
  MaxRoutes,    \* bound: routes in the registry
  MaxPath,      \* bound: segments of a request path
  RequestMethods,
  Versions,     \* version tokens, without None
  None

Segments == ({"lit"} \X Letters) \cup ({"param", "opt", "wild"} \X Variables)

\* Request paths.
RequestPaths == UNION {[1..n -> Letters] : n \in 0..MaxPath}

ASSUME RoutingAssumption ==
  /\ MaxRoutes \in Nat /\ MaxPath \in Nat
  /\ None \notin Letters \cup Versions
  /\ \A d \in Routes : /\ d.prefix \in Seq(Segments) /\ d.pattern \in Seq(Segments)
                       /\ d.version \in {None} \cup IF d.how = "uri" THEN Letters ELSE Versions

VARIABLES
  routes,       \* RouteDispatchRegistry.routes
  anchored,     \* RouteFirstSegmentIndex: indices by literal first segment
  fallback      \* ... and the indices of the other routes

routingVars == <<routes, anchored, fallback>>

-----------------------------------------------------------------------------
(* Patterns. *)

\* parse_segments: an optional parameter or a wildcard is accepted as the last segment only.
Parses(p) == \A i \in DOMAIN p : p[i][1] \in {"opt", "wild"} => i = Len(p)

\* matches_pattern_from at the segment s of a pattern, for every place j of the path: the set of its
\* captures, empty when it does not match, from those of the rest of the pattern. An optional
\* parameter is left out if the rest matches without it.
CapturesFrom(s, last, path, rest) ==
  [j \in 1..Len(path) + 1 |->
     LET bound == IF j > Len(path) THEN {}
                  ELSE {<<<<s[2], <<path[j]>>>>>> \o c : c \in rest[j + 1]}
     IN  CASE s[1] = "lit" -> IF j > Len(path) THEN {} ELSE IF path[j] # s[2] THEN {} ELSE rest[j + 1]
           [] s[1] = "param" -> bound
           [] s[1] = "opt" -> IF rest[j] # {} THEN rest[j] ELSE bound
           [] s[1] = "wild" -> IF last THEN {<<<<s[2], SubSeq(path, j, Len(path))>>>>} ELSE {}]

\* ... of the last n segments, n from nothing to all of them.
Captures(p, path) ==
  LET by[n \in 0..Len(p)] ==
        IF n = 0 THEN [j \in 1..Len(path) + 1 |-> IF j = Len(path) + 1 THEN {<<>>} ELSE {}]
        ELSE CapturesFrom(p[Len(p) + 1 - n], n = 1, path, by[n - 1])
  IN  by[Len(p)][1]

Matches(p, path) == Captures(p, path) # {}

Rank == [lit |-> 3, param |-> 2, opt |-> 1, wild |-> 0]

\* cmp_specificity = Less: the first segments of different rank decide, then the shorter pattern.
Before(p, q) ==
  LET n == IF Len(p) < Len(q) THEN Len(p) ELSE Len(q)
      differ == {i \in 1..n : Rank[p[i][1]] # Rank[q[i][1]]}
  IN  IF differ = {} THEN Len(p) < Len(q)
      ELSE LET i == CHOOSE i \in differ : \A k \in differ : i <= k
           IN  Rank[p[i][1]] > Rank[q[i][1]]

-----------------------------------------------------------------------------
(* The index. *)

\* route_pattern_first_segment; None for a pattern that starts with a variable, or the root.
FirstSegment(p) == IF p # <<>> /\ p[1][1] = "lit" THEN p[1][2] ELSE None

\* The routes whose first segment is f.
Indices(rs, f) == Ascending({i \in DOMAIN rs : FirstSegment(rs[i].pattern) = f})

\* Slip: the index is left as it was before the list was sorted again.
Rebuild_Stale(rs) ==
  /\ anchored' = anchored
  /\ fallback' = Indices(rs, None)

\* RouteFirstSegmentIndex::rebuild
Rebuild(rs) ==
  /\ anchored' = [s \in {FirstSegment(rs[i].pattern) : i \in DOMAIN rs} \ {None} |-> Indices(rs, s)]
  /\ fallback' = Indices(rs, None)

\* candidate_indices: both lists are ascending, and merge_sorted_indices keeps them so.
Candidates(path) ==
  IF path = <<>> THEN fallback
  ELSE IF path[1] \notin DOMAIN anchored THEN fallback
  ELSE Ascending(Range(anchored[path[1]]) \cup Range(fallback))

-----------------------------------------------------------------------------
(* Registration. *)

\* push and a stable sort_by: behind every route it does not precede.
Insert(rs, r) ==
  LET behind == {i \in DOMAIN rs : Before(r.pattern, rs[i].pattern)}
  IN  Picked(rs, DOMAIN rs \ behind) \o <<r>> \o Picked(rs, behind)

Same(e, r) == e.method = r.method /\ e.pattern = r.pattern /\ e.version = r.version

\* register_versioned on a list of routes: a duplicate is refused and changes nothing.
Added(rs, r) == IF \E i \in DOMAIN rs : Same(rs[i], r) THEN rs ELSE Insert(rs, r)

\* The pattern and version an entry point registers: register_controller_route merges the prefix,
\* register_versioned_controller_route puts the version in front as a literal segment,
\* register_header_versioned_route and its media type twin keep it as a tag.
Entry(d) ==
  LET merged == d.prefix \o d.pattern
  IN  [method |-> d.method,
       pattern |-> IF d.how = "uri" /\ d.version # None THEN <<<<"lit", d.version>>>> \o merged
                   ELSE merged,
       version |-> IF d.how = "tag" THEN d.version ELSE None]

\* The paths of the instance are long and many enough to tell any two patterns apart.
ASSUME EnoughPaths ==
  /\ \E s, t \in Letters : s # t
  /\ \A d \in Routes : LET p == Entry(d).pattern
                       IN  /\ Len(p) <= MaxPath
                           /\ p # <<>> /\ p[Len(p)][1] = "opt" => Len(p) < MaxPath

Accepted(d) ==
  /\ Parses(Entry(d).pattern)
  /\ d.how = "static" => \A i \in DOMAIN d.pattern : d.pattern[i][1] = "lit"

RoutingInit ==
  /\ routes = <<>>
  /\ anchored = <<>>
  /\ fallback = <<>>

Register(d) ==
  /\ Len(routes) < MaxRoutes
  /\ Accepted(d)
  /\ routes' = Added(routes, Entry(d))
  /\ Rebuild(routes')

\* UnsupportedPatternSegment
Refuse(d) ==
  /\ ~Accepted(d)
  /\ UNCHANGED routingVars

RoutingNext == \E d \in Routes : Register(d) \/ Refuse(d)
RoutingSpec == RoutingInit /\ [][RoutingNext]_routingVars

-----------------------------------------------------------------------------
(* Dispatch. *)

\* Slip: a version no route has falls back to nothing.
Select_NoFallback(path, version) ==
  Picked(routes, {i \in Range(Candidates(path)) :
                    Matches(routes[i].pattern, path) /\ routes[i].version = version})

\* select_versioned: the routes of the requested version if one matches, else the unversioned.
Select(path, version) ==
  LET tagged(v) == {i \in Range(Candidates(path)) :
                      Matches(routes[i].pattern, path) /\ routes[i].version = v}
  IN  Picked(routes, IF version # None /\ tagged(version) # {} THEN tagged(version) ELSE tagged(None))

Serves(r, method) == r.method \in {"ALL", method}

\* RouteDispatchSelection::dispatch
Dispatch(entries, method) ==
  LET fit == {i \in DOMAIN entries : Serves(entries[i], method)}
      first == entries[CHOOSE i \in fit : \A k \in fit : i <= k]
  IN  CASE fit # {} -> [kind |-> "matched", pattern |-> first.pattern, method |-> first.method]
        [] fit = {} /\ entries = <<>> -> [kind |-> "notFound"]
        [] OTHER -> [kind |-> "methodNotAllowed", allowed |-> {r.method : r \in Range(entries)}]

\* X-API-Version wins over Accept; a blank hint is none.
RequestVersion(header, accept) == IF header # None THEN header ELSE accept

\* Slip: unversioned routes stay beside those of the version.
ServerRoutes_Both(path, version) ==
  LET kept == Picked(routes, {i \in DOMAIN routes : /\ Matches(routes[i].pattern, path)
                                                   /\ routes[i].version \in {version, None}})
      copy[n \in 0..Len(kept)] ==
        IF n = 0 THEN <<>> ELSE Added(copy[n - 1], [kept[n] EXCEPT !.version = None])
  IN  copy[Len(kept)]

\* versioned_routes_for_request: the server filters every route and registers what is left,
\* without its version, in a registry of its own.
ServerRoutes(path, version) ==
  LET saw == version # None
             /\ \E i \in DOMAIN routes : routes[i].version = version /\ Matches(routes[i].pattern, path)
      kept == Picked(routes, {i \in DOMAIN routes : /\ Matches(routes[i].pattern, path)
                                                   /\ routes[i].version = IF saw THEN version ELSE None})
      copy[n \in 0..Len(kept)] ==
        IF n = 0 THEN <<>> ELSE Added(copy[n - 1], [kept[n] EXCEPT !.version = None])
  IN  copy[Len(kept)]

-----------------------------------------------------------------------------
(* Properties. *)

\* The routes are registrations, sorted and without duplicates; the index stays inside the list.
RoutesTyped ==
  /\ Len(routes) <= MaxRoutes
  /\ \A i \in DOMAIN routes : routes[i] \in {Entry(d) : d \in Routes} /\ Parses(routes[i].pattern)
  /\ \A i, j \in DOMAIN routes : i < j => /\ ~Same(routes[i], routes[j])
                                         /\ ~Before(routes[j].pattern, routes[i].pattern)
  /\ \A s \in DOMAIN anchored : Range(anchored[s]) \subseteq DOMAIN routes
  /\ Range(fallback) \subseteq DOMAIN routes

\* The index is a short cut only: through it a path sees every route that matches it, in the order
\* of the list, also after a later registration has moved routes.
IndexComplete ==
  \A path \in RequestPaths :
    LET c == Candidates(path)
    IN  /\ \A i \in DOMAIN routes : Matches(routes[i].pattern, path) => i \in Range(c)
        /\ \A j, k \in DOMAIN c : j < k => c[j] < c[k]

\* The paths of the instance a pattern stands for, by definition: literals where they are written,
\* anything for a parameter, one segment or none for an optional, any rest for a wildcard.
Language(p) ==
  LET open == IF p = <<>> THEN FALSE ELSE p[Len(p)][1] \in {"opt", "wild"}
      fixed == IF open THEN Len(p) - 1 ELSE Len(p)
      most == CASE open /\ p[Len(p)][1] = "opt" -> {fixed, fixed + 1}
                [] open /\ p[Len(p)][1] = "wild" -> {n \in {Len(q) : q \in RequestPaths} : n >= fixed}
                [] OTHER -> {fixed}
  IN  {q \in RequestPaths : Len(q) \in most /\ \A i \in 1..fixed : p[i][1] = "lit" => q[i] = p[i][2]}

\* No registration order hides a route behind a more general one: of the routes that serve a
\* request, none stands before one whose paths are a proper part of its own.
MostSpecificWins ==
  \A path \in RequestPaths, v \in Versions \cup {None} :
    LET entries == Select(path, v)
        fit(method) == {i \in DOMAIN entries : Serves(entries[i], method)}
    IN  \A method \in RequestMethods : \A i \in fit(method), k \in fit(method) :
          ~ /\ i < k
            /\ Language(entries[k].pattern) \subseteq Language(entries[i].pattern)
            /\ Language(entries[k].pattern) # Language(entries[i].pattern)

\* The variables among the first k segments of a pattern.
Bindings(p) == [k \in 0..Len(p) |-> Cardinality({i \in 1..k : p[i][1] # "lit"})]

\* A route answers exactly the paths of its pattern, and its captures put back into the pattern
\* give the path: nothing is bound twice, to the wrong segment or under another name, or lost.
CapturesFillPath ==
  \A i \in DOMAIN routes : \A path \in RequestPaths :
    LET p == routes[i].pattern
    IN  /\ Matches(p, path) <=> path \in Language(p)
        /\ \A caps \in Captures(p, path) :
             LET value(k) == IF p[k][1] = "lit" THEN <<p[k][2]>>
                             ELSE IF Bindings(p)[k] <= Len(caps) THEN caps[Bindings(p)[k]][2] ELSE <<>>
                 fill[k \in 0..Len(p)] == IF k = 0 THEN <<>> ELSE fill[k - 1] \o value(k)
             IN  /\ fill[Len(p)] = path /\ Len(caps) <= Bindings(p)[Len(p)]
                 /\ \A k \in DOMAIN p : p[k][1] # "lit" /\ Bindings(p)[k] <= Len(caps) =>
                      caps[Bindings(p)[k]][1] = p[k][2]

\* The registry answers a versioned request in two ways, dispatch_versioned and the copy the server
\* makes; they choose the same route, the same 404 and the same 405 with the same methods.
ServerAgrees ==
  LET Hints == Versions \cup {None}
  IN  \A path \in RequestPaths, v \in {RequestVersion(header, accept) : header \in Hints, accept \in Hints} :
        LET copy == ServerRoutes(path, v)
            chosen == Select(path, v)
        IN  \A method \in RequestMethods : Dispatch(copy, method) = Dispatch(chosen, method)

\* 405 names methods that would have been served, and is never said of a path some route serves
\* with this method; a path with no route of the version or without one is 404.
RefusalsAreTrue ==
  \A path \in RequestPaths, v \in Versions \cup {None} :
    LET entries == Select(path, v)
        serving == {i \in DOMAIN routes : path \in Language(routes[i].pattern)
                      /\ routes[i].version \in {v, None}}
    IN  \A method \in RequestMethods :
          LET out == Dispatch(entries, method)
          IN  /\ out.kind = "notFound" <=> serving = {}
              /\ out.kind = "methodNotAllowed" =>
                   /\ "ALL" \notin out.allowed /\ method \notin out.allowed
                   /\ \A other \in out.allowed : Dispatch(entries, other).kind = "matched"

\* The route that answers is the most specific, whatever the order of registration; the index
\* finds it and its captures are the path's (routing lib.rs).
RightRoute == RoutesTyped /\ IndexComplete /\ MostSpecificWins /\ CapturesFillPath
=============================================================================
