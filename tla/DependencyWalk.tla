--------------------------- MODULE DependencyWalk ---------------------------
(***************************************************************************)
(* The depth-first walk by which nivasa-core orders things that need each  *)
(* other: modules by their imports (module/registry.rs, resolve_order and  *)
(* dfs) and providers by their dependencies (di/graph.rs, the same two     *)
(* functions).  The two walks differ in what they do with an identifier    *)
(* that nobody registered: the module registry fails with MissingImport,   *)
(* the provider graph skips it.                                            *)
(*                                                                         *)
(* The recursion is unrolled: `path` is the call stack of dfs, and next[n] *)
(* the position of the dependency that the frame of n is looking at.  A    *)
(* frame whose callee returned finds that dependency visited and moves on. *)
(***************************************************************************)
EXTENDS Naturals, Sequences, FiniteSets, Functions

CONSTANTS
  Ids,      \* TypeIds, registered or not
  MaxDeps   \* bound on the dependencies of one node in the graphs explored

ASSUME WalkAssumption ==
  /\ MaxDeps \in Nat
  /\ IsFiniteSet(Ids)

VARIABLES
  strict,   \* TRUE: ModuleRegistry, FALSE: DependencyGraph
  nodes,    \* keys of `entries` (`nodes` in the provider graph)
  deps,     \* metadata.imports (node.dependencies)
  roots,    \* what is left of the loop of resolve_order
  path,     \* nodes being visited, outermost first
  next,     \* loop position of each node on the path
  order,    \* the result under construction
  outcome   \* "running", or what resolve_order returned

graph == <<strict, nodes, deps>>
vars  == <<strict, nodes, deps, roots, path, next, order, outcome>>

Visiting == Range(path)
Visited  == Range(order)
Top      == path[Len(path)]

\* The dependency that the innermost frame is looking at.
Examining == /\ outcome = "running"
             /\ path # <<>>
             /\ next[Top] <= Len(deps[Top])
Dependency == deps[Top][next[Top]]

\* Every variable has its type: the frames, the roots and the result hold
\* registered identifiers only.
TypeOK ==
  /\ strict \in BOOLEAN
  /\ nodes \subseteq Ids
  /\ deps \in [nodes -> Seq(Ids)]
  /\ roots \in Seq(nodes)
  /\ path \in Seq(nodes)
  /\ next \in [nodes -> Nat \ {0}]
  /\ order \in Seq(nodes)
  /\ outcome \in {"running", "ok", "circular", "missing"}

\* The sequences that name every element of S once.
Listings(S) == {s \in [1 .. Cardinality(S) -> S] : Range(s) = S}

DepLists == UNION {[1 .. k -> Ids] : k \in 0 .. MaxDeps}

\* The provider graph takes its roots in the order of a HashMap; the module
\* registry sorts them by type_name, and any names are possible.
Init ==
  /\ strict \in BOOLEAN
  /\ nodes \in SUBSET Ids
  /\ deps \in [nodes -> DepLists]
  /\ roots \in Listings(nodes)
  /\ path = <<>>
  /\ next = [n \in nodes |-> 1]
  /\ order = <<>>
  /\ outcome = "running"

-----------------------------------------------------------------------------

\* dfs is entered for n: its frame goes on the stack.
Enter(n) ==
  /\ path' = Append(path, n)
  /\ UNCHANGED <<graph, next, order>>

\* The loop of resolve_order.
TakeRoot ==
  /\ outcome = "running"
  /\ path = <<>>
  /\ roots # <<>>
  /\ roots' = Tail(roots)
  /\ IF Head(roots) \in Visited
       THEN UNCHANGED <<graph, path, next, order>>
       ELSE Enter(Head(roots))
  /\ UNCHANGED outcome

Descend ==
  /\ Examining
  /\ Dependency \in nodes
  /\ Dependency \notin Visiting
  /\ Dependency \notin Visited
  /\ Enter(Dependency)
  /\ UNCHANGED <<roots, outcome>>

\* Slip: the loop does not move on.
Advance_Stuck ==
  /\ Examining
  /\ Dependency \notin Visiting
  /\ Dependency \in Visited \/ (Dependency \notin nodes /\ ~strict)
  /\ UNCHANGED vars

\* The dependency is done, or nobody registered it and the walk does not mind.
Advance ==
  /\ Examining
  /\ Dependency \notin Visiting
  /\ Dependency \in Visited \/ (Dependency \notin nodes /\ ~strict)
  /\ next' = [next EXCEPT ![Top] = @ + 1]
  /\ UNCHANGED <<graph, roots, path, order, outcome>>

FailMissing ==
  /\ Examining
  /\ strict
  /\ Dependency \notin nodes
  /\ outcome' = "missing"
  /\ UNCHANGED <<graph, roots, path, next, order>>

FailCircular ==
  /\ Examining
  /\ Dependency \in Visiting
  /\ outcome' = "circular"
  /\ UNCHANGED <<graph, roots, path, next, order>>

\* Slip: a node is placed before its dependencies are.
Leave_Early ==
  /\ outcome = "running"
  /\ path # <<>>
  /\ path' = SubSeq(path, 1, Len(path) - 1)
  /\ order' = Append(order, Top)
  /\ UNCHANGED <<graph, roots, next, outcome>>

\* All dependencies of the innermost frame are done: so is its node.
Leave ==
  /\ outcome = "running"
  /\ path # <<>>
  /\ next[Top] > Len(deps[Top])
  /\ path' = SubSeq(path, 1, Len(path) - 1)
  /\ order' = Append(order, Top)
  /\ UNCHANGED <<graph, roots, next, outcome>>

Succeed ==
  /\ outcome = "running"
  /\ path = <<>>
  /\ roots = <<>>
  /\ outcome' = "ok"
  /\ UNCHANGED <<graph, roots, path, next, order>>

Next ==
  \/ TakeRoot
  \/ Descend
  \/ Advance
  \/ FailMissing
  \/ FailCircular
  \/ Leave
  \/ Succeed

\* The walk is one synchronous call: it runs on as long as it can.
Spec == Init /\ [][Next]_vars /\ WF_vars(Next)

-----------------------------------------------------------------------------

Needs(n) == Range(deps[n])

\* What is placed comes after everything registered that it needs: the modules
\* of the result can be activated, and the providers built, from left to right
\* (registry.rs:555 and :613, graph.rs:134).  In the strict walk everything it
\* needs is registered.
Ordered ==
  \A i \in DOMAIN order : \A d \in Needs(order[i]) :
    \/ \E j \in 1 .. i - 1 : order[j] = d
    \/ d \notin nodes /\ ~strict

\* Nothing is placed twice, however many nodes need it (registry.rs:577).
PlacedOnce == \A i, j \in DOMAIN order : order[i] = order[j] => i = j

\* A successful walk places every registered node.
Complete == outcome = "ok" => Visited = nodes

\* The result is a listing of what is registered (registry.rs:577 and :613).
Listing == PlacedOnce /\ Complete

\* CircularImport and CircularDependency are never false alarms: the call stack
\* ends in nodes that need each other in a ring (registry.rs:591, graph.rs:121).
RealCycle ==
  outcome = "circular" =>
    \E k \in DOMAIN path : \A l \in k .. Len(path) :
      (IF l = Len(path) THEN path[k] ELSE path[l + 1]) \in Needs(path[l])

\* The walk ends on every graph, cyclic ones included.
Terminates == <>(outcome # "running")

\* What the walk returns is right, whatever the graph: a complete list with every dependency
\* before its users, or an error that is true (registry.rs:535-617, graph.rs:88-144).
WalkSound == Ordered /\ Listing /\ RealCycle
=============================================================================
