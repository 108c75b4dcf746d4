--------------------------- MODULE MCOrchestrator ---------------------------
(***************************************************************************)
(* Three modules and two types.  A provides T, perhaps not as a singleton, *)
(* and may close a ring; B imports A and may hide, provide or re-export T; *)
(* C stands alone, imports B, or imports both, and may be global.          *)
(***************************************************************************)
EXTENDS Orchestrator

CONSTANTS A, B, C, T, U

\* The order of the type names is not the order of the imports.
BAC == <<B, A, C>>

Metadata(imports, provides, exports, scoped, global) ==
  [imports |-> imports, provides |-> provides, exports |-> exports,
   scoped |-> scoped, global |-> global]

\* A provides T; B passes it on, hides it or has its own.
Provides(imports, scoped) == Metadata(imports, {T}, {T}, scoped, FALSE)
Middle(provides, exports) == Metadata(<<A>>, provides, exports, {}, FALSE)
Consumer(imports, global) == Metadata(imports, {U}, {U}, {}, global)

Graph(a, b, c) == (A :> a) @@ (B :> b) @@ (C :> c)

SomeGraphs ==
  {Graph(Provides(<<>>, {}), Middle(p, e), Consumer(<<B>>, FALSE)) :
     p \in SUBSET {T}, e \in SUBSET {T}}
  \cup {Graph(Provides(<<>>, {}), Middle(p, {T}), Consumer(<<A, B>>, FALSE)) : p \in SUBSET {T}}
  \cup {Graph(Provides(<<>>, s), Middle({}, {T}), Consumer(<<>>, g)) :
     s \in SUBSET {T}, g \in BOOLEAN}
  \cup {Graph(Provides(<<>>, {T}), Middle({}, {T}), Consumer(<<B>>, FALSE)),
        Graph(Provides(<<C>>, {}), Middle({}, {T}), Consumer(<<B>>, FALSE))}

\* What RegistryRight proves, of these registries.
ASSUME RegistriesAreRight == RegistryIsRight
=============================================================================
