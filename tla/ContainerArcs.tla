---------------------------- MODULE ContainerArcs ----------------------------
(***************************************************************************)
(* Container with a history: which Arcs resolve and resolve_optional have  *)
(* handed out on each handle since the provider or its version last moved, *)
(* as long as no two calls overlapped in that time.                        *)
(***************************************************************************)
EXTENDS Container

VARIABLES
  arcs,    \* the Arcs handed out on each handle
  apart    \* no two calls have overlapped since

\* An entry of a cache is Some.
ASSUME ArcsAssumption == None \notin Entry

NoArcs == [h \in Scopes |-> {}]

\* The handle is that of the task's call, which the step ends.
Remember(t) ==
  LET others == \E u \in Tasks \ {t} : pc[u] # "idle"
      moved  == version' # version \/ provider' # provider
  IN  /\ apart' = (~others /\ (apart \/ moved))
      /\ arcs' = IF moved \/ ~apart' THEN NoArcs
                 ELSE IF answer' # None /\ answer'.kind = "ok" /\ answer'.op \in {"resolve", "optional"}
                   THEN [arcs EXCEPT ![handle[t]] = @ \cup {answer'.inst}]
                   ELSE arcs

ArcsInit == Init /\ arcs = NoArcs /\ apart = TRUE

ArcsNext == \E t \in Tasks : TaskStep(t) /\ Remember(t)

ArcsSpec == ArcsInit /\ [][ArcsNext]_<<vars, arcs, apart>>

\* What the documentation of resolve (lines 510 to 512) promises, and what
\* holds as long as calls do not overlap: while the provider stays, a singleton
\* answers with the same Arc on every handle, and a scoped provider with the
\* same Arc on every call of one handle.
SameArc ==
  provider # None =>
    /\ provider.scope = "singleton" => Cardinality(UNION {arcs[h] : h \in Scopes}) <= 1
    /\ provider.scope = "scoped" => \A h \in Scopes : Cardinality(arcs[h]) <= 1

\* When calls do not overlap: every entry that would be served belongs to the registered
\* provider, and calls that should share an instance do (container.rs:160-273, 510-577).
CoherentArcs == Coherent /\ SameArc
=============================================================================
