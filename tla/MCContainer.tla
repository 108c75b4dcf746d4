---------------------------- MODULE MCContainer ----------------------------
(***************************************************************************)
(* Container on small instances: which tasks, handles and bounds is said   *)
(* by the .cfg files.                                                      *)
(***************************************************************************)
EXTENDS Container, TLC

\* Tasks and handles are interchangeable: no action or invariant names one.
Symmetry == Permutations(Tasks) \cup Permutations(Scopes)

\* Careful callers: registrations and removals follow one another, no call is
\* dropped, and `initialize` is not called meanwhile; only a resolve may run
\* beside a registration.  Every behaviour of it is one of Spec.
Careful(t) ==
  \/ \E h \in Scopes :
       \/ BeginResolve(t, h)
       \/ /\ \A u \in Tasks : pc[u] \notin MutatorPC
          /\ MutatorBegin(t, h)
  \/ MutatorStep(t)
  \/ ReaderStep(t)

CarefulSpec == Init /\ [][\E t \in Tasks : Careful(t)]_vars
=============================================================================
