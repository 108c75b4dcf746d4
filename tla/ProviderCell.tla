---------------------------- MODULE ProviderCell ----------------------------
(***************************************************************************)
(* What the container of nivasa-core promises for one TypeId when its      *)
(* registrations and removals are serialised: a single cell that holds the *)
(* current provider, and answers that are true of the cell at the moment   *)
(* they are given.  No versions and no caches.                             *)
(***************************************************************************)
EXTENDS Naturals

CONSTANT None

VARIABLES
  cur,      \* the provider registered now, None when there is none
  answer    \* what was just answered to a caller, None when nothing was

Init == cur = None /\ answer = None

\* A registration, a replacement or a removal.
Replace == cur' # cur /\ answer' = None

\* The caller looks away.
Forget == answer' = None /\ UNCHANGED cur

\* Only resolve may report a missing provider, and only when there is none;
\* resolve_optional and export then answer None instead.  An instance comes
\* from the current provider; only a factory can fail.
Truthful(a) ==
  \/ a.kind = "missing" /\ a.op = "resolve" /\ cur = None
  \/ a.kind = "absent" /\ a.op = "export"
  \/ /\ a.kind = "ok"
     /\ cur # None
     /\ a.inst.reg = cur.reg
     /\ a.op \in {"initialize", "export"} => cur.scope = "singleton"
  \/ a.kind = "failed" /\ a.op # "export" /\ cur # None /\ ~ cur.value

Respond == answer' # None /\ Truthful(answer') /\ UNCHANGED cur

Next == Replace \/ Forget \/ Respond

Spec == Init /\ [][Next]_<<cur, answer>>
=============================================================================
