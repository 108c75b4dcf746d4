-------------------------------- MODULE Lazy --------------------------------
(***************************************************************************)
(* Lazy<T> (nivasa-core/src/di/lazy.rs) over tokio's OnceCell, which runs  *)
(* one initialiser at a time and keeps what the first one that succeeds    *)
(* returns. Every handle has a cell of its own; clones share the resolver. *)
(***************************************************************************)
EXTENDS Naturals, FiniteSets, Sequences

CONSTANTS
  Handles,     \* the Lazy and its clones
  Getters,     \* tasks that call get
  NoValue,     \* no value, no task, no handle
  MaxResolved  \* runs of the resolver in an instance

ASSUME LazyAssumption == MaxResolved \in Nat /\ NoValue \notin Nat \cup Getters \cup Handles

VARIABLES
  cell,        \* handle -> value, NoValue while it is not set; only handles that exist
  initialiser, \* handle -> the task whose resolver runs, or NoValue
  getter,      \* task -> [at, handle, result]
  resolved,    \* runs of the resolver
  origin       \* handle -> the handle it was cloned from when that had a value, or NoValue

lazyVars == <<cell, initialiser, getter, resolved, origin>>

IdleGetter == [at |-> "idle", handle |-> NoValue, result |-> NoValue]

LazyInit ==
  \E h \in Handles :
    /\ cell = [x \in {h} |-> NoValue]
    /\ initialiser = [x \in {h} |-> NoValue]
    /\ origin = [x \in {h} |-> NoValue]
    /\ getter = [t \in Getters |-> IdleGetter]
    /\ resolved = 0

Extended(map, h, v) == [x \in DOMAIN map \cup {h} |-> IF x = h THEN v ELSE map[x]]

Get(t, h) ==
  /\ getter[t].at = "idle"
  /\ getter' = [getter EXCEPT ![t] = [at |-> "wait", handle |-> h, result |-> NoValue]]
  /\ UNCHANGED <<cell, initialiser, resolved, origin>>

\* Mutant: get runs the resolver whether or not another get is running it, and returns what it gave.
Resolve_EachOwn(t) ==
  /\ getter[t].at = "wait" /\ resolved < MaxResolved
  /\ cell[getter[t].handle] = NoValue
  /\ initialiser' = [initialiser EXCEPT ![getter[t].handle] = t]
  /\ getter' = [getter EXCEPT ![t].at = "resolving"]
  /\ UNCHANGED <<cell, resolved, origin>>

\* get_or_try_init: the resolver is run by one get at a time, while the cell is empty.
Resolve(t) ==
  /\ getter[t].at = "wait" /\ resolved < MaxResolved
  /\ cell[getter[t].handle] = NoValue
  /\ initialiser[getter[t].handle] = NoValue
  /\ initialiser' = [initialiser EXCEPT ![getter[t].handle] = t]
  /\ getter' = [getter EXCEPT ![t].at = "resolving"]
  /\ UNCHANGED <<cell, resolved, origin>>

ResolverOk(t) ==
  /\ getter[t].at = "resolving"
  /\ resolved' = resolved + 1
  /\ cell' = [cell EXCEPT ![getter[t].handle] = resolved']
  /\ initialiser' = [initialiser EXCEPT ![getter[t].handle] = NoValue]
  /\ getter' = [getter EXCEPT ![t].at = "returned", ![t].result = resolved']
  /\ UNCHANGED origin

\* An Err is the answer of this get only; the next one that waits runs the resolver again.
ResolverErr(t) ==
  /\ getter[t].at = "resolving"
  /\ resolved' = resolved + 1
  /\ initialiser' = [initialiser EXCEPT ![getter[t].handle] = NoValue]
  /\ getter' = [getter EXCEPT ![t].at = "returned", ![t].result = NoValue]
  /\ UNCHANGED <<cell, origin>>

\* The get is dropped, or its resolver panics: the permit goes back.
GetDropped(t) ==
  /\ getter[t].at \in {"wait", "resolving"}
  /\ initialiser' = IF getter[t].at = "resolving"
                    THEN [initialiser EXCEPT ![getter[t].handle] = NoValue] ELSE initialiser
  /\ getter' = [getter EXCEPT ![t] = IdleGetter]
  /\ UNCHANGED <<cell, resolved, origin>>

GetHit(t) ==
  /\ getter[t].at = "wait"
  /\ cell[getter[t].handle] # NoValue
  /\ getter' = [getter EXCEPT ![t].at = "returned", ![t].result = cell[getter[t].handle]]
  /\ UNCHANGED <<cell, initialiser, resolved, origin>>

GetDone(t) ==
  /\ getter[t].at = "returned"
  /\ getter' = [getter EXCEPT ![t] = IdleGetter]
  /\ UNCHANGED <<cell, initialiser, resolved, origin>>

\* A clone takes the value if there is one; otherwise it is on its own, although the comment on the
\* impl says that the clones share the lazy instance.
CloneLazy(h, copy) ==
  /\ copy \notin DOMAIN cell
  /\ cell' = Extended(cell, copy, cell[h])
  /\ initialiser' = Extended(initialiser, copy, NoValue)
  /\ origin' = Extended(origin, copy, IF cell[h] = NoValue THEN NoValue ELSE h)
  /\ UNCHANGED <<getter, resolved>>

LazyNext ==
  \/ \E t \in Getters : \/ Resolve(t) \/ ResolverOk(t) \/ ResolverErr(t) \/ GetDropped(t)
                        \/ GetHit(t) \/ GetDone(t)
                        \/ \E h \in DOMAIN cell : Get(t, h)
  \/ \E h \in DOMAIN cell, copy \in Handles : CloneLazy(h, copy)

LazySpec == LazyInit /\ [][LazyNext]_lazyVars

-----------------------------------------------------------------------------
(* Properties. *)

\* Gets that wait for one another, fail and are dropped agree: whatever get of a handle succeeds
\* returns the value in its cell, which no later run replaces, and a handle cloned after the
\* value was there returns the same one.
LazyOnce ==
  /\ \A t \in Getters : getter[t].at = "returned" /\ getter[t].result # NoValue =>
       getter[t].result = cell[getter[t].handle]
  /\ \A h \in DOMAIN cell : origin[h] # NoValue => cell[h] = cell[origin[h]]
=============================================================================
