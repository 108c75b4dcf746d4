------------------------------- MODULE Emitter -------------------------------
(***************************************************************************)
(* EventEmitter (nivasa-core/src/module/event_emitter.rs). Handlers are    *)
(* user code: they last as long as they like, register further handlers    *)
(* and emit events themselves, while other tasks do the same.              *)
(***************************************************************************)
EXTENDS Naturals, Sequences, FiniteSets, SequencesExt, Lists

CONSTANTS
  Emitters,       \* tasks (or handlers) that emit
  EventNames,     \* event names, as sequences of their dotted segments
  Patterns,       \* [kind |-> "all" | "under" | "exact", name |-> segments]
  MaxListeners, MaxEmits   \* bounds of an instance

ASSUME EmitterAssumption == MaxListeners \in Nat /\ MaxEmits \in Nat

VARIABLES
  listeners,  \* the patterns registered, in order
  emission,   \* per emitter, the emit it is in: idle, or where it is
  emits,      \* emits begun
  heard       \* history: per emitter, the listeners its last emit has called

emitterVars == <<listeners, emission, emits, heard>>

NoEmission == [at |-> "idle", event |-> <<>>, queue |-> <<>>, before |-> 0, delivered |-> 0]

EmitterInit ==
  /\ listeners = <<>>
  /\ emission = [t \in Emitters |-> NoEmission]
  /\ emits = 0
  /\ heard = [t \in Emitters |-> <<>>]

\* "*" and ".*" match all, "p.*" what continues p with a dot, anything else itself.
MatchesEvent(event, pattern) ==
  CASE pattern.kind = "all" -> TRUE
    [] pattern.kind = "under" -> IsStrictPrefix(pattern.name, event)
    [] OTHER -> event = pattern.name

\* The listeners that match, in order of registration, as they are now.
ListenersFor(event) == Ascending({i \in DOMAIN listeners : MatchesEvent(event, listeners[i])})

\* Any task, also a handler that is being called, may register one.
On(pattern) ==
  /\ Len(listeners) < MaxListeners
  /\ listeners' = Append(listeners, pattern)
  /\ UNCHANGED <<emission, emits, heard>>

Emit(t, event) ==
  /\ emission[t].at = "idle"
  /\ emits < MaxEmits
  /\ emits' = emits + 1
  /\ emission' = [emission EXCEPT ![t] = [at |-> "turn", event |-> event, queue |-> ListenersFor(event),
                                          before |-> Len(listeners), delivered |-> 0]]
  /\ heard' = [heard EXCEPT ![t] = <<>>]
  /\ UNCHANGED listeners

\* Mutant: the list is read again before every call.
CallListener_Live(t) ==
  /\ emission[t].at = "turn"
  /\ LET rest == SelectSeq(ListenersFor(emission[t].event), LAMBDA i : ~Contains(heard[t], i))
     IN  /\ rest # <<>>
         /\ heard' = [heard EXCEPT ![t] = Append(@, Head(rest))]
         /\ emission' = [emission EXCEPT ![t].at = "handler", ![t].queue = Tail(rest)]
  /\ UNCHANGED <<listeners, emits>>

\* The next handler of the snapshot is called; the emit waits for it.
CallListener(t) ==
  /\ emission[t].at = "turn" /\ emission[t].queue # <<>>
  /\ heard' = [heard EXCEPT ![t] = Append(@, Head(emission[t].queue))]
  /\ emission' = [emission EXCEPT ![t].at = "handler", ![t].queue = Tail(@)]
  /\ UNCHANGED <<listeners, emits>>

HandlerDone(t) ==
  /\ emission[t].at = "handler"
  /\ emission' = [emission EXCEPT ![t].at = "turn", ![t].delivered = @ + 1]
  /\ UNCHANGED <<listeners, emits, heard>>

\* The handler panics or the emit is dropped while it waits: the rest is not called.
EmitCut(t) ==
  /\ emission[t].at = "handler"
  /\ emission' = [emission EXCEPT ![t].at = "cut"]
  /\ UNCHANGED <<listeners, emits, heard>>

EmitReturns(t) ==
  /\ emission[t].at = "turn" /\ emission[t].queue = <<>>
  /\ emission' = [emission EXCEPT ![t].at = "returned"]
  /\ UNCHANGED <<listeners, emits, heard>>

NextEmit(t) ==
  /\ emission[t].at \in {"returned", "cut"}
  /\ emission' = [emission EXCEPT ![t] = NoEmission]
  /\ heard' = [heard EXCEPT ![t] = <<>>]
  /\ UNCHANGED <<listeners, emits>>

EmitterNext ==
  \/ \E p \in Patterns : On(p)
  \/ \E t \in Emitters :
       \/ CallListener(t) \/ HandlerDone(t) \/ EmitCut(t) \/ EmitReturns(t) \/ NextEmit(t)
       \/ \E e \in EventNames : Emit(t, e)

EmitterSpec == EmitterInit /\ [][EmitterNext]_emitterVars

-----------------------------------------------------------------------------
(* Properties. *)

\* Whoever registers or emits meanwhile, an emit calls exactly the listeners that matched when it
\* began, each once, in registration order; when it returns it has called all of them and counts
\* them, and when it is cut off it has called a prefix.
HeardInOrder ==
  \A t \in Emitters : emission[t].at # "idle" =>
    LET due == {i \in 1..emission[t].before : MatchesEvent(emission[t].event, listeners[i])}
        called == {heard[t][k] : k \in DOMAIN heard[t]}
    IN  /\ \A k \in 2..Len(heard[t]) : heard[t][k - 1] < heard[t][k]
        /\ called \subseteq due
        /\ \A i \in called, j \in due : j < i => j \in called
        /\ emission[t].at = "returned" =>
             called = due /\ emission[t].delivered = Cardinality(due)
=============================================================================
