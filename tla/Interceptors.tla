---------------------------- MODULE Interceptors ----------------------------
(***************************************************************************)
(* The interceptors of nivasa-interceptors/src/lib.rs around a handler.    *)
(* Tasks run the same chain; the cache store is shared and locked three    *)
(* times in one answer, so that tasks and the clock come in between.       *)
(***************************************************************************)
EXTENDS Integers, Sequences, FiniteSets, Functions

CONSTANTS
  Callers,        \* tasks with a request
  Arrivals,       \* the requests of an instance, in order: [method, path, handler, class]
  Unnamed,        \* a part of it that the ExecutionContext was not given
  Fields,         \* fields of the answers
  ChainSetups,    \* the chains to choose from, with the fields and limits they are made with
  Forever,        \* ttl of a cache that was made without one
  ChainTime       \* bound of the clock

ASSUME InterceptorsAssumption == ChainTime \in Nat /\ Len(Arrivals) > 0

\* A chain is a sequence; its times are Durations; it has one cache at most, the one of `store`.
ASSUME SetupsAssumption ==
  \A m \in ChainSetups :
    /\ Len(m.kinds) \in Nat /\ DOMAIN m.kinds = 1..Len(m.kinds)
    /\ m.timeout \in Nat /\ (m.ttl # Forever => m.ttl \in Nat)
    /\ \A i, j \in DOMAIN m.kinds : m.kinds[i] = "cache" /\ m.kinds[j] = "cache" => i = j

VARIABLES
  made,       \* [kinds, ttl, timeout, exposed, excluded] of the chain
  inow,       \* Instant::now()
  store,      \* CacheInterceptor's map: key -> [value, inserted]
  call,       \* per caller: where its request is
  begun,      \* requests so far; the number of a request is also that of its handler run
  history     \* [run, request, took] of every run that succeeded

chainVars == <<made, inow, store, call, begun, history>>

\* Mutant: requests of any method have one key.
CacheKey_AnyMethod(context) == [context EXCEPT !.method = "unknown"]

\* default_cache_key: the shape of the request, with "unknown" for what is missing.
CacheKey(context) ==
  [part \in DOMAIN context |-> IF context[part] = Unnamed THEN "unknown" ELSE context[part]]

IdleCall == [at |-> "idle", number |-> 0, layer |-> 0, key |-> CacheKey(Arrivals[1]), started |-> <<>>,
             held |-> <<>>, result |-> <<>>]

InterceptorsInit ==
  /\ made \in ChainSetups
  /\ inow = 0
  /\ store = [k \in {} |-> 0]
  /\ call = [t \in Callers |-> IdleCall]
  /\ begun = 0
  /\ history = {}

Kind(t) == made.kinds[call[t].layer]
Value(run, fields) == [run |-> run, fields |-> fields]

\* The caller's request is now `c`.
To(t, c) == call' = [call EXCEPT ![t] = c]
Deeper(c) == [c EXCEPT !.at = "call", !.layer = @ + 1]
\* `result` is <<value>>, or <<>> for an Err.
Unwinding(c, result) == [c EXCEPT !.at = "back", !.layer = @ - 1, !.result = result]

-----------------------------------------------------------------------------
(* Towards the handler. *)

BeginCall(t) ==
  /\ call[t].at = "idle"
  /\ begun < Len(Arrivals)
  /\ begun' = begun + 1
  /\ To(t, [IdleCall EXCEPT !.at = "call", !.number = begun', !.layer = 1, !.key = CacheKey(Arrivals[begun']),
                            !.started = [n \in DOMAIN made.kinds |-> 0]])
  /\ UNCHANGED <<made, inow, store, history>>

\* intercept of the timeout and logging interceptors up to next.handle(), of the serializer whole.
EnterLayer(t) ==
  /\ call[t].at = "call" /\ call[t].layer \in DOMAIN made.kinds
  /\ Kind(t) # "cache"
  /\ To(t, [Deeper(call[t]) EXCEPT !.started[call[t].layer] = IF Kind(t) = "timeout" THEN inow ELSE 0])
  /\ UNCHANGED <<made, inow, store, begun, history>>

\* First lock: a clone of the entry, if there is one.
LookUp(t) ==
  /\ call[t].at = "call" /\ call[t].layer \in DOMAIN made.kinds
  /\ Kind(t) = "cache"
  /\ IF call[t].key \in DOMAIN store
     THEN To(t, [call[t] EXCEPT !.at = "found", !.held = <<store[call[t].key]>>])
     ELSE To(t, Deeper(call[t]))
  /\ UNCHANGED <<made, inow, store, begun, history>>

Expired(entry) == made.ttl # Forever /\ inow - entry.inserted >= made.ttl

\* Its age is taken after the lock was given back.
Judge(t) ==
  /\ call[t].at = "found"
  /\ LET entry == call[t].held[1]
     IN  IF Expired(entry)
         THEN To(t, [call[t] EXCEPT !.at = "expired"])
         ELSE To(t, [Unwinding(call[t], <<entry.value>>) EXCEPT !.held = <<[entry |-> entry, at |-> inow]>>])
  /\ UNCHANGED <<made, inow, store, begun, history>>

\* Second lock: what is under the key now goes, also when it is not the entry that expired.
Evict(t) ==
  /\ call[t].at = "expired"
  /\ store' = Restrict(store, DOMAIN store \ {call[t].key})
  /\ To(t, [Deeper(call[t]) EXCEPT !.held = <<>>])
  /\ UNCHANGED <<made, inow, begun, history>>

\* CallHandler::handle: the handler's FnOnce is taken and runs.
StartHandler(t) ==
  /\ call[t].at = "call" /\ call[t].layer > Len(made.kinds)
  /\ To(t, [call[t] EXCEPT !.at = "run", !.held = <<inow>>])
  /\ UNCHANGED <<made, inow, store, begun, history>>

EndHandler(t) ==
  /\ call[t].at = "run"
  /\ \/ /\ To(t, [Unwinding(call[t], <<Value(call[t].number, Fields)>>) EXCEPT !.held = <<>>])
        /\ history' = history \cup {[run |-> call[t].number, request |-> Arrivals[call[t].number], took |-> inow - call[t].held[1]]}
     \/ /\ To(t, [Unwinding(call[t], <<>>) EXCEPT !.held = <<>>])
        /\ UNCHANGED history
  /\ UNCHANGED <<made, inow, store, begun>>

\* The caller's future is dropped; the handler is the one await that can last.
Forget(t) ==
  /\ call[t].at = "run"
  /\ To(t, IdleCall)
  /\ UNCHANGED <<made, inow, store, begun, history>>

-----------------------------------------------------------------------------
(* Back from the handler. *)

Returning(t, kind) == call[t].at = "back" /\ call[t].layer > 0 /\ Kind(t) = kind

\* Third lock: an Ok is stored, over whatever is there, and is new from now on.
StoreAnswer(t) ==
  /\ Returning(t, "cache")
  /\ store' = IF call[t].result = <<>> THEN store
              ELSE [k \in DOMAIN store \cup {call[t].key} |->
                      IF k = call[t].key THEN [value |-> call[t].result[1], inserted |-> inow] ELSE store[k]]
  /\ To(t, Unwinding(call[t], call[t].result))
  /\ UNCHANGED <<made, inow, begun, history>>

\* TimeoutInterceptor: an answer that took too long is thrown away, Ok or not.
LeaveTimeout(t) ==
  /\ Returning(t, "timeout")
  /\ To(t, Unwinding(call[t], IF inow - call[t].started[call[t].layer] > made.timeout
                            THEN <<>> ELSE call[t].result))
  /\ UNCHANGED <<made, inow, store, begun, history>>

\* ClassSerializerInterceptor: exposed fields only (all of them, when none were named) and no
\* excluded one.
Project(fields) == (fields \cap made.exposed) \ made.excluded

LeaveSerializer(t) ==
  /\ Returning(t, "serializer")
  /\ To(t, Unwinding(call[t], IF call[t].result = <<>> THEN <<>>
                            ELSE <<[call[t].result[1] EXCEPT !.fields = Project(@)]>>))
  /\ UNCHANGED <<made, inow, store, begun, history>>

\* LoggingInterceptor passes on what it saw.
LeaveLogging(t) ==
  /\ Returning(t, "logging")
  /\ To(t, Unwinding(call[t], call[t].result))
  /\ UNCHANGED <<made, inow, store, begun, history>>

Answered(t) == call[t].at = "back" /\ call[t].layer = 0

NextCall(t) ==
  /\ Answered(t)
  /\ To(t, IdleCall)
  /\ UNCHANGED <<made, inow, store, begun, history>>

ChainTick == inow < ChainTime /\ inow' = inow + 1 /\ UNCHANGED <<made, store, call, begun, history>>

InterceptorsNext ==
  \/ ChainTick
  \/ \E t \in Callers :
       \/ BeginCall(t) \/ EnterLayer(t) \/ LookUp(t) \/ Judge(t) \/ Evict(t) \/ StartHandler(t) \/ EndHandler(t)
       \/ Forget(t) \/ StoreAnswer(t) \/ LeaveTimeout(t) \/ LeaveSerializer(t) \/ LeaveLogging(t)
       \/ NextCall(t)

InterceptorsSpec == InterceptorsInit /\ [][InterceptorsNext]_chainVars

-----------------------------------------------------------------------------
(* Properties. *)

InChain(kind) == {n \in DOMAIN made.kinds : made.kinds[n] = kind}
Inside(inner, outer) == \E i \in InChain(inner), o \in InChain(outer) : o < i
Run(value) == CHOOSE h \in history : h.run = value.run

\* Two requests of one shape: equal parts, where a missing one equals "unknown".
Alike(x, y) ==
  \A part \in DOMAIN x : {x[part], y[part]} \subseteq {Unnamed, "unknown"} \/ x[part] = y[part]

\* A caller that gets an answer out of the cache gets what a handler run for a request of the same
\* shape returned successfully, stored less than the ttl before it was judged, whatever other
\* callers looked up, removed and stored between the three locks.
CacheTruthful ==
  \A t \in Callers :
    call[t].at = "back" /\ call[t].held # <<>> =>
      LET served == call[t].held[1] IN
      /\ \E h \in history : h.run = served.entry.value.run /\ Alike(h.request, Arrivals[call[t].number])
      /\ made.ttl # Forever => served.at - served.entry.inserted < made.ttl

\* An answer that took longer than the timeout reaches no caller, neither the one whose handler ran
\* nor, when the cache is outside the timeout, one that comes later and is served from the store.
NothingLate ==
  Inside("timeout", "cache") =>
    \A t \in Callers : Answered(t) /\ call[t].result # <<>> =>
      Run(call[t].result[1]).took <= made.timeout

\* No answer leaves a chain with a serializer with a field that was excluded or not exposed, served
\* from the cache or not, wherever the serializer stands.
NoFieldLeaks ==
  InChain("serializer") # {} =>
    \A t \in Callers : Answered(t) /\ call[t].result # <<>> =>
      LET fields == call[t].result[1].fields
      IN  fields \cap made.excluded = {} /\ fields \subseteq made.exposed

\* What reaches a caller was answered to a request like its own, in time, and without a hidden
\* field, with other callers in the cache at the same time (interceptors lib.rs).
AnswersTruthful == CacheTruthful /\ NothingLate /\ NoFieldLeaks
=============================================================================
