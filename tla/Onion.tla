------------------------------- MODULE Onion -------------------------------
(***************************************************************************)
(* The middleware of nivasa-http (lib.rs:580-1171) around a handler or a   *)
(* Tower service: concurrent requests go in through a chain, each          *)
(* middleware keeping what it saw, and their answers come out through it   *)
(* in reverse.  A shared Tower service is behind a mutex that is held      *)
(* while it answers; a cloneable one is copied for every request; a layer  *)
(* of middleware around a service locks it only to call it.                *)
(***************************************************************************)
EXTENDS Integers, Sequences, SequencesExt, FiniteSets

CONSTANTS
  Calls,          \* the requests, by name
  Stacks,         \* chains of middleware: sequences of kinds
  Terminals,      \* what they end in: [kind, layers: the middleware around the service]
  SentRequests,   \* what requests may carry: [id, accept]
  HandlerAnswers, \* what handlers may answer
  Features        \* the compression formats built in

VARIABLES
  stack,    \* the middleware of this server, the layers of its service included
  terminal, \* what the stack ends in
  calls,    \* the requests under way
  mutex,    \* who holds the shared service
  counted,  \* the state of the shared service: the calls it has seen
  lines     \* what LoggerMiddleware wrote: [call, id]

onionVars == <<stack, terminal, calls, mutex, counted, lines>>

Nobody == "nobody"

\* A handler labels what it encoded itself: with the last encoding, and the length it has now.
Labelled(response) ==
  /\ response.label = IF response.encoded = <<>> THEN "none" ELSE Last(response.encoded)
  /\ response.length = Len(response.encoded)

ASSUME OnionAssumption ==
  /\ Nobody \notin Calls
  /\ Stacks \subseteq Seq(STRING) /\ \A t \in Terminals : t.layers \in Seq(STRING)
  /\ \A r \in SentRequests : r \in [id : {r.id}, accept : Seq(STRING)]
  /\ \A a \in HandlerAnswers :
       /\ DOMAIN a = {"id", "empty", "own", "encoded", "label", "length", "vary", "secured"}
       /\ a.encoded \in Seq(STRING) /\ Labelled(a) /\ a.own = Len(a.encoded)

NoId == <<>>
Unreadable == <<"unreadable">>   \* a header that is blank or not ASCII

-----------------------------------------------------------------------------
(* Compression. *)

\* What "*" stands for.
Favourite ==
  LET order == SelectSeq(<<"br", "gzip", "deflate">>, LAMBDA f : f \in Features)
  IN  IF order = <<>> THEN "none" ELSE order[1]

\* accepts_compression: the first encoding of the list that is built in; weights are not
\* looked at, so an encoding refused with q=0 is taken too.
Format(accept) ==
  LET formats == [i \in DOMAIN accept |->
                    IF accept[i] = "*" THEN Favourite
                    ELSE IF accept[i] \in Features THEN accept[i] ELSE "none"]
      first == SelectInSeq(formats, LAMBDA f : f # "none")
  IN  IF first = 0 THEN "none" ELSE formats[first]

\* append_vary_accept_encoding: the first Vary line is extended and takes the place of all.
Varying(vary) ==
  IF vary = <<>> THEN <<{"accept-encoding"}>>
  ELSE IF "accept-encoding" \in vary[1] THEN vary
  ELSE <<vary[1] \cup {"accept-encoding"}>>

\* Slip: the length of the body before.
Compressed_OldLength(response, format) ==
  IF response.empty THEN response
  ELSE [response EXCEPT !.encoded = Append(@, format), !.label = format, !.vary = Varying(@)]

\* compress_response, whatever the body is already.
Compressed(response, format) ==
  IF response.empty THEN response
  ELSE [response EXCEPT !.encoded = Append(@, format), !.label = format, !.vary = Varying(@),
                        !.length = Len(response.encoded) + 1]

-----------------------------------------------------------------------------
(* One middleware on the way in and on the way out. *)

Readable(id) == id \notin {NoId, Unreadable}

\* resolve_request_id.
ResolvedId(c, id) == IF Readable(id) THEN id ELSE <<"new", c>>

\* The request as a middleware hands it on.
Inward(kind, c, request) ==
  IF kind = "request_id" THEN [request EXCEPT !.id = ResolvedId(c, @)] ELSE request

\* The response as it hands it back; seen is the request it handed on.
Outward(kind, seen, response) ==
  CASE kind = "request_id" -> [response EXCEPT !.id = seen.id]
    [] kind = "compression" /\ Format(seen.accept) # "none" ->
         Compressed(response, Format(seen.accept))
    [] kind = "helmet" -> [response EXCEPT !.secured = TRUE]
    [] OTHER -> response

\* log_context_from_request_and_response: the request's id before the response's.
LoggedId(seen, response) == IF Readable(seen.id) THEN seen.id ELSE response.id

-----------------------------------------------------------------------------

Idle == [stage |-> "idle", at |-> 0, request |-> [id |-> NoId, accept |-> <<>>], seen |-> <<>>,
         turn |-> 0]

NoResponse == [id |-> NoId]

OnionInit ==
  /\ stack \in Stacks
  /\ terminal \in Terminals
  /\ calls = [c \in Calls |-> Idle]
  /\ mutex = Nobody
  /\ counted = 0
  /\ lines = {}

\* The middleware of the stack, then the layers around the service.
Through == stack \o terminal.layers

Receive(c) ==
  /\ calls[c].stage = "idle"
  /\ \E sent \in SentRequests :
       calls' = [calls EXCEPT ![c] = [@ EXCEPT !.stage = "in", !.at = 1, !.request = sent]]
  /\ UNCHANGED <<stack, terminal, mutex, counted, lines>>

\* use_ up to next.run(req).await; the layers are inside the shared service's lock.
GoIn(c) ==
  /\ calls[c].stage = "in"
  /\ calls[c].at <= Len(Through)
  /\ calls[c].at > Len(stack) => (terminal.kind = "shared" => mutex = c)
  /\ LET handed == Inward(Through[calls[c].at], c, calls[c].request)
     IN  calls' = [calls EXCEPT ![c] = [calls[c] EXCEPT !.at = @ + 1, !.request = handed,
                                                        !.seen = Append(@, handed)]]
  /\ UNCHANGED <<stack, terminal, mutex, counted, lines>>

\* TowerServiceMiddleware::Shared: service.lock().await.
Lock(c) ==
  /\ terminal.kind = "shared"
  /\ calls[c].stage = "in"
  /\ calls[c].at = Len(stack) + 1
  /\ mutex = Nobody
  /\ mutex' = c
  /\ UNCHANGED <<stack, terminal, calls, counted, lines>>

\* The copy of a layered service has layers of its own and the service itself, which they
\* hold by Arc, in common with the other copies.
OwnCopy == terminal.kind = "cloned" /\ terminal.layers = <<>>

\* service.call(req): the service itself, or a copy made for this request.
Call(c) ==
  /\ calls[c].stage = "in"
  /\ calls[c].at = Len(Through) + 1
  /\ terminal.kind = "shared" => mutex = c
  /\ counted' = IF OwnCopy THEN counted ELSE counted + 1
  /\ calls' = [calls EXCEPT ![c] = [@ EXCEPT !.stage = "called",
                                             !.turn = IF OwnCopy THEN 1 ELSE counted + 1]]
  /\ UNCHANGED <<stack, terminal, mutex, lines>>

\* The handler or the service answers.
Answer(c) ==
  /\ calls[c].stage = "called"
  /\ \E answer \in HandlerAnswers :
       calls' = [calls EXCEPT ![c] =
         [stage |-> "out", at |-> Len(Through), request |-> @.request, seen |-> @.seen,
          turn |-> @.turn, response |-> answer]]
  /\ UNCHANGED <<stack, terminal, mutex, counted, lines>>

\* After the await.  The lock goes when the service's future is done.
GoOut(c) ==
  /\ calls[c].stage = "out"
  /\ calls[c].at > 0
  /\ LET i == calls[c].at
         response == calls[c].response
     IN  /\ calls' = [calls EXCEPT ![c] = [@ EXCEPT !.at = i - 1,
                        !.response = Outward(Through[i], calls[c].seen[i], response)]]
         /\ lines' = IF Through[i] # "logger" THEN lines
                     ELSE lines \cup {[call |-> c, id |-> LoggedId(calls[c].seen[i], response)]}
         /\ mutex' = IF mutex = c /\ i <= Len(stack) THEN Nobody ELSE mutex
  /\ UNCHANGED <<stack, terminal, counted>>

Done(c) ==
  /\ calls[c].stage = "out"
  /\ calls[c].at = 0
  /\ calls' = [calls EXCEPT ![c].stage = "done"]
  /\ mutex' = IF mutex = c THEN Nobody ELSE mutex
  /\ UNCHANGED <<stack, terminal, counted, lines>>

\* Slip: a dropped request keeps the lock.
Released_Never(c) == mutex

\* The guard of the lock goes with the future.
Released(c) == IF mutex = c THEN Nobody ELSE mutex

\* The server drops the request's future, at any await: a timeout or a closed connection.
DropCall(c) ==
  /\ calls[c].stage \in {"in", "called"}
  /\ calls' = [calls EXCEPT ![c].stage = "dropped"]
  /\ mutex' = Released(c)
  /\ UNCHANGED <<stack, terminal, counted, lines>>

Proceed(c) == GoIn(c) \/ Call(c) \/ Answer(c) \/ GoOut(c) \/ Done(c)

OnionNext == \E c \in Calls : Receive(c) \/ Lock(c) \/ Proceed(c) \/ DropCall(c)

OnionSpec == OnionInit /\ [][OnionNext]_onionVars

\* Tasks are polled and services answer; tokio's mutex hands itself to the next in line.
OnionFairness == \A c \in Calls : WF_onionVars(Proceed(c)) /\ SF_onionVars(Lock(c))

-----------------------------------------------------------------------------

Count(kind) == Cardinality({i \in DOMAIN Through : Through[i] = kind})

\* Wherever RequestIdMiddleware and LoggerMiddleware stand in the stack or among the layers,
\* and whatever id the request brought or the handler set, the handler saw, the loggers
\* wrote and the client got the same one (lib.rs:1080-1171).
OneIdentity ==
  \A c \in Calls :
    (calls[c].stage = "done" /\ Count("request_id") > 0) =>
      /\ Readable(calls[c].response.id)
      /\ calls[c].response.id = calls[c].request.id
      /\ \A l \in lines : l.call = c => l.id = calls[c].response.id

\* A body is labelled with the encoding that was put on it last, which the client named, with
\* the length it has now; decoded once it is what the handler wrote, unless it was
\* encoded before it met a compression middleware: then only the last encoding is
\* named (lib.rs:939-1020).
LabelTells ==
  \A c \in Calls :
    (calls[c].stage = "done" /\ ~calls[c].response.empty) =>
      LET r == calls[c].response
          client == ToSet(calls[c].request.accept)
      IN  /\ Labelled(r)
          /\ Len(r.encoded) = r.own + (IF Format(calls[c].request.accept) = "none" THEN 0
                                       ELSE Count("compression"))
          /\ (r.own = 0 /\ r.label # "none") =>
               r.label \in client \cup (IF "*" \in client THEN {Favourite} ELSE {})

\* The shared service sees its requests one at a time, each after all of those it was called
\* for before, and a request that was dropped while it held the service has let
\* it go; a copy sees no call but its own (lib.rs:653-676).
TurnsAreTaken ==
  /\ mutex # Nobody => calls[mutex].stage \in {"in", "called", "out"}
  /\ terminal.kind = "shared" =>
       \A c \in Calls : calls[c].stage = "called" => (mutex = c /\ calls[c].turn = counted)
  /\ OwnCopy => \A c \in Calls : calls[c].turn <= 1

\* Every request that is received is answered or dropped, however the others hold the
\* service meanwhile (lib.rs:653-676).
EveryCallEnds ==
  \A c \in Calls : calls[c].stage = "in" ~> calls[c].stage \in {"done", "dropped"}

\* What comes out of the layers is what the handler answered, to the request it was asked, one
\* at a time where the service is shared (lib.rs:653-676, 939-1171).
AnswersIntact == OneIdentity /\ LabelTells /\ TurnsAreTaken
=============================================================================
