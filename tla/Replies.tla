------------------------------ MODULE Replies ------------------------------
(***************************************************************************)
(* How a handler makes its response (nivasa-http response.rs, body.rs):    *)
(* by a ControllerResponse or builder whose status, headers and body it    *)
(* sets in any order, by a buffered stream of chunks, by server-sent       *)
(* events, or by a value that turns into one; then it may be given another *)
(* status and, on its way out, other headers.  Text is a sequence of       *)
(* characters, of which only CR and LF are told apart, and of the field    *)
(* names that SSE puts at the start of a line.                             *)
(***************************************************************************)
EXTENDS Integers, Sequences, SequencesExt

CONSTANTS
  Bodies,         \* bodies and chunks: [kind, text]
  Values,         \* what else handlers return: see Turned
  HeaderSets,     \* headers that are set: [name, value: <<text>>, valid]
  StatusCodes,
  EventPieces,    \* events as they are made: [event, id: <<>> or <<text>>, data, comment: texts]
  MaxEdits        \* bound on the calls on one response

\* The bodies of nivasa_http::Body, and what has an IntoResponse.  <<>> is no content type.
ASSUME RepliesAssumption ==
  /\ \A b \in Bodies : b.kind \in {"Empty", "Text", "Html", "Json", "Bytes"}
  /\ \A v \in Values : v.is \in {"status", "body", "json", "download", "redirect", "exception"}
  /\ \A h \in HeaderSets : h.value # <<>>
  /\ LET texts == Seq(Seq(STRING))
     IN  EventPieces \subseteq [event : texts, id : texts, data : texts, comment : texts]
  /\ MaxEdits \in Nat

VARIABLES
  making,         \* what is made: "nothing", "handle", "stream", "sse" or "reply"
  handle,         \* ControllerResponse, NivasaResponseBuilder: [status, headers, body]
  chunks,         \* StreamBody's chunks
  streamType,     \* <<the content type it was given, as a header>>, or <<>>
  events,         \* Sse's events
  reply,          \* <<the NivasaResponse>>
  set,            \* the content type that was asked for last, or <<>>
  edits

repliesVars == <<making, handle, chunks, streamType, events, reply, set, edits>>

-----------------------------------------------------------------------------
(* Bodies and headers.  headers is a function from the names that are set. *)

NoBody == [kind |-> "Empty", text |-> <<>>]

TypeOf(body) ==
  CASE body.kind = "Empty" -> <<>>
    [] body.kind = "Text" -> <<"text/plain">>
    [] body.kind = "Html" -> <<"text/html">>
    [] body.kind = "Json" -> <<"application/json">>
    [] body.kind = "Bytes" -> <<"application/octet-stream">>

With(headers, name, value) ==
  [n \in DOMAIN headers \cup {name} |-> IF n = name THEN value ELSE headers[n]]

\* header, with_header: what cannot be a header is left out.
Headed(headers, h) == IF h.valid THEN With(headers, h.name, h.value) ELSE headers

\* NivasaResponseBuilder::build: the content type of the body, unless there is one.
Built(status, headers, body) ==
  [status |-> status, body |-> body,
   headers |-> IF "content-type" \in DOMAIN headers \/ TypeOf(body) = <<>> THEN headers
               ELSE With(headers, "content-type", TypeOf(body))]

Plain(status, body) == Built(status, <<>>, body)

WithHeader(response, name, value) == [response EXCEPT !.headers = With(@, name, value)]

-----------------------------------------------------------------------------
(* Streams. *)

\* infer_stream_content_type: of the chunks that are not Body::Empty, if they agree.
StreamTypes == {TypeOf(c) : c \in {d \in ToSet(chunks) : d.kind # "Empty"}}

Joined == FlattenSeq([i \in DOMAIN chunks |-> chunks[i].text])

\* StreamBody::into_response.
Streamed ==
  LET body == IF Joined = <<>> THEN NoBody ELSE [kind |-> "Bytes", text |-> Joined]
      inferred == IF \E t \in StreamTypes : StreamTypes = {t} THEN CHOOSE t \in StreamTypes : TRUE ELSE <<>>
  IN  IF streamType # <<>> THEN [Plain(200, body) EXCEPT !.headers = Headed(@, streamType[1])]
      ELSE IF inferred = <<>> THEN Plain(200, body)
      ELSE WithHeader(Plain(200, body), "content-type", inferred)

-----------------------------------------------------------------------------
(* Server-sent events. *)

\* Slip: LF is made a space, CR is kept.
SingleLine_LfOnly(text) == [i \in DOMAIN text |-> IF text[i] = "LF" THEN "space" ELSE text[i]]

\* sanitize_sse_single_line.
SingleLine(text) == [i \in DOMAIN text |-> IF text[i] \in {"CR", "LF"} THEN "space" ELSE text[i]]

\* value.split('\n').
SplitAtLf(text) ==
  LET upTo[n \in 0..Len(text)] ==
        IF n = 0 THEN <<<<>>>>
        ELSE IF text[n] = "LF" THEN Append(upTo[n - 1], <<>>)
        ELSE [upTo[n - 1] EXCEPT ![Len(upTo[n - 1])] = Append(@, text[n])]
  IN  upTo[Len(text)]

WithoutLastCr(line) == IF line # <<>> /\ Last(line) = "CR" THEN Front(line) ELSE line

\* push_sse_field.
Field(name, line) == <<name>> \o line \o <<"LF">>

\* push_sse_multiline_field.
Multiline(name, text) ==
  FlattenSeq([i \in DOMAIN SplitAtLf(text) |-> Field(name, WithoutLastCr(SplitAtLf(text)[i]))])

\* SseEvent::render.
Rendered(e) ==
  (IF e.event = <<>> THEN <<>> ELSE Field("event:", SingleLine(e.event[1])))
  \o (IF e.id = <<>> THEN <<>> ELSE Field("id:", SingleLine(e.id[1])))
  \o FlattenSeq([i \in DOMAIN e.comment |-> Multiline(":", e.comment[i])])
  \o FlattenSeq([i \in DOMAIN e.data |-> Multiline("data:", e.data[i])])
  \o <<"LF">>

\* Sse::into_response.
Written ==
  WithHeader(WithHeader(Plain(200, [kind |-> "Text", text |-> FlattenSeq([i \in DOMAIN events |-> Rendered(events[i])])]),
                        "content-type", <<"text/event-stream">>),
             "cache-control", <<"no-cache">>)

-----------------------------------------------------------------------------
(* Values that turn into a response. *)

\* The body of an exception keeps the number it was made with, whatever the status is.
Status(code) == IF code \in 100..999 THEN code ELSE 500

\* A JSON value that cannot be serialized is answered with an error text and 200.
SerializationFailed == [kind |-> "Json", text |-> <<"failed">>]

Turned(v) ==
  CASE v.is = "status" -> Plain(v.status, NoBody)
    [] v.is = "body" -> Plain(200, v.body)
    [] v.is = "json" -> Plain(200, IF v.serializes THEN v.body ELSE SerializationFailed)
    [] v.is = "download" -> WithHeader(Plain(200, v.body), "content-disposition", v.filename)
    [] v.is = "redirect" -> WithHeader(Plain(v.status, NoBody), "location", v.location)
    [] v.is = "exception" -> Plain(Status(v.status), [kind |-> "Json", text |-> <<ToString(v.status)>>])

-----------------------------------------------------------------------------

NoHandle == [status |-> 200, headers |-> <<>>, body |-> NoBody]

RepliesInit ==
  /\ making = "nothing"
  /\ handle = NoHandle
  /\ chunks = <<>>
  /\ streamType = <<>>
  /\ events = <<>>
  /\ reply = <<>>
  /\ set = <<>>
  /\ edits = 0

Start(what) ==
  /\ making = "nothing"
  /\ making' = what
  /\ UNCHANGED <<handle, chunks, streamType, events, reply, set, edits>>

Edit ==
  /\ edits < MaxEdits
  /\ edits' = edits + 1

SetStatus(code) ==
  /\ making = "handle"
  /\ Edit
  /\ handle' = [handle EXCEPT !.status = code]
  /\ UNCHANGED <<making, chunks, streamType, events, reply, set>>

Asked(h) == IF h.name = "content-type" /\ h.valid THEN h.value ELSE set

SetHeader(h) ==
  /\ making = "handle"
  /\ Edit
  /\ handle' = [handle EXCEPT !.headers = Headed(@, h)]
  /\ set' = Asked(h)
  /\ UNCHANGED <<making, chunks, streamType, events, reply>>

\* body, text, html, json and bytes: the one before is replaced.
SetBody(body) ==
  /\ making = "handle"
  /\ Edit
  /\ handle' = [handle EXCEPT !.body = body]
  /\ UNCHANGED <<making, chunks, streamType, events, reply, set>>

PushChunk(body) ==
  /\ making = "stream"
  /\ Edit
  /\ chunks' = Append(chunks, body)
  /\ UNCHANGED <<making, handle, streamType, events, reply, set>>

WithContentType(h) ==
  /\ making = "stream"
  /\ Edit
  /\ streamType' = <<h>>
  /\ set' = IF h.valid THEN h.value ELSE <<>>
  /\ UNCHANGED <<making, handle, chunks, events, reply>>

PushEvent(e) ==
  /\ making = "sse"
  /\ Edit
  /\ events' = Append(events, e)
  /\ UNCHANGED <<making, handle, chunks, streamType, reply, set>>

\* data_line, on the event that is being made.
DataLine(text) ==
  /\ making = "sse"
  /\ events # <<>>
  /\ Edit
  /\ events' = [events EXCEPT ![Len(events)].data = Append(@, text)]
  /\ UNCHANGED <<making, handle, chunks, streamType, reply, set>>

IntoResponse ==
  /\ making \in {"handle", "stream", "sse"}
  /\ making' = "reply"
  /\ reply' = <<CASE making = "handle" -> Built(handle.status, handle.headers, handle.body)
                  [] making = "stream" -> Streamed
                  [] making = "sse" -> Written>>
  /\ set' = IF making = "sse" THEN <<"text/event-stream">> ELSE set
  /\ UNCHANGED <<handle, chunks, streamType, events, edits>>

Return(v) ==
  /\ making = "nothing"
  /\ making' = "reply"
  /\ reply' = <<Turned(v)>>
  /\ UNCHANGED <<handle, chunks, streamType, events, set, edits>>

\* (StatusCode, T).
OverrideStatus(code) ==
  /\ making = "reply"
  /\ Edit
  /\ reply' = <<[reply[1] EXCEPT !.status = code]>>
  /\ UNCHANGED <<making, handle, chunks, streamType, events, set>>

\* with_header, by middleware and by the response metadata.
AddHeader(h) ==
  /\ making = "reply"
  /\ Edit
  /\ reply' = <<[reply[1] EXCEPT !.headers = Headed(@, h)]>>
  /\ set' = Asked(h)
  /\ UNCHANGED <<making, handle, chunks, streamType, events>>

RepliesNext ==
  \/ \E what \in {"handle", "stream", "sse"} : Start(what)
  \/ \E code \in StatusCodes : SetStatus(code) \/ OverrideStatus(code)
  \/ \E h \in HeaderSets : SetHeader(h) \/ AddHeader(h)
  \/ \E b \in Bodies : SetBody(b) \/ PushChunk(b)
  \/ \E h \in {g \in HeaderSets : g.name = "content-type"} : WithContentType(h)
  \/ \E e \in EventPieces : PushEvent(e)
  \/ \E e \in EventPieces : \E i \in DOMAIN e.data : DataLine(e.data[i])
  \/ IntoResponse
  \/ \E v \in Values : Return(v)

RepliesSpec == RepliesInit /\ [][RepliesNext]_repliesVars

-----------------------------------------------------------------------------
(* What an EventSource reads.  A line ends at CR, LF or CR LF; an empty line ends an event, *)
(* which is delivered if it had data, with the last id so far.                              *)

Reading == [id |-> <<>>, event |-> <<>>, data |-> <<>>, delivered |-> <<>>]

ReadLine(r, line) ==
  IF line = <<>> THEN
    [id |-> r.id, event |-> <<>>, data |-> <<>>,
     delivered |-> IF r.data = <<>> THEN r.delivered
                   ELSE Append(r.delivered, [id |-> r.id, event |-> r.event, data |-> r.data])]
  ELSE CASE line[1] = "id:" -> [r EXCEPT !.id = Tail(line)]
         [] line[1] = "event:" -> [r EXCEPT !.event = Tail(line)]
         [] line[1] = "data:" -> [r EXCEPT !.data = Append(@, Tail(line))]
         [] OTHER -> r

ReadChar(s, c) ==
  IF c = "CR" \/ (c = "LF" /\ ~s.cr)
  THEN [reading |-> ReadLine(s.reading, s.line), line |-> <<>>, cr |-> c = "CR"]
  ELSE IF c = "LF" THEN [s EXCEPT !.cr = FALSE]
  ELSE [s EXCEPT !.line = Append(@, c), !.cr = FALSE]

ReadAll(s, text) ==
  LET upTo[n \in 0..Len(text)] == IF n = 0 THEN s ELSE ReadChar(upTo[n - 1], text[n])
  IN  upTo[Len(text)]

\* The reader between two lines.
Between(r) == [reading |-> r, line |-> <<>>, cr |-> FALSE]

Received(text) == ReadAll(Between(Reading), text).reading.delivered

LoneCr(text) == \E i \in DOMAIN text : text[i] = "CR" /\ (i = Len(text) \/ text[i + 1] # "LF")

\* The events that were made, as the reader should have them.
Lines(text) == [j \in DOMAIN SplitAtLf(text) |-> WithoutLastCr(SplitAtLf(text)[j])]
OneLine(text) == [i \in DOMAIN text |-> IF text[i] \in {"CR", "LF"} THEN "space" ELSE text[i]]

\* What one more event adds to what was read.
Told(r, e) ==
  LET id == IF e.id = <<>> THEN r.id ELSE OneLine(e.id[1])
  IN  [r EXCEPT !.id = id,
                !.delivered = IF e.data = <<>> THEN @
                  ELSE Append(@, [id |-> id, event |-> IF e.event = <<>> THEN <<>> ELSE OneLine(e.event[1]),
                                  data |-> FlattenSeq([i \in DOMAIN e.data |-> Lines(e.data[i])])])]

Meant(list) ==
  LET upTo[n \in 0..Len(list)] == IF n = 0 THEN Reading ELSE Told(upTo[n - 1], list[n])
  IN  upTo[Len(list)]

\* A reader of the stream receives the events that were made, each with its name, the last id
\* and its lines of data, and comments deliver nothing, if no data or comment has a CR
\* that is not followed by LF; names and ids may have any (response.rs:16-39, 577-628).
EventsArrive ==
  (making = "reply" /\ events # <<>>
     /\ \A i \in DOMAIN events : \A text \in ToSet(events[i].data) \cup ToSet(events[i].comment) : ~LoneCr(text)) =>
    Received(reply[1].body.text) = Meant(events).delivered

\* A response is labelled with the content type that was asked for last, wherever that was;
\* if none was, with that of the body it has in the end, chunks of one kind counting as
\* that kind unless the stream was given a type that cannot be a header, and not at all if it
\* has no body (response.rs:295-310, 401-508).
ContentTypeTells ==
  making = "reply" =>
    LET headers == reply[1].headers
        labelled == IF "content-type" \in DOMAIN headers THEN headers["content-type"] ELSE <<>>
        kinds == {c.kind : c \in {d \in ToSet(chunks) : d.kind # "Empty"}}
    IN  IF set # <<>> THEN labelled = set
        ELSE IF streamType = <<>> /\ \E k \in kinds : kinds = {k}
        THEN labelled = TypeOf([kind |-> CHOOSE k \in kinds : TRUE, text |-> <<>>])
        ELSE labelled = TypeOf(reply[1].body)

\* The client gets the events that were made and is told of what kind the body is.
RepliesArrive == EventsArrive /\ ContentTypeTells
=============================================================================
