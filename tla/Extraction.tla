----------------------------- MODULE Extraction -----------------------------
(***************************************************************************)
(* A request on its way to a controller action (nivasa-http request.rs,    *)
(* body.rs and the run_controller_action_* functions of lib.rs): it is     *)
(* made, middleware put headers and extensions on it, routing attaches     *)
(* the captured path parameters, and the action is given a value that is   *)
(* read from one of these.  A text is read as JSON if it can be, else as a *)
(* string, and so may mean different things to different lookups.          *)
(***************************************************************************)
EXTENDS Integers, Sequences, SequencesExt

CONSTANTS
  Wires,          \* texts as they are sent: [text, plain: with its escapes undone, ascii, utf8, parts]
  JsonOf,         \* the texts that are JSON, each with its value: [kind, text]
  Sendings,       \* requests: [valid: the URI is, query, headers, body, path: captures to come]
  Puts,           \* headers middleware sets: [name, wire]
  Insertions,     \* extensions middleware seeds: [type, text]
  Actions,        \* what handlers are given: [takes, name, type]
  Answers,        \* what they return: [status, headers]
  Metadata        \* what #[http_code] and #[header] left: sequences of [handler, status, headers]

\* The bodies of nivasa_http::Body.
BodyKinds == {"Empty", "Json", "Text", "Html", "Bytes"}


VARIABLES
  request,        \* [query, headers, body, matched, path, extensions]
  coming,         \* the captures that routing will attach
  action,         \* the action that was run: <<[handler, takes, name, type]>>
  given,          \* what it was given: Found or Refused
  answer          \* the response: [status, headers]

extractionVars == <<request, coming, action, given, answer>>

Found(value) == [ok |-> TRUE, value |-> value]
Refused(why) == [ok |-> FALSE, why |-> why]

-----------------------------------------------------------------------------
(* Values and texts. *)

StringOf(text) == [kind |-> "string", text |-> text]

\* A serde type by what it is read from.
Fits(type, value) == type \in {"any", value.kind}

\* serde_json::to_string.
Serialized(value) == IF value.kind = "string" THEN <<"quote">> \o value.text ELSE value.text

\* Of serde_json: what it writes of a value, it reads as this value.
ASSUME ExtractionAssumption ==
  /\ \A s \in Sendings : s.body.kind \in BodyKinds
  /\ \A t \in DOMAIN JsonOf : LET written == Serialized(JsonOf[t])
                             IN  written \in DOMAIN JsonOf /\ JsonOf[written] = JsonOf[t]

\* deserialize_path_value: as JSON, and if that is not the type, as a string.
Coerced(type, text) ==
  IF text \in DOMAIN JsonOf /\ Fits(type, JsonOf[text]) THEN Found(JsonOf[text])
  ELSE IF Fits(type, StringOf(text)) THEN Found(StringOf(text))
  ELSE Refused("invalid")

\* A field of query_values: as JSON if it is JSON, whatever the type.
Guessed(text) == IF text \in DOMAIN JsonOf THEN JsonOf[text] ELSE StringOf(text)

-----------------------------------------------------------------------------
(* Lookups. *)

Named(name) == SelectSeq(request.query, LAMBDA pair : pair.key = name)
QueryNames == {pair.key : pair \in ToSet(request.query)}

PathTyped(name, type) ==
  IF ~request.matched \/ name \notin DOMAIN request.path THEN Refused("missing")
  ELSE Coerced(type, request.path[name].text)

\* The last of several; a form-encoded text.
QueryTyped(name, type) ==
  IF name \notin QueryNames THEN Refused("missing")
  ELSE Coerced(type, Last(Named(name)).wire.plain)

\* The first of several.
HeaderTyped(name, type) ==
  IF name \notin DOMAIN request.headers THEN Refused("missing")
  ELSE IF ~request.headers[name][1].ascii THEN Refused("invalid")
  ELSE Coerced(type, request.headers[name][1].text)

\* Slip: the first of several is kept.
QueryValue_First(name) == Guessed(Named(name)[1].wire.plain)

\* query_values: the last of several stays in the map.
QueryValue(name) == Guessed(Last(Named(name)).wire.plain)

\* Query<T>; shape gives the required fields of T with their types.
QueryDto(shape) ==
  IF \A f \in DOMAIN shape : f \in QueryNames /\ Fits(shape[f], QueryValue(f))
  THEN Found([f \in DOMAIN shape |-> QueryValue(f)])
  ELSE Refused("invalid")

-----------------------------------------------------------------------------
(* The body: [kind, wire] with a text, or [kind |-> "Json", value]. *)

BodyString(body) ==
  CASE body.kind = "Empty" -> Found(<<>>)
    [] body.kind \in {"Text", "Html"} -> Found(body.wire.text)
    [] body.kind = "Json" -> Found(Serialized(body.value))
    [] body.kind = "Bytes" -> IF body.wire.utf8 THEN Found(body.wire.text) ELSE Refused("invalid")

\* serde_json::Value, and Json<T> through it.
BodyJson(body, type) ==
  CASE body.kind = "Empty" -> Refused("missing")
    [] body.kind = "Json" ->
         IF Fits(type, body.value) THEN Found(body.value) ELSE Refused("invalid")
    [] OTHER ->
         IF body.wire.utf8 /\ body.wire.text \in DOMAIN JsonOf /\ Fits(type, JsonOf[body.wire.text])
         THEN Found(JsonOf[body.wire.text])
         ELSE Refused("invalid")

BodyBytes(body) ==
  CASE body.kind = "Empty" -> Found(<<>>)
    [] body.kind = "Json" -> Found(Serialized(body.value))
    [] OTHER -> Found(body.wire.text)

-----------------------------------------------------------------------------
(* The client's address.  A proxy header here is a sequence of texts, split at its commas or *)
(* semicolons already, each part [directive, text]; an empty text is blank.                  *)

FirstText(texts) ==
  LET i == SelectInSeq(texts, LAMBDA t : t # <<>>)
  IN  IF i = 0 THEN <<>> ELSE texts[i]

HeaderParts(name) ==
  IF name \in DOMAIN request.headers /\ request.headers[name][1].ascii
  THEN request.headers[name][1].parts ELSE <<>>

FirstPart(name) == FirstText([i \in DOMAIN HeaderParts(name) |-> HeaderParts(name)[i].text])

\* forwarded_for_value: split at semicolons only, so that a list of hops is one text.
ForwardedFor ==
  FirstText([i \in DOMAIN HeaderParts("forwarded") |->
    LET part == HeaderParts("forwarded")[i]
    IN  IF part.directive = "for" THEN part.text ELSE <<>>])

Extension(type) == IF type \in DOMAIN request.extensions THEN request.extensions[type] ELSE <<>>

\* controller_client_ip.
ClientAddress ==
  FirstText(<<Extension("ClientIp"), FirstPart("x-forwarded-for"), FirstPart("x-real-ip"),
              ForwardedFor>>)

-----------------------------------------------------------------------------
(* The request is made and prepared. *)

NoRequest == [query |-> <<>>, headers |-> <<>>, body |-> [kind |-> "Empty"], matched |-> FALSE,
              path |-> <<>>, extensions |-> <<>>]

ExtractionInit ==
  /\ request = NoRequest
  /\ coming = <<>>
  /\ action = <<>>
  /\ given = Refused("nothing")
  /\ answer = <<>>

\* NivasaRequest::new makes a bad URI "/", which has no query; a body from the wire is bytes
\* unless it is empty.
Make(sending) ==
  /\ request = NoRequest
  /\ request' = [NoRequest EXCEPT !.query = IF sending.valid THEN sending.query ELSE <<>>,
                                  !.headers = sending.headers,
                                  !.body = sending.body]
  /\ coming' = sending.path
  /\ UNCHANGED <<action, given, answer>>

\* set_header takes the place of all values of the name; an unreadable one changes nothing.
PutHeader(name, wire) ==
  /\ request # NoRequest
  /\ action = <<>>
  /\ request' = [request EXCEPT !.headers =
       IF wire.ascii THEN [n \in DOMAIN @ \cup {name} |-> IF n = name THEN <<wire>> ELSE @[n]] ELSE @]
  /\ UNCHANGED <<coming, action, given, answer>>

InsertExtension(type, text) ==
  /\ request # NoRequest
  /\ action = <<>>
  /\ request' = [request EXCEPT !.extensions =
       [t \in DOMAIN @ \cup {type} |-> IF t = type THEN text ELSE @[t]]]
  /\ UNCHANGED <<coming, action, given, answer>>

\* set_path_params, once the route is matched.
AttachCaptures ==
  /\ request # NoRequest
  /\ action = <<>>
  /\ ~request.matched
  /\ request' = [request EXCEPT !.matched = TRUE, !.path = coming]
  /\ UNCHANGED <<coming, action, given, answer>>

-----------------------------------------------------------------------------
(* The action is run. *)

OrMissing(text) == IF text = <<>> THEN Refused("missing") ELSE Found(text)

\* What run_controller_action_with_... reads for the action.
Extracted(a) ==
  CASE a.takes = "param" -> PathTyped(a.name, a.type)
    [] a.takes = "params" -> IF request.matched THEN Found(request.path) ELSE Refused("missing")
    [] a.takes = "query" -> QueryDto(a.type)
    [] a.takes = "header" -> HeaderTyped(a.name, a.type)
    [] a.takes \in {"headers", "request", "response"} -> Found(<<>>)
    [] a.takes = "string" -> BodyString(request.body)
    [] a.takes = "json" -> BodyJson(request.body, a.type)
    [] a.takes = "bytes" -> BodyBytes(request.body)
    [] a.takes = "ip" -> OrMissing(ClientAddress)
    [] a.takes = "session" -> OrMissing(Extension("Session"))
    [] a.takes = "custom" -> OrMissing(Extension(a.name))

\* Every refusal is a 400, but a custom extractor's, which has a status of its own.
RefusalStatus(a) == IF a.takes = "custom" THEN a.type ELSE 400

\* apply_controller_response_metadata: the first entry of the handler; http_code is left out
\* when it is no status, a header when it cannot be one.
Decorated(response, handler, entries) ==
  LET i == SelectInSeq(entries, LAMBDA e : e.handler = handler)
      entry == entries[i]
      readable == {h \in ToSet(entry.headers) : h.valid}
  IN  IF i = 0 THEN response
      ELSE [status |-> IF entry.status \in 100..999 THEN entry.status ELSE response.status,
            headers |-> {h \in response.headers : \A g \in readable : g.name # h.name}
                        \cup {Last(SelectSeq(entry.headers, LAMBDA g : g.valid /\ g.name = h.name)) : h \in readable}]

\* The response of the action; what it took of the request stays in `given`.
RunAction(a, returned) ==
  /\ request # NoRequest
  /\ action = <<>>
  /\ action' = <<a>>
  /\ given' = Extracted(a)
  /\ answer' = IF Extracted(a).ok THEN returned ELSE [status |-> RefusalStatus(a), headers |-> {}]
  /\ UNCHANGED <<request, coming>>

Decorate(entries) ==
  /\ action # <<>>
  /\ answer.status # 0
  /\ answer' = Decorated(answer, action[1].handler, entries)
  /\ UNCHANGED <<request, coming, action, given>>

ExtractionNext ==
  \/ \E s \in Sendings : Make(s)
  \/ \E h \in Puts : PutHeader(h.name, h.wire)
  \/ \E e \in Insertions : InsertExtension(e.type, e.text)
  \/ AttachCaptures
  \/ \E a \in Actions, r \in Answers : RunAction(a, r)
  \/ \E m \in Metadata : Decorate(m)

-----------------------------------------------------------------------------

Types == {"any"} \cup {JsonOf[t].kind : t \in DOMAIN JsonOf}

\* The query is read by two codes: query_typed coerces the last value of a name to the type that is
\* asked for, a query DTO guesses a JSON value for each name, whatever the type.  A field that
\* the DTO accepts is what query_typed says of it, also when the name is repeated, and the DTO
\* refuses what query_typed accepts only if it is JSON that was asked for as a string
\* (request.rs:88-121, 232-259, 443-466).
LookupsAgree ==
  \A type \in Types, q \in QueryNames :
    LET dto == QueryDto([f \in {q} |-> type])
    IN  IF dto.ok THEN QueryTyped(q, type) = Found(dto.value[q])
        ELSE QueryTyped(q, type).ok => type = "string" /\ Last(Named(q)).wire.plain \in DOMAIN JsonOf

\* A payload held as text, as HTML or as bytes is given to an action as the same string, the same
\* bytes and the same JSON.  Held as the JSON value it stands for, it is given as the same JSON;
\* as a string and as bytes it is one text, the value written anew, which need not be the payload
\* but is read as the same JSON again (request.rs:397-440).
OnePayload ==
  \A w \in Wires : (request.body.kind = "Bytes" /\ request.body.wire = w /\ w.utf8) =>
    /\ \A kind \in {"Text", "Html"} :
         LET other == [kind |-> kind, wire |-> w]
         IN  /\ BodyString(other) = BodyString(request.body)
             /\ BodyBytes(other) = BodyBytes(request.body)
             /\ \A type \in Types : BodyJson(other, type) = BodyJson(request.body, type)
    /\ BodyJson(request.body, "any").ok =>
         LET json  == [kind |-> "Json", value |-> BodyJson(request.body, "any").value]
             again == [kind |-> "Text", wire |-> [text |-> BodyString(json).value, utf8 |-> TRUE]]
         IN  /\ BodyString(json) = BodyBytes(json)
             /\ \A type \in Types : /\ BodyJson(json, type) = BodyJson(request.body, type)
                                    /\ BodyJson(again, type) = BodyJson(json, type)

\* Both.
ReadingsAgree == LookupsAgree /\ OnePayload
=============================================================================
