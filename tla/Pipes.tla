------------------------------- MODULE Pipes -------------------------------
(***************************************************************************)
(* Pipes on a request (nivasa-pipes, and apply_global_pipes of             *)
(* nivasa-http server.rs): when the route is matched, the body becomes a   *)
(* JSON value, goes through the global pipes in their order, and what they *)
(* leave becomes the body the handler reads.                               *)
(***************************************************************************)
EXTENDS Extraction

CONSTANTS
  JsonTypes,      \* content types that look like JSON
  Readings,       \* what the parsing pipes make of texts, by target: target -> text -> value
  PipeLists       \* lists of global pipes: [kind, and the target or value of the kind]

VARIABLE piping   \* <<>>, or <<[body: as it came, read, left]>> once the pipes have run

pipesVars == <<extractionVars, piping>>

Null == [kind |-> "null", text |-> <<"null">>]

-----------------------------------------------------------------------------
(* One pipe. *)

Blank == " "

\* str::trim.
Trimmed(text) ==
  LET inked == {i \in DOMAIN text : text[i] # Blank}
      first == CHOOSE i \in inked : \A j \in inked : i <= j
      last == CHOOSE i \in inked : \A j \in inked : j <= i
  IN  IF inked = {} THEN <<>> ELSE SubSeq(text, first, last)

\* ParseBool, ParseInt, ParseFloat: of a string, as the target reads it.
Parsed(target, value) ==
  IF value.kind = "string" /\ value.text \in DOMAIN Readings[target]
  THEN Found(Readings[target][value.text]) ELSE Refused("pipe")

\* ParseUuid, ParseEnum: a string again, in the form the target has for it.
Canonical(target, value) ==
  IF value.kind = "string" /\ value.text \in DOMAIN Readings[target]
  THEN Found(StringOf(Readings[target][value.text].text)) ELSE Refused("pipe")

TrimPipe(value) ==
  IF value.kind = "string" THEN Found(StringOf(Trimmed(value.text))) ELSE Refused("pipe")

\* Null only; a body that is missing is null here too.
DefaultValue(default, value) == Found(IF value.kind = "null" THEN default ELSE value)

\* ValidationPipe: an object that deserializes and is valid with no group active, and without
\* the fields the DTO does not have.
Validated(target, value) ==
  IF value.kind = "object" /\ value.text \in DOMAIN Readings[target]
  THEN Found(Readings[target][value.text]) ELSE Refused("pipe")

Transformed(pipe, value) ==
  CASE pipe.kind = "same" -> Found(value)
    [] pipe.kind = "default" -> DefaultValue(pipe.value, value)
    [] pipe.kind = "trim" -> TrimPipe(value)
    [] pipe.kind = "parse" -> Parsed(pipe.target, value)
    [] pipe.kind = "canonical" -> Canonical(pipe.target, value)
    [] pipe.kind = "validate" -> Validated(pipe.target, value)

\* The pipes from left to right, until one refuses.
Chained(pipes, value) ==
  FoldLeft(LAMBDA so, pipe : IF so.ok THEN Transformed(pipe, so.value) ELSE so, Found(value), pipes)

-----------------------------------------------------------------------------
(* The body in and out. *)

LooksJson ==
  /\ "content-type" \in DOMAIN request.headers
  /\ request.headers["content-type"][1].ascii
  /\ request.headers["content-type"][1].text \in JsonTypes

\* request_body_to_pipe_value.
PipeValue(body) ==
  CASE body.kind = "Empty" -> Found(Null)
    [] body.kind = "Json" -> Found(body.value)
    [] OTHER ->
         IF ~body.wire.utf8 THEN Refused("pipe")
         ELSE IF ~LooksJson THEN Found(StringOf(body.wire.text))
         ELSE IF body.wire.text \in DOMAIN JsonOf THEN Found(JsonOf[body.wire.text])
         ELSE Refused("pipe")

TextBody(text) ==
  [kind |-> "Text", wire |-> [text |-> text, plain |-> text, ascii |-> TRUE, utf8 |-> TRUE, parts |-> <<>>]]

\* Slip: every value is written out, a string with its quotes.
AsBody_Written(value) ==
  IF value.kind = "null" THEN [kind |-> "Empty"] ELSE TextBody(Serialized(value))

\* pipe_value_to_body.
AsBody(value) ==
  CASE value.kind = "null" -> [kind |-> "Empty"]
    [] value.kind = "string" -> TextBody(value.text)
    [] OTHER -> [kind |-> "Json", value |-> value]

-----------------------------------------------------------------------------

PipesInit ==
  /\ ExtractionInit
  /\ piping = <<>>

Piped(pipes) ==
  LET read == PipeValue(request.body)
  IN  IF pipes = <<>> \/ ~read.ok THEN read ELSE Chained(pipes, read.value)

\* No pipes leave the body alone; a refusal answers in the action's place.
ApplyGlobalPipes(pipes) ==
  /\ request # NoRequest
  /\ request.matched
  /\ action = <<>>
  /\ piping = <<>>
  /\ piping' = <<[pipes |-> pipes, body |-> request.body, left |-> Piped(pipes)]>>
  /\ IF pipes = <<>> THEN UNCHANGED <<request, action, given, answer>>
     ELSE IF Piped(pipes).ok
     THEN /\ request' = [request EXCEPT !.body = AsBody(Piped(pipes).value)]
          /\ UNCHANGED <<action, given, answer>>
     ELSE /\ action' = <<[handler |-> "", takes |-> "nothing", name |-> "", type |-> "any"]>>
          /\ answer' = [status |-> 400, headers |-> {}]
          /\ UNCHANGED <<request, given>>
  /\ UNCHANGED coming

\* Middleware comes before the pipes, the handler after them.
PipesNext ==
  \/ \E pipes \in PipeLists : ApplyGlobalPipes(pipes)
  \/ /\ ExtractionNext
     /\ request' # request => piping = <<>>
     /\ action' # action => piping # <<>>
     /\ UNCHANGED piping

PipesSpec == PipesInit /\ [][PipesNext]_pipesVars

-----------------------------------------------------------------------------

UnchangedIsUnnoticed ==
  \A p \in ToSet(piping) :
    (p.left.ok /\ PipeValue(p.body) = p.left) =>
      /\ \A type \in Types :
           (BodyJson(p.body, type).ok /\ p.left.value = BodyJson(p.body, type).value
              /\ p.left.value.kind \notin {"null", "string"}) =>
             BodyJson(request.body, type) = BodyJson(p.body, type)
      /\ (p.body.kind # "Json" /\ ~LooksJson) => BodyString(request.body) = BodyString(p.body)

NothingBehindThePipes ==
  \A p \in ToSet(piping), a \in ToSet(action) :
    (p.pipes # <<>> /\ a.takes = "json" /\ given.ok) =>
      /\ p.left.ok
      /\ p.left.value.kind # "string" => given.value = p.left.value

\* What the pipes did not change, the handler does not notice: as JSON, when the body was JSON
\* to the pipes too and no string or null; as a text, when it was a text to them.  A handler
\* that takes JSON is given what the last pipe left, or is not run
\* (server.rs:1625-1695, request.rs:403-447).
PipesTransparent == UnchangedIsUnnoticed /\ NothingBehindThePipes
=============================================================================
