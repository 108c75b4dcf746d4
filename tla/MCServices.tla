----------------------------- MODULE MCServices -----------------------------
(* What requests and handlers are served with and that shares no state: rooms, guards,            *)
(* interceptors, the event emitter, lazy providers, middleware around a service, what a request   *)
(* is read as and a reply is made of, uploads and DTOs, side by side.  `part` is the one a        *)
(* behaviour moves.                                                                               *)
EXTENDS Rooms, Guards, Interceptors, Emitter, Lazy, Onion, Pipes, Replies, MCUploads, Validation,
        TLC

CONSTANTS n1, n2, alice, admin, guest

VARIABLE part

ServiceParts ==
  {"rooms", "guards", "interceptors", "emitter", "lazy", "onion", "requests", "replies", "uploads",
   "validation"}

-----------------------------------------------------------------------------
(* Guards. *)

Shared(user, limit, ttl, skip) ==
  [authorization |-> "jwt", handlerRoles |-> Absent, classRoles |-> {admin}, roles |-> {admin},
   module |-> "", user |-> user, path |-> "/", limit |-> limit, ttl |-> ttl, skip |-> skip]
Local == [authorization |-> "none", handlerRoles |-> Absent, classRoles |-> Absent, roles |-> Absent]
Asks(shared) == [shared |-> shared, local |-> Local]

MCGuardRequests ==
  {Asks(Shared("", Absent, Absent, Absent)),              \* nothing special
   Asks(Shared(alice, 1, 1, Absent)),                     \* two policies for one key
   Asks(Shared(alice, Absent, Absent, Malformed)),
   Asks(Shared("", Absent, Absent, TRUE)),                \* not throttled
   Asks(Shared(guest, 4, Absent, Absent)),                \* a limit of 2^32
   Asks([Shared("", Absent, Absent, Absent) EXCEPT !.authorization = "expired"]),
   Asks([Shared("", Absent, Absent, Absent) EXCEPT !.roles = {guest}]),
   Asks([Shared("", Absent, Absent, Absent) EXCEPT !.handlerRoles = Malformed, !.roles = {}]),
   [shared |-> Absent, local |-> [Local EXCEPT !.authorization = "jwt", !.roles = {admin},
                                               !.handlerRoles = Malformed, !.classRoles = {admin}]]}

Auth == [kind |-> "auth"]
Roles == [kind |-> "roles"]
Throttler(limit, ttl) == [kind |-> "throttler", limit |-> limit, ttl |-> ttl]
MCChains == {<<Auth, Throttler(2, 2), Roles>>, <<Throttler(1, 2), Auth>>, <<Throttler(0, 2)>>}

-----------------------------------------------------------------------------
(* Interceptors. *)

Made(kinds, ttl) ==
  [kinds |-> kinds, ttl |-> ttl, timeout |-> 0, exposed |-> Fields, excluded |-> {"secret"}]
Request(method, handler) == [method |-> method, path |-> "/", handler |-> handler, class |-> "C"]
MCArrivals == <<Request("GET", "unknown"), Request("POST", "unknown"), Request("GET", Unnamed)>>
MCChainSetups ==
  {Made(<<"cache", "timeout">>, 1), Made(<<"logging", "cache">>, Forever),
   [Made(<<"serializer", "cache">>, 2) EXCEPT !.exposed = {"id", "secret"}]}

-----------------------------------------------------------------------------
(* The emitter. *)

MCEventNames == {<<"user", "created">>, <<"user">>}
MCPatterns ==
  {[kind |-> "all", name |-> <<>>], [kind |-> "under", name |-> <<"user">>],
   [kind |-> "exact", name |-> <<"user">>]}

-----------------------------------------------------------------------------
(* Middleware, before the server's pipeline or around a service that is shared or copied. *)

MCStacks == {<<"logger", "request_id", "compression">>, <<"request_id", "helmet", "logger">>}
MCTerminals ==
  {[kind |-> "handler", layers |-> <<>>]}
  \cup {[kind |-> k, layers |-> <<"compression", "request_id">>] : k \in {"shared", "cloned"}}
MCSentRequests ==
  {[id |-> NoId, accept |-> <<"br", "gzip">>], [id |-> Unreadable, accept |-> <<"*">>],
   [id |-> <<"given">>, accept |-> <<"identity">>]}
\* own: how often the handler encoded the body itself.
Answering(id, empty, own) ==
  [id |-> id, empty |-> empty, own |-> own, encoded |-> IF own = 0 THEN <<>> ELSE <<"zip">>,
   label |-> IF own = 0 THEN "none" ELSE "zip", length |-> own, vary |-> <<>>, secured |-> FALSE]
MCHandlerAnswers ==
  {Answering(NoId, FALSE, 0), Answering(<<"mine">>, TRUE, 0), Answering(<<"mine">>, FALSE, 1)}

-----------------------------------------------------------------------------
(* Requests: texts that are JSON of several kinds or none, with escapes, blanks, bytes that are no *)
(* text; a name given twice.                                                                       *)

Json(kind, t) == [kind |-> kind, text |-> t]
Number7 == Json("number", <<"7">>)
Object(t) == Json("object", t)
MCJsonOf ==
  (<<"7">> :> Number7) @@ (<<" ", "7">> :> Number7) @@ (<<"true">> :> Json("bool", <<"true">>))
  @@ (<<"quote", "7">> :> Json("string", <<"7">>)) @@ (<<"null">> :> Null)
  @@ (<<"{x}">> :> Object(<<"{x}">>)) @@ (<<"{x,y}">> :> Object(<<"{x,y}">>))
Wire(t) ==
  [text |-> t, plain |-> t, ascii |-> TRUE, utf8 |-> TRUE, parts |-> <<[directive |-> "for", text |-> t]>>]
Escaped == [Wire(<<"%37">>) EXCEPT !.plain = <<"7">>]
NoText == [Wire(<<"FF">>) EXCEPT !.ascii = FALSE, !.utf8 = FALSE]
MCWires == {Wire(t) : t \in DOMAIN MCJsonOf \cup {<<"x">>}} \cup {Escaped, NoText}
Scalars == {Wire(<<"7">>), Wire(<<"quote", "7">>), Wire(<<"x">>), Escaped}
MCSendings ==
  {[valid |-> valid, query |-> <<[key |-> "id", wire |-> one], [key |-> "id", wire |-> two]>>,
    headers |-> [n \in {"x-id"} |-> <<one, two>>],
    body |-> IF valid THEN [kind |-> "Bytes", wire |-> one] ELSE [kind |-> "Empty"],
    path |-> [n \in {"id"} |-> two]] :
     valid \in BOOLEAN, one \in Scalars, two \in Scalars}
  \cup {[valid |-> TRUE, query |-> <<>>, headers |-> [n \in {"content-type"} |-> <<Wire(t)>>],
         body |-> [kind |-> "Bytes", wire |-> w], path |-> <<>>] :
          t \in {<<"json">>, <<"plain">>}, w \in MCWires}
MCPuts ==
  {[name |-> "x-id", wire |-> Wire(<<"7">>)], [name |-> "x-id", wire |-> NoText],
   [name |-> "x-real-ip", wire |-> Wire(<<"x">>)]}
MCInsertions == {[type |-> "ClientIp", text |-> <<"x">>], [type |-> "Custom", text |-> <<"x">>]}
Taking(takes, name, type) == [handler |-> "h", takes |-> takes, name |-> name, type |-> type]
MCActions ==
  {Taking("param", "id", "number"), Taking("query", "dto", [f \in {"id"} |-> "string"]),
   Taking("json", "", "any"), Taking("json", "", "number"), Taking("string", "", ""),
   Taking("ip", "", ""), Taking("custom", "Custom", 403)}
MCAnswers == {[status |-> 200, headers |-> {}]}
MCMetadata ==
  {<<[handler |-> "other", status |-> 418, headers |-> <<>>],
     [handler |-> "h", status |-> 201,
      headers |-> <<[name |-> "x", value |-> 1, valid |-> TRUE], [name |-> "x", value |-> 2, valid |-> FALSE]>>]>>}
MCJsonTypes == {<<"json">>}
MCReadings ==
  ("i32" :> (<<"7">> :> Number7)) @@ ("uuid" :> (<<"x">> :> Json("string", <<"X">>)))
  @@ ("dto" :> ((<<"{x}">> :> Object(<<"{x}">>)) @@ (<<"{x,y}">> :> Object(<<"{x}">>))))
MCPipeLists ==
  {<<>>, <<[kind |-> "same"]>>, <<[kind |-> "trim"], [kind |-> "parse", target |-> "i32"]>>,
   <<[kind |-> "canonical", target |-> "uuid"]>>,
   <<[kind |-> "default", value |-> Object(<<"{x,y}">>)], [kind |-> "validate", target |-> "dto"]>>}

-----------------------------------------------------------------------------
(* Replies. *)

MCBodies ==
  {[kind |-> "Text", text |-> <<"a">>], [kind |-> "Json", text |-> <<"1">>], [kind |-> "Bytes", text |-> <<>>],
   NoBody}
MCValues ==
  {[is |-> "status", status |-> 204], [is |-> "body", body |-> [kind |-> "Html", text |-> <<"a">>]],
   [is |-> "json", serializes |-> FALSE, body |-> NoBody],
   [is |-> "download", body |-> [kind |-> "Bytes", text |-> <<"a">>], filename |-> <<"f">>],
   [is |-> "redirect", status |-> 302, location |-> <<"l">>], [is |-> "exception", status |-> 42]}
MCHeaderSets ==
  {[name |-> "content-type", value |-> <<"image/png">>, valid |-> TRUE],
   [name |-> "content-type", value |-> <<"bad">>, valid |-> FALSE],
   [name |-> "x", value |-> <<"y">>, valid |-> TRUE]}
Event(name, id, data, comment) == [event |-> name, id |-> id, data |-> data, comment |-> comment]
MCEventPieces ==
  {Event(<<>>, <<>>, <<<<"a", "CR", "LF", "b", "LF">>>>, <<>>),
   Event(<<<<"n", "CR", "m">>>>, <<<<"i", "LF">>>>, <<<<>>>>, <<>>),
   Event(<<<<"n">>>>, <<>>, <<>>, <<<<"c", "LF", "d">>>>),
   Event(<<>>, <<<<>>>>, <<<<"a", "CR", "b">>>>, <<<<"c">>>>)}

-----------------------------------------------------------------------------
(* DTOs of two fields, with groups, conditions and nested DTOs, and attributes that do not fit. *)

Worth(is) ==
  [is |-> is, passes |-> {}, text |-> <<>>, size |-> 0, number |-> 0, items |-> <<>>, fields |-> <<>>]
Rule(rule) ==
  [rule |-> rule, reads |-> TRUE, bound |-> 0, groups |-> {}, source |-> "", expected |-> <<>>]
Bounded(rule, n) == [Rule(rule) EXCEPT !.bound = n]
InGroups(gs) == [Rule("groups") EXCEPT !.groups = gs]
When(source, t) == [Rule("validate_if") EXCEPT !.source = source, !.expected = t]
Declared(name, type, attributes) == [name |-> name, type |-> type, attributes |-> attributes]
Str == <<"String">>
Opt(type) == <<"Option">> \o type
Vec(type) == <<"Vec">> \o type
MCInner ==
  "Contact" :> [derive |-> "Dto",
                fields |-> <<Declared("mail", Str, <<InGroups({"create"}), Rule("is_email")>>),
                             Declared("age", <<"u64">>, <<Bounded("min", 5)>>)>>]
  @@ "Hand" :> [derive |-> "manual", fields |-> <<>>]
NewText == [Worth("text") EXCEPT !.text = <<"new">>, !.passes = {"is_email"}, !.size = 3]
Texts == {NewText, Worth("text")}
Numbered(n) == [Worth("number") EXCEPT !.number = n]
ListOf(items) == [Worth("list") EXCEPT !.items = items, !.size = Len(items)]
Contact(mail, n) ==
  [Worth("struct") EXCEPT !.fields = [f \in {"mail", "age"} |-> IF f = "mail" THEN mail ELSE Numbered(n)]]
Contacts == {Contact(Worth("text"), 4), Contact(NewText, 5), Contact(Worth("text"), 5)}
Hands == {Worth("struct"), [Worth("struct") EXCEPT !.passes = {"manual"}]}
Absence == Worth("none")
MCFieldValues ==
  (Str :> Texts) @@ (Opt(Str) :> Texts \cup {Absence}) @@ (<<"u64">> :> {Numbered(n) : n \in {4, 8, 9}})
  @@ (<<"Contact">> :> Contacts) @@ (Opt(<<"Contact">>) :> Contacts \cup {Absence})
  @@ (Vec(<<"Contact">>) :> {ListOf(<<>>)} \cup {ListOf(<<v, w>>) : v \in Contacts, w \in Contacts})
  @@ (Opt(Vec(<<"Hand">>)) :> {Absence} \cup {ListOf(<<v, w>>) : v \in Hands, w \in Hands})
MCDeclarations ==
  {Declared("mode", Str, <<Rule("is_string"), Rule("is_not_empty")>>),
   Declared("mode", Opt(Str), <<>>),
   Declared("email", Opt(Str), <<Rule("is_optional"), When("mode", <<"new">>), Rule("is_email"),
                              Bounded("min_length", 4)>>),
   Declared("email", Str, <<InGroups({"create"}), InGroups({"update"}), Rule("is_email")>>),
   Declared("email", Opt(Str), <<Bounded("max_length", 2)>>),
   Declared("count", <<"u64">>, <<Rule("is_int"), Bounded("min", 9), Bounded("max", 8)>>),
   Declared("count", <<"u64">>, <<Rule("is_string")>>),
   Declared("who", <<"Contact">>, <<Rule("validate_nested")>>),
   Declared("who", Opt(<<"Contact">>), <<InGroups({"update"}), Rule("validate_nested")>>),
   Declared("who", Opt(<<"Contact">>), <<Rule("is_optional"), Rule("validate_nested")>>),
   Declared("whos", Vec(<<"Contact">>), <<Bounded("array_min_size", 1), Rule("validate_nested")>>),
   Declared("hands", Opt(Vec(<<"Hand">>)), <<Rule("validate_nested"), When("mode", <<"new">>)>>)}
MCContexts == {{}, {"create"}, {"create", "update"}}

-----------------------------------------------------------------------------
\* The choices a part's Init offers are left open in that part's behaviours alone.
Only(name, Starts, Rests) == IF part = name THEN Starts ELSE Rests
TheFirst(S) == CHOOSE x \in S : TRUE

ServicesInit ==
  /\ part \in ServiceParts
  /\ Only("rooms", RoomsInit, RoomsInit /\ registry = "namespace")
  /\ Only("guards", GuardsInit, GuardsInit /\ chain = TheFirst(Chains))
  /\ Only("interceptors", InterceptorsInit, InterceptorsInit /\ made = TheFirst(ChainSetups))
  /\ EmitterInit
  /\ Only("lazy", LazyInit, LazyInit /\ cell = [x \in {TheFirst(Handles)} |-> NoValue])
  /\ Only("onion", OnionInit, OnionInit /\ stack = TheFirst(Stacks) /\ terminal = TheFirst(Terminals))
  /\ PipesInit
  /\ RepliesInit
  /\ Only("uploads", UploadInit, UploadInit /\ limits = NoLimits /\ wanted = TheFirst(Wanted))
  /\ ValidationInit

\* What the parts before and after these leave alone.
First == <<roomsVars, guardVars, chainVars, emitterVars, lazyVars>>
Second == <<onionVars, pipesVars, repliesVars, uploadVars, validationVars>>

ServicesNext ==
  /\ UNCHANGED part
  /\ \/ part = "rooms" /\ RoomsNext
          /\ UNCHANGED <<guardVars, chainVars, emitterVars, lazyVars, Second>>
     \/ part = "guards" /\ GuardsNext
          /\ UNCHANGED <<roomsVars, chainVars, emitterVars, lazyVars, Second>>
     \/ part = "interceptors" /\ InterceptorsNext
          /\ UNCHANGED <<roomsVars, guardVars, emitterVars, lazyVars, Second>>
     \/ part = "emitter" /\ EmitterNext
          /\ UNCHANGED <<roomsVars, guardVars, chainVars, lazyVars, Second>>
     \/ part = "lazy" /\ LazyNext
          /\ UNCHANGED <<roomsVars, guardVars, chainVars, emitterVars, Second>>
     \/ part = "onion" /\ OnionNext
          /\ UNCHANGED <<First, pipesVars, repliesVars, uploadVars, validationVars>>
     \/ part = "requests" /\ PipesNext
          /\ UNCHANGED <<First, onionVars, repliesVars, uploadVars, validationVars>>
     \/ part = "replies" /\ RepliesNext
          /\ UNCHANGED <<First, onionVars, pipesVars, uploadVars, validationVars>>
     \/ part = "uploads" /\ UploadNext
          /\ UNCHANGED <<First, onionVars, pipesVars, repliesVars, validationVars>>
     \/ part = "validation" /\ ValidationNext
          /\ UNCHANGED <<First, onionVars, pipesVars, repliesVars, uploadVars>>

\* The middleware goes on; in the other parts it does not move.
ServicesSpec ==
  /\ ServicesInit
  /\ [][ServicesNext]_<<part, First, Second>>
  /\ part = "onion" => OnionFairness
=============================================================================
