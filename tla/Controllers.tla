---------------------------- MODULE Controllers ----------------------------
(***************************************************************************)
(* What the controller and module macros make of the attributes that an    *)
(* author writes (crate nivasa-macros: controller.rs, module_macro.rs).    *)
(*                                                                         *)
(* rustc expands attributes from the outside in.  One written above        *)
(* #[controller] runs first, as a macro of its own, and leaves a doc       *)
(* comment, a marker, at the head of the attributes that are left; one     *)
(* written below is still there for #[controller] to read.  The attributes *)
(* of methods are always read raw, by #[impl_controller].                  *)
(*                                                                         *)
(* An attribute is [name, args].  A role name is the sequence of what is   *)
(* between its commas, a metadata key that of what is between its `=`.  A  *)
(* path is a sequence of words and slashes; blanks around names and paths  *)
(* are left out, and so are attributes without their arguments.            *)
(***************************************************************************)
EXTENDS Naturals, Sequences, SequencesExt, FiniteSets

CONSTANTS
  ControllerPaths,   \* the paths of controllers
  ClassAttributes,   \* the attributes of controllers, a sequence
  MethodTexts,       \* a sequence of [signature, attrs]; a signature is [name, async, receiver, params],
                     \* a parameter [type, extractors, pipes], an extractor [kind, named]
  MaxPieces,         \* bound on controllers, their attributes and methods together
  TwoTo32            \* 2^32

VARIABLES
  text,      \* the controllers, in the order of the module
  compiled   \* "writing", "error", or what the macros made of the text

textVars == <<text, compiled>>

ControllersInit ==
  /\ text = [controllers |-> <<>>, left |-> MaxPieces]
  /\ compiled = "writing"

WriteController ==
  /\ compiled = "writing"
  /\ text.left > 0
  /\ \E path \in ControllerPaths :
       text' = [controllers |-> Append(text.controllers, [path |-> path, above |-> <<>>,
                                                          below |-> <<>>, methods |-> <<>>]),
                left |-> text.left - 1]
  /\ UNCHANGED compiled

\* Attributes go above or below the attribute of the controller; the methods come
\* later in the file.
WriteClassAttribute ==
  /\ compiled = "writing"
  /\ text.controllers # <<>>
  /\ Last(text.controllers).methods = <<>>
  /\ text.left > 0
  /\ \E i \in DOMAIN ClassAttributes :
       LET a    == ClassAttributes[i]
           c    == Len(text.controllers)
           rest == [text EXCEPT !.left = @ - 1]
       IN  \/ text' = [rest EXCEPT !.controllers[c].above = Append(@, a)]
           \/ text' = [rest EXCEPT !.controllers[c].below = Append(@, a)]
  /\ UNCHANGED compiled

\* No two functions of an impl block have one name.
WriteMethod ==
  /\ compiled = "writing"
  /\ text.controllers # <<>>
  /\ text.left > 0
  /\ \E i \in DOMAIN MethodTexts :
       LET m == MethodTexts[i]
           c == Len(text.controllers)
           methods == text.controllers[c].methods
       IN  /\ \A j \in DOMAIN methods : methods[j].signature.name # m.signature.name
           /\ text' = [text EXCEPT !.controllers[c].methods = Append(@, m), !.left = @ - 1]
  /\ UNCHANGED compiled

-----------------------------------------------------------------------------
(* Reading attributes. *)

Named(attrs, name) == SelectSeq(attrs, LAMBDA a : a.name = name)
Has(attrs, name) == Named(attrs, name) # <<>>
AtMostOne(attrs, name) == Len(Named(attrs, name)) <= 1
Entries(attrs, name) == FlattenSeq([i \in DOMAIN Named(attrs, name) |-> Named(attrs, name)[i].args])
MapSeq(Op(_), s) == [i \in DOMAIN s |-> Op(s[i])]

Guards(attrs)       == Entries(attrs, "guard")
Roles(attrs)        == Entries(attrs, "roles")
Interceptors(attrs) == Entries(attrs, "interceptor")
Filters(attrs)      == Entries(attrs, "use_filters")
Pipes(attrs)        == Entries(attrs, "pipe")
SetMetadata(attrs)  == Entries(attrs, "set_metadata")
ThrottleOf(attrs)   == Entries(attrs, "throttle")       \* <<>>, or <<limit, ttl>>
SkipThrottle(attrs) == Has(attrs, "skip_throttle")

\* A marker with no role in it; a limit or a ttl that is zero or, the limit, wider than 32 bits.
AttributesRead(attrs) ==
  /\ \A a \in ToSet(Named(attrs, "roles")) : a.args # <<>>
  /\ \A a \in ToSet(Named(attrs, "throttle")) : a.args[1] \in 1 .. TwoTo32 - 1 /\ a.args[2] > 0

-----------------------------------------------------------------------------
(* The macros of attributes above #[controller]. *)

\* The roles are joined with commas and split again, empty ones left out.
RolesMarker(args) == MapSeq(LAMBDA part : <<part>>, FlattenSeq(args))

\* The limit is cut to 32 bits.
ThrottleMarker(args) == <<args[1] % TwoTo32, args[2]>>

\* `key=value` is split at its first `=`.
SetMetadataMarker(args) ==
  <<[key |-> <<Head(args[1].key)>>, value |-> Tail(args[1].key) \o args[1].value]>>

Marker(a) ==
  CASE a.name = "roles"        -> [a EXCEPT !.args = RolesMarker(@)]
    [] a.name = "throttle"     -> [a EXCEPT !.args = ThrottleMarker(@)]
    [] a.name = "set_metadata" -> [a EXCEPT !.args = SetMetadataMarker(@)]
    [] OTHER                   -> a

\* Slip: each macro replaces the marker of the one before it.
Seen_LastMarker(above, below) ==
  (IF above = <<>> THEN <<>> ELSE <<Marker(Last(above))>>) \o below

\* Each macro puts its marker in front.
Seen(above, below) == Reverse(MapSeq(Marker, above)) \o below

-----------------------------------------------------------------------------
(* #[controller]: expand_controller. *)

ClassSeen(c) == Seen(c.above, c.below)

ClassAccepted(c) ==
  /\ AttributesRead(ClassSeen(c))
  /\ AtMostOne(ClassSeen(c), "throttle")
  /\ AtMostOne(ClassSeen(c), "skip_throttle")

\* What the generated __nivasa_controller_... functions return.
Kept(attrs) ==
  [guards |-> Guards(attrs), roles |-> Roles(attrs), interceptors |-> Interceptors(attrs),
   filters |-> Filters(attrs), pipes |-> Pipes(attrs), metadata |-> SetMetadata(attrs),
   throttle |-> ThrottleOf(attrs), skip |-> SkipThrottle(attrs)]

ClassMetadata(c) == Kept(ClassSeen(c))

-----------------------------------------------------------------------------
(* #[impl_controller]: expand_impl_controller. *)

Verbs == {"get", "post", "put", "delete", "patch", "head", "options", "all"}
SingleAttributes ==
  {"pipe", "throttle", "skip_throttle", "http_code", "api_operation", "api_body",
   "api_bearer_auth", "health_check"}

VerbsOf(m) == SelectSeq(m.attrs, LAMBDA a : a.name \in Verbs)
IsRoute(m) == VerbsOf(m) # <<>>
Verb(m) == Head(VerbsOf(m)).name
RoutePath(m) == Head(VerbsOf(m)).args

TakesName   == {"param", "query", "header", "custom_param"}
RejectsName == {"ip", "connected_socket", "session", "file", "files"}

\* The other extractors take a name or none.
ExtractorAccepted(e) ==
  /\ e.kind \in TakesName => e.named
  /\ e.kind \in RejectsName => ~e.named

\* collect_parameter_bindings: one extractor and one #[pipe] at most for each parameter.
ParametersAccepted(m) ==
  \A p \in ToSet(m.signature.params) :
    /\ Len(p.extractors) <= 1 /\ \A e \in ToSet(p.extractors) : ExtractorAccepted(e)
    /\ Len(p.pipes) <= 1

Parameters(m) == FlattenSeq(MapSeq(LAMBDA p : p.extractors, m.signature.params))
HasParameterPipes(m) == \E p \in ToSet(m.signature.params) : p.pipes # <<>>

Bare(m) == m.attrs = <<>> /\ Parameters(m) = <<>> /\ ~HasParameterPipes(m)

MethodAccepted(m) ==
  /\ AttributesRead(m.attrs)
  /\ \A name \in SingleAttributes : AtMostOne(m.attrs, name)
  /\ Len(VerbsOf(m)) <= 1
  /\ ParametersAccepted(m)
  /\ IsRoute(m) \/ Bare(m)

RoutesOf(c) == SelectSeq(c.methods, IsRoute)

\* No verb and path twice, as they are written.
ImplAccepted(c) ==
  /\ \A i \in DOMAIN c.methods : MethodAccepted(c.methods[i])
  /\ \A i, j \in DOMAIN RoutesOf(c) :
       i # j => \/ Verb(RoutesOf(c)[i]) # Verb(RoutesOf(c)[j])
                \/ RoutePath(RoutesOf(c)[i]) # RoutePath(RoutesOf(c)[j])

\* controller_dispatch_kind: `&self`, alone or with the request, not async.  A
\* handler of another kind is not registered.
Dispatchable(m) ==
  LET s == m.signature
  IN  /\ ~s.async
      /\ s.receiver
      /\ \/ s.params = <<>>
         \/ Len(s.params) = 1 /\ s.params[1].type = "NivasaRequest"

TrimLeft(path) == LET n == {i \in DOMAIN path : path[i] # "/"}
                  IN  IF n = {} THEN <<>> ELSE SubSeq(path, CHOOSE i \in n : \A j \in n : i <= j, Len(path))
TrimRight(path) == Reverse(TrimLeft(Reverse(path)))

\* __nivasa_controller_join_route: nothing gives a path a leading slash.
JoinRoute(prefix, path) ==
  LET p == TrimRight(prefix)
      r == TrimLeft(path)
  IN  IF p = <<>> THEN <<"/">> \o r ELSE IF r = <<>> THEN p ELSE p \o <<"/">> \o r

NoThrottle == <<>>
Skips(c, m) == SkipThrottle(m.attrs) \/ ClassMetadata(c).skip

Throttle(c, m) ==
  IF Skips(c, m) THEN NoThrottle
  ELSE IF ThrottleOf(m.attrs) # NoThrottle THEN ThrottleOf(m.attrs)
  ELSE ClassMetadata(c).throttle

-----------------------------------------------------------------------------
(* #[module]: module_impl. *)

\* __nivasa_module_controller_registrations, for one method.
RouteRegistration(i, m) ==
  LET c == text.controllers[i]
  IN  [method |-> Verb(m), path |-> JoinRoute(c.path, RoutePath(m)), handler |-> m.signature.name,
       throttle |-> Throttle(c, m), skip |-> Skips(c, m), controller |-> i]

\* What __nivasa_controller_register_route_handlers puts into the registry.
HandlerRegistrations(i) ==
  LET c == text.controllers[i]
  IN  MapSeq(LAMBDA m : [path |-> JoinRoute(c.path, RoutePath(m)), handler |-> m.signature.name,
                         controller |-> i],
             SelectSeq(RoutesOf(c), Dispatchable))

Compile ==
  /\ compiled = "writing"
  /\ text.controllers # <<>>
  /\ compiled' = IF \A i \in DOMAIN text.controllers :
                      ClassAccepted(text.controllers[i]) /\ ImplAccepted(text.controllers[i])
                   THEN "compiled" ELSE "error"
  /\ UNCHANGED text

ControllersNext ==
  WriteController \/ WriteClassAttribute \/ WriteMethod \/ Compile

-----------------------------------------------------------------------------

\* Wherever an author puts the attributes of a controller, above or below
\* #[controller], none is lost and none is made up: guards, interceptors, filters, pipes,
\* role names up to their commas and metadata up to where its key ends are those that were
\* written, and a throttle is the one that was, unless its limit does not fit in 32 bits
\* (controller.rs:360-410 against the markers of :2585-2992).
NoAttributeLost ==
  compiled = "compiled" =>
    \A i \in DOMAIN text.controllers :
      LET c       == text.controllers[i]
          written == Kept(c.above \o c.below)
          kept    == ClassMetadata(c)
          Same(a, b) == ToSet(a) = ToSet(b)
          Joined(list) == {e.key \o e.value : e \in ToSet(list)}
      IN  /\ Same(kept.guards, written.guards)
          /\ Same(kept.interceptors, written.interceptors)
          /\ Same(kept.filters, written.filters)
          /\ Same(kept.pipes, written.pipes)
          /\ Same(FlattenSeq(kept.roles), FlattenSeq(written.roles))
          /\ Joined(kept.metadata) = Joined(written.metadata)
          /\ kept.skip = written.skip
          /\ kept.throttle = written.throttle \/ written.throttle[1] >= TwoTo32
=============================================================================
