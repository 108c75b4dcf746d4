# A TLA+ development of nivasa

nivasa is a web framework in Rust: modules with dependency injection, an HTTP
server whose request pipeline is driven by statecharts, routing, WebSocket
gateways, a scheduler, and macros and a command line tool that write the code
around them. This directory models the parts of it in which order,
interleaving, failure or the composition of conversions decide whether the
program is right. The modules are checked with TLC on small instances. The main
results about the container, the dependency walk, the orchestrator, the server's
request path, the scheduler, the rooms, guards, interceptors, middleware, lazy
values and the emitter are proved with TLAPS for every instance.

Source paths below are relative to the repository.

## The system and its parts

| Part | Source | State it keeps | Operations | What makes it correct |
|---|---|---|---|---|
| Dependency container | `nivasa-core/src/di/container.rs` | version per type, provider registry, shared singleton cache, one scoped cache per handle | register, register_value, remove, resolve, resolve_optional, initialize, import/export of singletons | nothing older than the provider is served; everybody gets the same singleton |
| Providers, lazy values | `nivasa-core/src/di/provider.rs`, `lazy.rs` | one statechart engine per construction; a once-cell | instantiate, get | built once |
| Provider graph | `nivasa-core/src/di/graph.rs` | nodes and their dependencies | add_node, resolve_order | dependencies first, true errors |
| Module registry | `nivasa-core/src/module/registry.rs` | metadata of the registered modules | register, resolve_order, export surfaces, import sources | imports first; exports provided by someone; the two ways to ask what is visible agree |
| Module orchestrator and runtimes | `nivasa-core/src/module/orchestrator.rs`, `runtime.rs`, `statecharts/nivasa.module.scxml` | a runtime (chart, container) per module, activation order | register, bootstrap, shutdown | hooks in order, sharing along imports only, shutdown in reverse |
| HTTP server | `nivasa-http/src/server.rs`, `pipeline.rs`, `statecharts/nivasa.request.scxml` | accept loop, connection tasks, per request a chart engine, handler threads | listen, handle_request, shutdown | no layer can be skipped; the chart tells the outcome; deadlines hold; after a shutdown only idle connections hold `listen` |
| Routing | `nivasa-routing/src/lib.rs` | sorted list of routes, index by first segment | register (plain, by prefix, by version), select, dispatch | the special route wins; the index changes nothing; 404 and 405 are true |
| SCXML parser, validator, code generator, engine | `nivasa-statechart/src/*`, `build.rs` | the document read so far; the engine's state and its ring of recent transitions | from_str, validate, generate, send_event | the document that is run is the one that was written, and its faults are said |
| Guards, throttler | `nivasa-guards/src/lib.rs` | map of windows under a mutex | can_activate, allow | what a window promises, no more and no less |
| Interceptors | `nivasa-interceptors/src/lib.rs` | store of CacheInterceptor | intercept | a cached answer belongs to the request, is in time and shows no hidden field |
| Exception filters | `nivasa-filters` | none | catch | precedence (in Server) |
| Pipes, validation | `nivasa-pipes`, `nivasa-validation`, `nivasa-macros/src/validation.rs` | none | transform, validate_with | what is not changed is not noticed; each error names a fault and each fault has one |
| Scheduler | `nivasa-scheduling/src/lib.rs` | map of jobs with next fire times | register_*, remove_job, tick | nothing lost, nothing twice, removed stays removed |
| Event emitter | `nivasa-core/src/module/event_emitter.rs` | list of listeners | on, emit | every listener of the snapshot once, in order |
| WebSocket registries | `nivasa-websocket/src/lib.rs` | rooms per namespace, inboxes | join, leave, connect, disconnect, emit | members and inboxes agree |
| Configuration | `nivasa-config/src/lib.rs` | what was loaded and checked | load_env, for_root_with_schema, validate, get | what was checked can be read; references mean what the lookup says |
| Controller macros | `nivasa-macros/src/controller.rs`, `module_macro.rs` | doc markers left on the item | `#[controller]`, `#[impl_controller]` and their attributes | no attribute is lost |
| Application facade, controller handler map | `nivasa/src/application.rs`, `nivasa-http/src/lib.rs` | the built application; a process-wide map of handlers | build, to_server, listen, register, resolve | what starts serves what was declared |
| Middleware | `nivasa-http/src/lib.rs` | a mutex per shared Tower service | use_, call | one truthful answer per request, nobody waits for ever |
| Requests | `nivasa-http/src/request.rs`, `body.rs` | the request | accessors, setters, run_controller_action | the ways to read one value agree |
| Responses | `nivasa-http/src/response.rs` | status, headers, body, chunks, events | builders, into_response | the client reads what was made |
| Uploads | `nivasa-http/src/upload.rs` | limits | extract_from_bytes | the files are those sent |
| Command line | `nivasa-cli/src/main.rs` | the files of a project | new, generate | registrations stand, failures leave nothing |
| Health, logging, GraphQL, OpenAPI, test helpers, common types, other macros | `nivasa-http/src/*`, `nivasa-graphql`, `nivasa-macros`, `nivasa-common`, ... | none that outlives a call | wiring of libraries, data | out of scope, see below |

How they interact. The orchestrator owns a registry and one runtime per
module. Bootstrap asks the registry for the activation order (a depth-first
walk of imports); for each module it copies exported singletons out of the
containers of its imports and of global modules into the module's own
container, lets the module register its providers, and calls the container's
`initialize`, which orders the providers with the provider graph (the same walk)
and builds the singletons. Shutdown goes through the activation order
backwards. The application facade builds the root module's container, resolves
the routes of its controllers and hands them to the server. The server accepts
connections in a loop; each is a task that takes one request after another
through middleware, a copy of the routing registry, guards, pipes,
interceptors and the handler, which runs on a thread of the blocking pool, and
through the exception filters when something fails. One engine of the request
chart goes along with each request. Handlers resolve from the containers at
any time, on any thread of the runtime. The scheduler is a service that is
resolved from a container; any number of tasks may tick it.

What is hard. Everything in the container and the scheduler is asynchronous:
every lock acquisition is an await, at which tasks interleave and at which a
task may be dropped (a request timeout, a `select!`). Bootstrap and shutdown
await user code that may fail, and may be dropped as well. No lock is held from
a check to the write that depends on it. In the server a request can be dropped
at every await while its handler thread goes on, and about twenty early returns
each have to leave the chart where the response says it is. What surrounds a
request has less concurrency and more seams: a value is parsed, carried,
written and parsed again by code that does not share a definition of it, and
a small difference shows only when three of those steps meet. `PROJECT.json`
lists the hazards, each at its line, with the properties that would catch it.

## Modules

### Container, ContainerArcs, ProviderCell, ContainerProofs

`Container` is the container seen through one TypeId. One action is one
critical section; `pc[t]` is the critical section that task `t` is about to
enter, and `ver`, `prov`, `inst` are the locals `version`, `provider` and
`instance_any` of the call.

| Code | Actions |
|---|---|
| `register_provider_by_id` (170-187) | `BeginRegister`, `InsertProvider`, `ClearShared`, `ClearScoped` |
| `register_value`, `import_singleton_value` | `BeginValue`, `InsertProvider`, `PutValue`, `ClearScoped` |
| `remove` (488-506) | `RemoveProvider`, `RemoveBump`, `RemoveShared`, `RemoveScoped` |
| `resolve` (536-587) | `BeginResolve`, `ReadProvider` or `ProviderMissing`, `CacheHit` or `CacheMiss`, `Evict`, `Build` or `BuildFails`, `Recheck`, `Store` |
| `resolve_optional` | `BeginOptional`, then as `resolve` |
| `initialize` (716-764), one provider | `BeginInitialize`, `ReadVersion`, then from the cache on as `resolve` |
| `export_singleton_value` | `BeginResolve` with the call "export" |
| a dropped future | `Cancel` |

Several TypeIds meet only inside factories that resolve other types; each of
those is a call of its own, so one TypeId shows every race. Three facts of the
code are kept: `remove` alone holds one lock while it waits for another
(`SharedFree`), only the handle a call is made on has its scoped cache cleared,
and a stale entry is dropped in a second critical section without a second look.

The constant `Exclusive` says whether callers run registrations and removals
alone. The code does not enforce that, but its documentation describes usage in
which `configure` registers and everything else only resolves. Without the
discipline the cache can go wrong (see the runs); with it the container
implements `ProviderCell`, an abstract specification with no versions and no
caches: one cell that holds the current provider, and answers that are true of
the cell when they are given.

`ContainerArcs` adds a history: the instances handed out since the provider
last changed.

### DependencyWalk (proofs in BuildTimeProofs)

`resolve_order` and `dfs` of the module registry and of the provider graph, as
one state machine with the recursion unrolled: `path` is the call stack, and
`next[n]` the loop position of the frame of `n`. The variable `strict` tells
the two walks apart: the module registry fails with MissingImport when an
identifier is not registered, the provider graph skips it. Roots are taken in
any order: the registry sorts by type name, which may be anything, and the
provider graph iterates over a hash map.

### ModuleGraph, ModuleRegistry (proofs in GraphProofs and BuildTimeProofs)

`ModuleGraph` holds what the registry computes from metadata, as operators over
recursive functions: `ResolveOrder` (535-617), `PublicSurface` (223-291),
`ImportSources` (384-413) and `VisibleExports` (307-342). Errors are values.
`TryFold` is a loop with `?`; a turn of it is a function, `step[value][element]`.
`Walk` is `dfs`, a recursive function of the module, the modules that are being
visited and the order so far. The registry goes through its modules in the order
of their names; `Names` is that order, and `Listed` takes a set of modules out of
it. The memo tables are left out: they change no result. `ModuleRegistry` is the
registry as modules are registered and registered again, and compares those
operators with independent definitions.

### Orchestrator, OrchestratorProofs

`register`, `bootstrap` and `shutdown` over the charts and containers of all
modules. One action reaches from one await to the next; `stage` says where the
call is suspended and `at` is the loop position. `holds[m][T]` is the singleton
of type `T` in the container of `m`, named by the module and the registration
that built it. Failures of `configure` and of `initialize` leave what was
registered or built so far. `Dropped` is the call dropped at any await.
`ModuleGraph` supplies the order, the surfaces and the import sources.

### Scheduler, SchedulerProofs

The map of jobs and the ticks. A tick chooses the earliest due job under the
read lock (`Choose`), awaits its handler with no lock, and writes the next fire
time that it computes from its snapshot (`Settle`). Registrations, removals,
the clock and other ticks come in between; `Cancel` drops a tick. The history
variables `drops` and `alone` say how many ticks were dropped and whether ticks
have followed one another without overlap.

### RequestChart, Server, ServerProofs

`RequestChart` holds the transitions of the request chart as a constant, and
`SendEvent`, which refuses what the chart does not have. `Server` is the accept
loop, the connections and `handle_request`. `pc[c]` is the place the current
request of connection `c` is at and `at[c]` the layer of the sequence it is in;
`chart[c]` is the state of its engine, `job[c][n]` the handler task of its n-th
request, which no timeout ends.

| Code (`server.rs`) | Actions |
|---|---|
| `listen` (377-461) | `Accept`, `AcceptFails`, `Shutdown`, `Return` |
| `serve_connection` (841-876) | `Receive`, `Timeout`; `Leave` is the client closing |
| preflight, body (898-950) | `Preflight`, `RejectBody`, `CollectBody` |
| the four middleware sequences | `Forward`, `ShortCircuit`, `MatchRoute`, `NextSequence` |
| guards (1061-1122) and `evaluate_guard_chain` | `GuardPasses`, `GuardDenies`, `GuardFails`, `GuardsPassed` |
| pipes (1124-1170) | `PipesPass`, `PipeFails` |
| `execute_interceptors` | `RunIntercepted`, `CallNext`, `Abandon`, `InterceptorReturns`, `Completed`, `InterceptorAnswered`, `InterceptorFailed` |
| handler | `RunDirect`, `HandlerReturns`; the pool is `JobStarts`, `JobEnds` |
| `handle_http_exception` | `ToFilters`, `FilterEnds` |
| a panic of user code | `Panic` |

A stretch of code without an await cannot be dropped, so it is not interrupted
by `Timeout` or `Leave`; `Awaiting` says where a request waits. Which middleware,
guards, interceptors, pipes and filters there are is the record `setup`, which
`Init` takes out of the constant `Setups`: one module, several configurations.

Three things the model shows that the documents do not say. A request that fails
stays in `error_handling`: nothing sends `filter.handled`, although
`docs/request-lifecycle.md:48-49` lets it go on to `Done` (`FailuresReachDone`
is that sentence, and `ServerFailures` its counterexample; `ChartTellsOutcome`
asks of a failure no more than the error path of the same document). A short circuit of module, route-module or route
middleware returns while the chart is in `guard_chain`. And a handler that
panics without interceptors is answered without asking any filter.

### Routing

`RouteDispatchRegistry`: `routes` in order of specificity, and the index by
first segment in `anchored` and `fallback`. A pattern is a sequence of kinds and
names; the splitting of text is done before the model begins. `Captures` is the
recursive matcher, from the last segment of the pattern to the first:
`CapturesFrom` gives the captures of a segment for every place of the path, from
those of the rest of the pattern. `Before` is `cmp_specificity`,
`Rebuild` and `Candidates` are the index, `Register` and `Refuse` the entry
points (controller prefix, version in the path, version as a tag), `Select` and
`Dispatch` the lookup, and `ServerRoutes` the server's own selection
(`versioned_routes_for_request`, `server.rs:1976`), which copies the matching
routes into a fresh registry for each request. `RightRoute` compares the matcher
with `Language`, the paths a pattern stands for, and `cmp_specificity` with the
inclusion of those sets. `Lists` has the positions of a
subset in ascending order (`Ascending`) and the elements at them (`Picked`); the
proofs are in `ServiceProofs`.

### Charts (proofs in BuildTimeProofs)

A document is written element by element by its author (`source`), read by the
parser's event loop (`ReadState`, `ReadParallel`, `ReadFinal`, `ReadTransition`,
`ReadInitial`, `ReadHistory`, `ReadEnd`), put through the validator's rules and the
generated tables by `RunBuildScript`, and run (`NewEngine`, `SendEvent`). The
generated `match` arms, the initial state that is entered through nested
children and what rustc would refuse are operators; a chart without a final state
is among the refused (`Compiles`). A transition is written where the schema lets it
stand: in a state, in its `<initial>` or in a `<history>`; the parser knows one
current state and gives it all three (`GivesCurrent`). `DocumentKept` compares
what the parser holds with what was nested: parents, children, kinds, and the
transitions of every state that has neither of the two elements; of the others it
says only that nothing of their own is lost. So what an `<initial>` element means is
outside the property, and the model shows the code to disregard it: the schema allows it
(`scxml-module-core.xsd:98`), the parser has no arm for it (`parser.rs:339-345`), its
transition becomes one of the container's own, and the child it names is not entered.
`EngineOnCourse` says that the engine stays where the validator could reach and that
its history is its path. The validator's warnings of dead ends and of
non-determinism, which nothing else reads, a document's data model, scripts
and schema strings are outside the model.

### Controllers, Application

`Controllers` expands what an author writes above and below `#[controller]` in
rustc's order: an attribute above runs first as a macro of its own and leaves a
doc marker, one below is read raw (`WriteController`, `WriteClassAttribute`,
`WriteMethod`, `Compile`). `Application` extends it with `Build` (preflight,
duplicate routes, prefix), the process-wide map of handlers, which a build
fills under the controllers' paths, and `Listen`, which looks the handlers up
under the server's paths. `ServedOrExplained` says that a server that starts
serves for each declared route a handler of that name and path, and that one
that does not start has a route whose handler cannot be dispatched or whose
path is not normal. Seen on the way: the map's key has neither verb nor
controller (`lib.rs:169`), so of two controllers with the same path and
method name the later one answers for both; a joined path that is not normal
ends in `MissingRouteHandler`; attributes above `#[module]` are lost, though
`docs/guards.md:45` shows them there; a throttle limit is cut to 32 bits;
`response_marker_attr` matches by prefix; only the root module is configured by
`build`; `versioning` of the options is not read.

### Config

`.env` files are sequences of lines of characters; `Entry` parses a line,
`ExpandValue` expands with its cap on depth, `Merged` lays files and the process
environment over each other. `ForRootWithSchema` checks when the root module is
made, `PreBootstrap` checks again what was loaded then, `MakeService` loads anew,
and `Setenv` changes the environment in between. `ConfigHolds`: a reference has
the value that its name has in the same load, as far as the cap lets an
expansion look; behind the cap a value is inserted as it is written, references
included, and that ends long chains as well as rings (one of the files is a chain
without a ring that is longer than the instance's cap of 2; the code's is 8). And
keys required and checked before bootstrap are readable after it, unless the
process environment, from which alone they came, has changed. Seen: without files, or with
`ignore_env_file`, the process environment is not read either; characters
beyond ASCII are split into bytes; `for_root_with_schema` does not hand the
schema's defaults to the service; a ring of references, two per value, grows
to 2^9 copies before the cap ends it.

### Generator

`new` and `generate` with registration: the body of a `#[module({...})]` is a
sequence of tokens that is split, given the new item and rendered again
(`Upsert`), a write may fail and leave a torn file. `RegistrationsStand` and
`FailuresLeaveNoFile` are about sequences of commands over one tree of files.
Seen: when the module file of `--parent-module` or `--module` does not exist,
the early return of `resolve_target_file` (`main.rs:215-216`) skips the removal,
so the generated file stays and the corrected command is refused; a target typed
with `..` gets a wrong relative path.

### Membership, Rooms (proofs in ServiceProofs)

`Rooms` has the four registries of the websocket crate, `registry` says which
one a behaviour is about. `Membership` is what they promise: a relation of
triples and one inbox per client that is connected. `RoomsImplement` is the
refinement (a map of maps of sets to a set of triples); `NoEmptyRooms` adds
that the maps forget what nobody is in.

### Guards, Interceptors (proofs in ChainProofs)

`Guards` runs chains of auth, throttler and roles guards over a shared storage
of windows and a clock. A chain has no await inside a guard, so a request passes
it in one step. `ThrottleJust`: at most the limit within an open window, at most
twice the limit within any ttl, and no refusal while there was room.
`Interceptors` has the three lock sections of the cache, the timeout, the
serializer and the logger around a handler that may fail, hang or be dropped.
`AnswersTruthful`: an answer from the cache was given to a request of the same
shape within its ttl, none comes after the timeout, none shows a hidden field,
whichever of them is outside.

### Emitter, Lazy (proofs in ServiceProofs)

`Emitter`: `On`, `Emit` (the snapshot), one step per call of a listener and per
end of it, with emits cut off. `Lazy`: getters of one handle queue at its cell,
a run of the resolver may fail or be dropped and the next getter takes over, and
`CloneLazy` copies the cell as it is. Clones of an unresolved Lazy resolve for
themselves and may hold different values, although the comment above `clone` (`lazy.rs:51`)
says they share; `LazyOnce` says what does hold, and exempts them.

### Onion (proofs in ChainProofs)

Middleware before the server's pipeline (request id, logger, helmet,
compression, in any order), then a handler, or a Tower service that is shared
behind a mutex or copied per request, with middleware layered around it in turn.
`Receive` takes a request down to the service or handler, `Lock` waits for
the mutex, `Proceed` goes on from stage to stage, `DropCall` drops a call
anywhere. `AnswersIntact`: handler, log lines and client see one request id; the
label, the length and the `Vary` of an answer are those of its body; calls of a
shared service do not overlap. `EveryCallEnds` is the absence of deadlock at the
mutex. Seen: compression inside and outside encodes twice and says so once, and a
body the handler encoded itself as well; `q=0` is ignored; services made with
`new_cloneable` share whatever their clone shares (`lib.rs:633`).

### Extraction, Pipes (proofs in ChainProofs)

`Extraction` is a request from `Make` over setters and route captures to the
action that reads it (`RunAction`) and the response metadata laid over the
answer (`Decorate`). A text on the wire is a member of a small set with what it
decodes to, whether it is ASCII or UTF-8, and what JSON it is, if any. `Pipes`
extends it with the global pipes. `ReadingsAgree`: a field of a query DTO and
`query_typed` differ only where text that is JSON is asked for as a string (the DTO
refuses `?name=7`, `query_typed` reads text); and a payload is the same string,
bytes and JSON to an action whether held as text, HTML or bytes. Held as the JSON value it
stands for, it is the same JSON, while as a string or bytes it is one text, written
anew, which may differ from what was sent but reads as that JSON again.
`PipesTransparent`: a handler does not notice pipes that changed nothing, except that
JSON null becomes an empty body, and a JSON string bare text that is read as JSON again.
Seen: query values are decoded, captures and headers are not; `DefaultValuePipe` also
replaces a missing body. `#[http_code(201)]` turns the 400 of a refused
extraction into 201 as well, which `Decorate` shows and no property forbids.

### Replies (proofs in ServiceProofs)

A response is built by setters in any order, streamed, or framed as events, and
then read by a client. `EventsArrive` runs an EventSource (`Received`) over the frames,
character by character, and compares what it delivers with the events that were made
(`Meant`). Excepted: a carriage return alone, which ends a line for an EventSource and not
for `push_sse_multiline_field`. `ContentTypeTells` compares label and body. A content type
that cannot be a header is left out: of a handle it is as if it had not been set, of a
stream (`streamType`) it also keeps the chunks from being asked for theirs. An
exception with an invalid status keeps it.

### Uploads (proofs in ServiceProofs)

A client (external) writes parts, a marker and an end, which may be lost;
`Extract` is `FileInterceptor` or `FilesInterceptor` with limits. Payloads are
tokens: marker, dashes, line ends, header lines and bytes. `UploadsIntact` holds
for contents without the marker, which splits a part wherever it stands, not only at the
start of a line, and for file names without a semicolon: the code cuts a name at a
semicolon inside its quotes (`upload.rs:615`), although `upload.rs:107` speaks of "the
original filename". Where its hypotheses hold, files and names are compared whole.
`FieldsLimited` (`upload.rs:184`, "any single multipart field") fails, in a run of its own:
a part without a file name is passed over before any limit is looked at. So
`UploadsIntact` states the limits of the files alone when it accepts, and of every part,
text fields too, when it asks that a payload be accepted.

### Validation

Fields are declared with attributes (`DeclareField`), the derive accepts them or
not (`Derive`), and a value is validated under active groups
(`ValidateWith`). `ErrorsAreFaults` finds faults by following paths of a value
instead of the generated recursion. Seen: `#[is_optional]` with
`#[validate_nested]` never compiles; lengths are bytes where the message says
characters; bounds are compared as doubles, `Mantissa` is the width; `validate`
has no active group, so `ValidationPipe` never checks a grouped field; a
pattern that cannot be compiled matches nothing.

## Runs

| Run | Instance | Shows |
|---|---|---|
| `ContainerConcurrent` | two tasks, a root and a child scope, two versions, one construction | no interleaving or dropped call files an instance under a version older than its provider |
| `ContainerStale` (violation) | two tasks, one scope | registrations never overlap and no call is dropped (`CarefulSpec`); a resolve that reads the version and the provider between `bump_version` and `insert` of a registration stores the replaced provider's instance under the new version, and a later resolve, alone, is served it from the cache |
| `BuildTime` | one part per behaviour: every graph of three identifiers, at most two dependencies each, self-loops and unregistered ones included, both walks; registries of three modules, one type, at most two imports each; texts of at most three pieces, two builds; two `.env` files of eight, three environments over time, chains of references longer than the cap; two commands over a tree with two hand-written module files | walks, order and visibility right; no attribute lost, what starts serves what was declared; configuration holds; registrations stand, failures leave no file |
| `Modules` | one part per behaviour: three modules, two types, 12 import graphs, four registrations; the container of `ContainerConcurrent` with two constructions and registrations alone (`Exclusive`); every nesting of three states, two transitions, with two targets or none, in a state, its `<initial>` or a `<history>`, two attempts kept | order of hooks, sharing along imports and nowhere else, order of destruction; entries that would be served belong to the registered provider, the container implements `ProviderCell`, and while calls do not overlap everybody gets the same Arc; documents kept, engines on course |
| `OrchestratorGlobals` (violation) | the orchestrator of `Modules` | a module initialised before a global module sees none of its exports |
| `OrchestratorShutdown` (violation) | the same | after a failed or dropped bootstrap, shutdown succeeds and modules stay active |
| `Requests` | one part per behaviour: all registries of at most four routes out of eighteen registrations, in every order; a server with one thread of the pool in two configurations: with a deadline, guards and path-bound middleware, two connections (two and one request); with interceptors, pipes, filters, CORS and no deadline, one connection (two requests) | index, precedence, captures, agreement of the two version selections, truth of 404 and 405; no event refused, handlers run behind all their layers, the chart tells what was answered, filter precedence, requests end by their deadline, after a shutdown only idle connections hold `listen` |
| `ServerFailures` (violation) | the server of `Requests` | a request without a route is answered while its chart stays in `error_handling`; no failure ever reaches `done` |
| `Scheduler` | two tickers, two jobs, intervals, timeouts and cron, three clock values, one dropped tick | no occurrence lost, none run twice without overlap, removed jobs stay removed, due jobs run |
| `SchedulerZero` (violation) | one ticker, a zero interval | the tick never returns |
| `Services` | one part per behaviour: two namespaces, rooms, clients and events; nine requests through three guard chains; two callers and three requests through three interceptor chains; two emitters, three listeners; three Lazy handles; two calls through two stacks of middleware and three terminals; requests with two values per name; four edits of a response; uploads of two parts out of six, under four limits, one met exactly, the end of which may be lost; DTOs of two fields | rooms refine the relation; throttling, caching, emitting and lazy values keep their promises; answers, readings, replies, uploads and errors are true; every call ends |
| `UploadFields` (violation) | the uploads of `Services` | a text field over its limit passes |

Bounds. Two tasks suffice for the races of the container: every check that goes
stale does so because of one other call; two handles tell the own scoped cache
from another one's; two versions give every entry an older and a newer side.
Three identifiers give diamonds, rings of one to three and chains over two
steps. Four registrations let one module be registered again in the middle.
Three clock values give a job a past, a present and a future occurrence.
Two requests on a connection let a handler of the first outlive it, and one
thread lets it block the second; a second connection shares that thread. Two
interceptors have an outer and an inner one. In `Routing`, paths have up to three
segments over two literals (`MaxPath`, `Letters`), so that each kind of segment meets a literal, a
longer pattern and a shorter one; four routes give the sort something to move
and the index an old position to keep. `requests` in `setup`, `Threads`,
`MaxRoutes`, `MaxDeps`, `MaxDrops` and the version and clock bounds in the MC
modules are all the bounds there are.

The parts of `BuildTime`, `Modules`, `Requests` and `Services` share no state: `part` chooses the one a
behaviour moves, and the others stay at their beginning, so the states of the
parts add up instead of multiplying. Two pieces of a value, two elements of a
list, two calls and two values per name are what it takes for a conversion to
mistake one for another; a ring of two variables and a cap of two levels let the
expansion meet its cap. `Word` and `TwoTo32` stand for 2^32 and `Mantissa` for the
integers a double holds. `MaxPieces`, `MaxBuilds`, `MaxSets`, `MaxCommands`,
`MaxTransitions`, `MaxRecent`, `DepthCap`, `MaxInbox`, `GuardTime`, `MaxAdmitted`,
`ChainTime`, `MaxListeners`, `MaxEmits`, `MaxResolved`, `MaxEdits`, `MaxParts` and
`MaxFields` are the bounds.

Fairness. The walk, the scheduler, the server and the middleware have liveness properties.
The walk is one synchronous call, so it goes on while it can (`WF` of its `Next`). In
`Onion` tasks are polled and services answer (`WF` of `Proceed`), and tokio's mutex
hands itself to the next in line (`SF` of `Lock`). `FairSpec`
of the scheduler says that handlers return and callers tick again and again
(`WF_vars(Tick(t))`), which is how the module is meant to be driven; dropped
ticks are bounded by `MaxDrops`, since a caller that drops every tick runs
nothing. In `Server`, the runtime polls its tasks and fires its timers: the
server's own steps, an armed `Timeout` and the end of `listen` are weakly fair.
Nothing is assumed of middleware, guards, interceptors, filters or handlers, which
may hang, nor of clients, which may keep an idle connection open for ever: the
server has no idle timeout and shuts no connection down, so `listen` really waits
for them, and `OnlyIdleHolds` promises its return up to that.

## Proofs

`ContainerProofs` proves, for any tasks, scopes and bounds:

* `TypeCorrect` and `FutureSafe`: the strengthening relates what a task has
  read to what is there now. A task's `ver` never exceeds `version`, and a
  provider it holds was registered at or before the version it would file the
  instance under, because `bump_version` comes before `insert`.
* `CoherentlyShared` (`CoherentArcs` of `ContainerArcs`) under `Exclusive`: as long as
  no two calls overlap, the instances handed out are the one the cache serves. `ArcsInv` adds
  what the one call under way knows: past a miss, or in a mutator, nothing has been handed
  out that could disagree.
* `CoherentSafe` and `CellRefined` under `Exclusive`: while a mutator runs no
  reader does, so a reader's `ver` equals `version` and its `prov` equals
  `provider`; a mutator that was dropped half way has already moved the
  version, which makes every older entry unservable. The refinement shows that
  every step of the container is a step of `ProviderCell` or a stutter.

`GraphProofs` proves, for any modules and metadata, the three statements of
`ModuleGraph`: `OrderRight`, `SourcesRight` and `SurfacesRight`. tlapm takes a
recursive function for a CHOOSE, so each proof begins by showing that a function
with the equation exists.

* `RecursionExists` does that for any recursion that calls itself on arguments of
  a smaller measure only. Both recursions of the registry add the module to those
  being visited, so the modules not yet visited grow fewer (`WalkExists`,
  `SurfaceExists`). `FoldRuns` and `FoldKeeps` are the same for `TryFold`: the
  values before each turn exist, and what every turn keeps holds at the end.
* The order (`OrderResolved`): where an activation of `dfs` begins, no module on the
  call stack is placed and each of them imports another one of them (`Waiting`); it
  returns an order that is longer by its module, with imports first, and still
  without those on the stack (`Returned`), or an error that is true (`TrueErrors`):
  a missing module is imported by somebody, a ring of imports is one.
* Conversely an order with imports first refutes both errors (`OrderRefutes`).
* A surface that is no error is what the module exports, and each of its types is
  provided by a module that exports it (`SurfaceHolds`, `ExportsProvided`).

`BuildTimeProofs` proves, for every finite set of identifiers, that the
result of the walk is ordered, holds no node twice, is complete on success, and
that a reported ring is one; `WalkRight` sums these up as `WalkSound`, the property
of the run. The inductive invariant `WalkInv` adds to these what the
frames know: finished, open and pending nodes are told apart (`Sorted`), a
frame has settled every dependency before its position (`Frames`), and each
frame is looking at the node of the next one (`Chain`). It also proves
`RegistryOrder` (`OrderSound`) and `RegistryVisibility` (`VisibilitySound`) of
`ModuleRegistry` from the lemmas of `GraphProofs`, whatever was registered and
registered again.

Of `Charts` it proves, for any identifiers, transitions and nesting, `ChartsRead`
(`DocumentKept`) and, for any document that the build accepts and any events sent to
its engine, `EnginesStayOnCourse` (`EngineOnCourse`):

* `DocumentInv`: while a document is read, the parser's stack is the regions that are
  open, outermost first, and a final state has none inside (`Nested`); states are
  declared in the order of the identifiers and only declared ones enclose others
  (`Kept`), so a new state is inside one state and around none.
* `EngineInv`: what a document that was built names is its own (`Checked`); the engine
  is in every set that holds the initial state and is closed under targets, children and
  initial children (`Enclosed`); the recent history links up and ends where the engine
  is (`HistoryGrows`: dropping the oldest attempt keeps it the end of the path).
* `ReachableIs`: the loop of `compute_reachable` ends with a closed set, since every
  turn but the last adds a state and there are finitely many. So `Enclosed` gives the
  property.

`OrchestratorProofs` proves, for any modules, metadata and bound,
`HooksComeInOrder` (`HooksInOrder`), `SharingFollowsImports`
(`SharedAlongImports`) and the action property `ShutdownIsClean`
(`ShutDownClean`). What they need of the registry is `RegistryIsRight`: what
`ResolveOrder`, `ImportSources` and `PublicSurface` return for a registry. The
theorem `RegistryRight` takes it from `GraphProofs`, and `MCOrchestrator` makes
TLC evaluate it (`RegistriesAreRight`) on every registry of its instance. The
invariants:

* `OrderInv` adds to the property where the calls are (`Placed`), that an order
  in use is one of the present entries with imports first (`RunOk`), that what a
  bootstrap has gone past is active (`Activated`) and what a shutdown has gone
  past destroyed (`Destroyed`).
* `SharedInv` adds that what a container holds while it is being seeded came from
  the sources it has gone through so far (`SeedOk`, `Copied`).

`ServerProofs` proves, for any number of connections, requests, threads,
layers and configurations, `ServerTyped`, `EngineNeverRefuses`
(`NoneRefused`), `ChartIsTrue` (`ChartTellsOutcome`), `HandlersBehindLayers`
(`HandlerGuarded`) and `FiltersTakePrecedence` (`FilterPrecedence`). None of
these properties is inductive: they speak of responses, handlers and filters that
were asked, and say nothing of a request that is still on its way.

* `ChartInv` adds `InStep`: the place of a request determines the state of its
  engine (`guard_chain` from route matching to the last guard,
  `handler_execution` from the last pipe to the result of the interceptors),
  so that each send is one the generated transition function has. `Tells` adds
  that a request that waits, or whose `called` is set, has its handler queued.
* `TrailInv` adds `Written`: the place, with the layer it is at, determines
  the trail up to there; `OneMore` and `StageThrough` carry it from layer to
  layer and from stage to stage. `Guarded` adds that a request before the last
  interceptor's call has no handler, and later requests have none yet.
* `AskedInv` says that the filter a request waits for is the one the selection
  chose among the handler's, the controller's and the global ones, in that order. What the loop of
  `SelectExceptionFilter` returns is `LoopSelects`, for filter lists of any length.
* `StepIsLocal`: a step of one connection leaves the rest of every other one
  alone, so each action is looked at for its own connection only.

`SchedulerProofs` proves, for any tickers, jobs, schedules and bounds:

* `SchedulerTyped` and `NothingIsSkipped`, from `SchedulerInv`: a job's next fire
  time is an occurrence of it and every earlier one was run (`Stands`,
  `Complete`), and what a ticker has in hand is an occurrence whose handler it has
  started (`Hands`). The last is what lets a late `Settle` move a job on.
* `EachRunOnce` (`OnceEach`), under `Moves`, no interval is zero. `ApartInv` says
  what ticks know of each other while none overlaps. The hypothesis is needed:
  `register_interval_at` refuses zero, the plain registration does not, and a job
  that does not move is run again at the same time (see `SchedulerZero`).
* `GoneStaysGone` (`GoneForGood`), an action property.

`ServiceProofs` proves `RoomsPruned` (`NoEmptyRooms`) and `RoomsRefined`
(`RoomsKept`) for any namespaces, rooms, clients and events: every step of any of
the four registries is a step of `Membership` or a stutter. The invariant
`RoomsInv` is the types of the maps with `NoEmptyRooms`; lemmas about adding to, leaving
and purging a map of maps of sets say what each does to the triples.

It proves of the emitter and of Lazy:

* `LazyAgrees` (`LazyOnce`) and `LazyKept` (a cell that holds a value is never
  changed again). `LazyInv` adds that a cell has at most one run of its resolver
  and none once it is filled (`Alone`), and that a clone with an origin was made when
  the origin had its value (`Copied`).
* `EmitterOrder` (`HeardInOrder`). `EmitterInv` divides the snapshot of an emit into
  what was heard and what is left (`Divided`), whatever is registered meanwhile, and says
  how the count it returns follows what was heard (`Counted`).

And of `Routing`, for any registrations in any order, `RoutesSorted` (`RoutesTyped`),
`RoutingIsRight` (`RightRoute`), `RoutingAgrees` (`ServerAgrees`) and
`RoutingRefusals` (`RefusalsAreTrue`):

* `RoutingInv` says that the list is sorted without duplicates (`Sorted`) and that
  the index is exactly the routes of each first segment (`Indexed`). `Before` is
  lexicographic in the ranks (`BeforeIsLexicographic`), hence a strict weak order,
  and `InsertSorts` is the stable sort after a push.
* The loop of the matcher (`MatcherRuns`, `MatcherTurn`) accepts what `Language`
  says (`MatchesLanguage`), for patterns that `parse_segments` accepts; the captures
  of a path, put in place of the names, are that path again (`CapturesRight`).
* A pattern whose paths are some, not all, of another's goes before it
  (`MoreSpecific`), so it is the first of the two in the list (`SpecificFirst`). The
  proof reads the segments off the paths, so there have to be enough of them: paths as
  long as the patterns and two texts, the assumption `EnoughPaths`.
* `Candidates` misses no route that matches (`CandidatesComplete`), so `Select`
  takes the first one (`SelectPicks`). The server's copy holds the routes of one version
  tag in the same order (`CopyKeeps`, `ServerCopies`), so it selects the same one.

And of `Replies`, for any responses and calls on them, `RepliesComeThrough`
(`RepliesArrive`):

* Text is written and read by loops (`SplitAtLf`, `ReadAll`, `FlattenSeq`, `Meant`). Each
  has a lemma that its function exists (`LoopExists`) and one for a text that is longer
  by an element (`SplitOneMore`, `ReadOneMore`, `FlattenOneMore`), from `LoopOneMore`: two
  functions with one equation agree. Reading a text after another is reading both
  (`ReadBoth`).
* `SplitLines`: a text without a lone CR is split into lines that have no line end but a
  last CR. So each field is read as the line it was (`FieldRead`), a text of many lines as
  so many (`FieldsRead`), an event as what it adds to what was read before
  (`EventRead`), and the stream as the list of events (`StreamRead`).
* `RepliesInv` says what each way of making a response has touched (`EventsOk`,
  `StreamOk`, `HandleOk`): while a handle is made, the type that was asked for is its
  label; while a stream is, it is that of `streamType` if that can be a header. `ReplyOk`
  says that later edits leave the frames alone. That chunks which agree on a content type
  are of one kind, and the reverse, is `TypesTell`.

And of `Uploads`, for any limits and wanted files, and any parts whose contents lack the
marker and whose file names lack a semicolon, `UploadsArrive` (`UploadsIntact`):

* `Layout` says where each part stands in the payload (`LayoutGrows`, part by part), and
  that markers stand where parts begin if no content has one (`OneMark`). Markers that rise are
  counted by their order (`RisingCount`), so `Marks` are those places (`MarksAre`) and each
  section is the text of its part without the ends that are stripped (`SectionIs`).
* The first empty line of such a text is the one before the content (`FirstSeam`), so
  the part is read as it was written (`PartRead`), and it passes when the limits of files
  let it (`Passes`, `FaultIs`).
* A payload that lost its end keeps some of the first markers (`CutPoint`), none of which
  closes (`CutOpen`), so it is refused (`OpenRefused`).

`ChainProofs` proves:

* `ThrottlerIsJust` (`ThrottleJust`), for any chains, limits and clocks. The bounds
  over sliding ttls follow from the admissions since the open window started
  (`AllCounted`, `AllBounded`); a refusal is just because it was counted when it
  was made (`RefusalsEarned`).
* `CallersAreToldTheTruth` (`AnswersTruthful`), for any stack of interceptors. The
  invariant `ChainInv` says of each call (`CallOk`) what the answer it carries has
  gone through so far, of each entry of the cache (`EntryOk`) which run it is of,
  and that runs are numbered apart (`HistoryOk`, `NumbersOk`).
* `AnswersComeOutWhole` (`AnswersIntact`), for any stack of middleware. `OnionInv`
  says what a request on its way in and a response on its way out satisfy at each
  layer (`Passing`), who is inside a shared service (`ServiceOk`) and which
  identifier log lines have (`LinesOk`).

* `LookupsReadAlike` (`ReadingsAgree`) and `PipesStandAside` (`PipesTransparent`), for any
  requests, texts, setters, captures, pipes and actions, given that `serde_json` reads what
  it wrote as the same value (`ExtractionAssumption`). `ReadingInv` says that there are no
  captures before the route is matched (`RequestOk`), that the body is the one the pipes
  left (`PipingOk`), that the action was given what its extractor finds in that body
  (`ActionOk`), and that it ran only if no pipe refused (`RefusalOk`).

Only model-checked: liveness, and the properties of the parts that are conversions of
sequences, `Controllers`, `Application`, `Config`, `Generator` and `Validation`. `Config`
and `Validation` have RECURSIVE operators, which the provers do not reach; the others
write a text and read it again, which is an induction over data.
Induction takes an operator as a parameter, which the installed provers
cannot instantiate. Where a proof needs a fact about a loop, a list of any length or
a recursion of any depth (`LoopSelects`, the ascending snapshots of the emitter, the
matcher, the walks), a lemma of its own argues by a least counterexample in the
natural numbers. `LeastNumber`, `EveryNumber` and `LoopExists` are stated both in
`GraphProofs` and in `ServiceProofs`, which have nothing else in common.

Assumptions of the proofs are the named ASSUMEs of the modules: bounds are natural
numbers, sets of tasks and scopes are what they are, identifiers are a finite set in the
walk, identifiers of states are a finite list without repetition and `NoId` is none of them, the
recent history has room for an attempt, the modules of a registry are a finite list of names and imports are sequences of
them, paths are long enough for the routes (`EnoughPaths`), bodies are of the five kinds
`Body` has, the fields of events are texts, a header that is set has a value, a part has one name at most and
a content of tokens, absent values (`None`,
`NoValue`) are none of the values, schedules are intervals, timeouts and crons over
natural numbers, chains, stacks and setups are records of finite lists of the kinds the
code has. Every one of them is evaluated by a run. Two theorems or groups of them have a
hypothesis in addition: `Exclusive` in the container and `Moves` in the scheduler.

## What is not modelled

* HTTP/2: one connection carries one request at a time here.
* TLS and CORS headers. Limits of uploads that are streamed to the multer library are
  enforced there.
* Health checks, logging setup, GraphQL, OpenAPI, dynamic modules, test helpers:
  sequential wiring of libraries, and data.
* Macros other than those for controllers, modules' markers and DTOs: one
  attribute becomes one item. Tokens of generated code are never compared.
* `nivasa info` and the statechart commands of the command line, which print.
* The application chart: no code of the repository sends it an event, so
  `bootstrap` and `shutdown` do not go through it.
* Text: XML, JSON, percent escapes, cron expressions and the checks of single
  texts (e-mail, UUID, regular expression) are tables over small sets. Paths and
  version headers of requests are split before `Routing` begins; paths of controllers, lines of
  `.env` files, generated names, module bodies, SSE frames and multipart payloads
  are sequences of the characters or tokens that matter.

## Plan

Left to prove, in this order, with the lemmas `ServiceProofs` has about loops over texts:

1. `ServedOrExplained` and `NoAttributeLost`: the listing of the routes and the paths that
   are put together.
2. `RegistrationsStand`: that the module file is edited where its list ends.
