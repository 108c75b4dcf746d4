---------------------------- MODULE Orchestrator ----------------------------
(***************************************************************************)
(* The module orchestrator (module/orchestrator.rs) and the runtimes of    *)
(* the modules (module/runtime.rs, statecharts/nivasa.module.scxml):       *)
(* register, bootstrap and shutdown.  bootstrap and shutdown are           *)
(* asynchronous: they await user code (configure, factories, hooks) and    *)
(* the containers, may be dropped by the caller at any await, and give up  *)
(* at the first error.  One action reaches from one await to the next.     *)
(*                                                                         *)
(* Of a container only the singletons matter that it can hand to another   *)
(* module: holds[m][T] is the instance of T in the cache of m's container, *)
(* named by the module that built it and the registration of that module.  *)
(***************************************************************************)
EXTENDS ModuleGraph, FiniteSets, TLC

CONSTANTS
  Types,          \* provider types
  Graphs,         \* what the modules may declare: each a function from modules
  Missing,
  MaxRegistered   \* bound on registrations

VARIABLES
  meta,              \* metadata() and the lifetimes of the providers of every module
  entries,           \* registry.entries
  born,              \* which registration made the runtime of a module
  count,             \* registrations so far
  state,             \* chart state of each runtime
  holds,             \* singletons in each runtime's container
  order,             \* local `order` of bootstrap
  activation_order,
  stage,                \* where bootstrap or shutdown is suspended
  at,                \* loop position
  todo,              \* import sources still to be copied from
  hook,              \* the hook called by the step just taken
  result             \* how the last bootstrap or shutdown ended

runtimes == <<entries, born, count>>
orchestratorVars == <<meta, entries, born, count, state, holds, order, activation_order, stage, at,
          todo, hook, result>>

ChartState == {"unloaded", "registering_providers", "resolving_dependencies", "loaded",
               "initialized", "active", "destroying", "destroyed", "load_failed", "failed"}
Stages     == {"idle", "next", "seed", "configure", "initialize", "init_hook",
           "bootstrap_hooks", "shutdown_hooks", "destroy", "destroy_hook"}
Result == {"none", "bootstrapped", "shut_down", "failed", "cancelled"}
Singleton == [by : Modules, born : Nat]
Hooks  == [name : {"init", "bootstrap", "shutdown", "destroy"}, module : Modules]

ASSUME OrchestratorAssumption ==
  /\ MaxRegistered \in Nat /\ Missing \notin Hooks
  /\ \A g \in Graphs : \A m \in Modules :
       g[m].imports \in Seq(Modules) /\ g[m].exports \subseteq Types

\* Every variable has its type, and runtimes exist for registered modules.
OrchestratorTyped ==
  /\ meta \in Graphs
  /\ entries = [m \in DOMAIN entries |-> meta[m]] /\ DOMAIN entries \subseteq Modules
  /\ born \in [Modules -> Nat] /\ count \in 0..MaxRegistered
  /\ state \in [Modules -> ChartState]
  /\ holds \in [Modules -> [Types -> Singleton \cup {Missing}]]
  /\ order \in Seq(Modules) /\ activation_order \in Seq(DOMAIN entries)
  /\ stage \in Stages
  /\ at \in Nat
  /\ todo \in Seq(Modules)
  /\ hook \in Hooks \cup {Missing}
  /\ result \in Result

Nothing == [T \in Types |-> Missing]

OrchestratorInit ==
  /\ meta \in Graphs
  /\ entries = << >>
  /\ born = [m \in Modules |-> 0]
  /\ count = 0
  /\ state = [m \in Modules |-> "unloaded"]
  /\ holds = [m \in Modules |-> Nothing]
  /\ order = <<>>
  /\ activation_order = <<>>
  /\ stage = "idle"
  /\ at = 0
  /\ todo = <<>>
  /\ hook = Missing
  /\ result = "none"

\* Slip: shutdown destroys in activation order.
Current_Forward ==
  IF stage \in {"destroy", "destroy_hook"} THEN activation_order[Len(activation_order) - at + 1]
  ELSE order[at]

Current == IF stage \in {"destroy", "destroy_hook"} THEN activation_order[at] ELSE order[at]

Go(next) == stage' = next /\ UNCHANGED result

\* The call returns, or is dropped, here.
End(how) ==
  /\ stage' = "idle"
  /\ at' = 0
  /\ todo' = <<>>
  /\ order' = <<>>
  /\ result' = how

Quiet == hook' = Missing
Call(name, m) == hook' = [name |-> name, module |-> m]

-----------------------------------------------------------------------------

\* A second registration of a module drops its runtime, whatever its state.
Register(m) ==
  /\ stage = "idle"
  /\ count < MaxRegistered
  /\ count' = count + 1
  /\ born' = [born EXCEPT ![m] = count + 1]
  /\ entries' = [x \in DOMAIN entries \cup {m} |-> IF x = m THEN meta[m] ELSE entries[x]]
  /\ state' = [state EXCEPT ![m] = "unloaded"]
  /\ holds' = [holds EXCEPT ![m] = Nothing]
  /\ Quiet
  /\ UNCHANGED <<meta, order, activation_order, stage, at, todo, result>>

Bootstrap ==
  /\ stage = "idle"
  /\ LET r == ResolveOrder(entries)
     IN  IF IsOk(r) THEN Go("next") /\ order' = r.value /\ at' = 1 /\ UNCHANGED todo
                    ELSE End("failed")
  /\ Quiet
  /\ UNCHANGED <<meta, runtimes, state, holds, activation_order>>

\* The first loop of bootstrap takes up a module, or the second one begins.
NextModule ==
  /\ stage = "next"
  /\ IF at <= Len(order)
       THEN Go("seed") /\ todo' = ImportSources(entries, Current).value /\ UNCHANGED at
       ELSE Go("bootstrap_hooks") /\ at' = 1 /\ UNCHANGED todo
  /\ Quiet
  /\ UNCHANGED <<meta, runtimes, state, holds, order, activation_order>>

Seeding(copied(_, _)) ==
  /\ stage = "seed"
  /\ todo # <<>>
  /\ holds' = [holds EXCEPT ![Current] =
       [T \in Types |-> IF copied(Head(todo), T) THEN holds[Head(todo)][T] ELSE @[T]]]
  /\ todo' = Tail(todo)
  /\ Quiet
  /\ UNCHANGED <<meta, runtimes, state, order, activation_order, stage, at, result>>

\* Slip: what a source itself imported is not passed on.
SeedSource_OwnOnly ==
  Seeding(LAMBDA s, T : /\ T \in PublicSurface(entries, s).value
                        /\ T \in meta[s].provides
                        /\ holds[s][T] # Missing)

\* seed_imported_exports, one source at a time: what the source does not hold
\* (yet) is skipped.
SeedSource ==
  /\ stage = "seed"
  /\ todo # <<>>
  /\ LET surface == PublicSurface(entries, Head(todo))
         offered == holds[Head(todo)]
     IN  IF IsOk(surface)
           THEN /\ holds' = [holds EXCEPT ![Current] =
                     [T \in Types |-> IF T \in surface.value /\ offered[T] # Missing
                                      THEN offered[T] ELSE @[T]]]
                /\ todo' = Tail(todo)
                /\ UNCHANGED <<stage, at, order, result>>
           ELSE End("failed") /\ UNCHANGED holds
  /\ Quiet
  /\ UNCHANGED <<meta, runtimes, state, activation_order>>

\* load, up to the await of configure.
StartLoad ==
  /\ stage = "seed"
  /\ todo = <<>>
  /\ IF state[Current] = "unloaded"
       THEN /\ state' = [state EXCEPT ![Current] = "registering_providers"]
            /\ Go("configure")
            /\ UNCHANGED <<at, todo, order>>
       ELSE End("failed") /\ UNCHANGED state
  /\ Quiet
  /\ UNCHANGED <<meta, runtimes, holds, activation_order>>

\* configure registers providers, which displace what was imported.
Displace(S) ==
  holds' = [holds EXCEPT ![Current] = [T \in Types |-> IF T \in S THEN Missing ELSE @[T]]]

Configure ==
  /\ stage = "configure"
  /\ Displace(meta[Current].provides)
  /\ state' = [state EXCEPT ![Current] = "resolving_dependencies"]
  /\ Go("initialize")
  /\ Quiet
  /\ UNCHANGED <<meta, runtimes, order, activation_order, at, todo>>

\* An error of configure leaves the chart where it was.
ConfigureFails ==
  /\ stage = "configure"
  /\ \E S \in SUBSET meta[Current].provides : Displace(S)
  /\ End("failed")
  /\ Quiet
  /\ UNCHANGED <<meta, runtimes, state, activation_order>>

\* The instances that container.initialize builds are new.
Built(S) ==
  holds' = [holds EXCEPT ![Current] =
    [T \in Types |-> IF T \in S THEN [by |-> Current, born |-> born[Current]] ELSE @[T]]]

Singletons == meta[Current].provides \ meta[Current].scoped

\* load ends, initialize follows at once, and the init hook is called.
Initialize ==
  /\ stage = "initialize"
  /\ Built(Singletons)
  /\ state' = [state EXCEPT ![Current] = "initialized"]
  /\ Call("init", Current)
  /\ Go("init_hook")
  /\ UNCHANGED <<meta, runtimes, order, activation_order, at, todo>>

\* Circular and missing dependencies have an event of the chart; other errors
\* do not.
InitializeFails ==
  /\ stage = "initialize"
  /\ \E S \in SUBSET Singletons : Built(S)
  /\ \E s \in {"load_failed", "resolving_dependencies"} : state' = [state EXCEPT ![Current] = s]
  /\ End("failed")
  /\ Quiet
  /\ UNCHANGED <<meta, runtimes, activation_order>>

Activate ==
  /\ stage = "init_hook"
  /\ state' = [state EXCEPT ![Current] = "active"]
  /\ at' = at + 1
  /\ Go("next")
  /\ Quiet
  /\ UNCHANGED <<meta, runtimes, holds, order, activation_order, todo>>

\* The second loop of bootstrap; at its end the order is kept for shutdown.
BootstrapHook ==
  /\ stage = "bootstrap_hooks"
  /\ IF at <= Len(order)
       THEN /\ Call("bootstrap", order[at])
            /\ at' = at + 1
            /\ UNCHANGED <<stage, todo, order, activation_order, result>>
       ELSE /\ End("bootstrapped")
            /\ activation_order' = order
            /\ Quiet
  /\ UNCHANGED <<meta, runtimes, state, holds>>

\* shutdown: the hooks of all modules, last activated first, whatever became of
\* them since.
Shutdown ==
  /\ stage = "idle"
  /\ Go("shutdown_hooks")
  /\ at' = Len(activation_order)
  /\ Quiet
  /\ UNCHANGED <<meta, runtimes, state, holds, order, activation_order, todo>>

ShutdownHook ==
  /\ stage = "shutdown_hooks"
  /\ IF at > 0
       THEN /\ Call("shutdown", activation_order[at])
            /\ at' = at - 1
            /\ UNCHANGED stage
       ELSE /\ Go("destroy")
            /\ at' = Len(activation_order)
            /\ Quiet
  /\ UNCHANGED <<meta, runtimes, state, holds, order, activation_order, todo, result>>

BeginDestroy ==
  /\ stage = "destroy"
  /\ at > 0
  /\ IF state[Current] = "active"
       THEN /\ state' = [state EXCEPT ![Current] = "destroying"]
            /\ Call("destroy", Current)
            /\ Go("destroy_hook")
            /\ UNCHANGED <<at, todo, order>>
       ELSE End("failed") /\ Quiet /\ UNCHANGED state
  /\ UNCHANGED <<meta, runtimes, holds, activation_order>>

CompleteDestroy ==
  /\ stage = "destroy_hook"
  /\ state' = [state EXCEPT ![Current] = "destroyed"]
  /\ at' = at - 1
  /\ Go("destroy")
  /\ Quiet
  /\ UNCHANGED <<meta, runtimes, holds, order, activation_order, todo>>

\* Slip: the loop ends before the first module.
EndShutdown_Early ==
  /\ stage = "destroy"
  /\ at <= 1
  /\ End("shut_down")
  /\ Quiet
  /\ UNCHANGED <<meta, runtimes, state, holds, activation_order>>

EndShutdown ==
  /\ stage = "destroy"
  /\ at = 0
  /\ End("shut_down")
  /\ Quiet
  /\ UNCHANGED <<meta, runtimes, state, holds, activation_order>>

\* The caller drops the future of bootstrap or shutdown.
Dropped ==
  /\ stage # "idle"
  /\ End("cancelled")
  /\ Quiet
  /\ UNCHANGED <<meta, runtimes, state, holds, activation_order>>

OrchestratorNext ==
  \/ \E m \in Modules : Register(m)
  \/ Bootstrap
  \/ NextModule
  \/ SeedSource
  \/ StartLoad
  \/ Configure
  \/ ConfigureFails
  \/ Initialize
  \/ InitializeFails
  \/ Activate
  \/ BootstrapHook
  \/ Shutdown
  \/ ShutdownHook
  \/ BeginDestroy
  \/ CompleteDestroy
  \/ EndShutdown
  \/ Dropped

OrchestratorSpec == OrchestratorInit /\ [][OrchestratorNext]_orchestratorVars

-----------------------------------------------------------------------------

Calling(name, m) == hook = [name |-> name, module |-> m]

Imports(m) == ToSet(meta[m].imports)

\* When a module is initialised all its imports are active, and have been
\* through their own init hooks (orchestrator.rs:360-365, module-system.md:103).
InitAfterImports ==
  \A m \in Modules : Calling("init", m) =>
    \A i \in Imports(m) : i \in DOMAIN entries /\ state[i] = "active"

\* Application hooks run when every registered module is active
\* (orchestrator.rs:367-370, lifecycle.rs:77).
BootstrapAfterAll ==
  \A m \in Modules : Calling("bootstrap", m) =>
    \A n \in DOMAIN entries : state[n] = "active"

\* When a module is initialised, a type exported by an import is in its
\* container: its own provider if it declares one, or the very instance that
\* an exporting source holds (orchestrator.rs:415-428).
ImportsShared ==
  \A m \in Modules : Calling("init", m) =>
    \A i \in Imports(m) : \A T \in PublicSurface(entries, i).value :
      holds[i][T] # Missing =>
        \/ T \in meta[m].provides
        \/ \E s \in ToSet(ImportSources(entries, m).value) :
             T \in PublicSurface(entries, s).value /\ holds[m][T] = holds[s][T]

\* A container never comes to hold a type that the registry does not let its
\* module see, whatever was registered again, failed or was dropped
\* (module-system.md:50-51).
NothingHidden ==
  \A m \in DOMAIN entries : \A T \in Types :
    holds[m][T] # Missing =>
      \/ T \in meta[m].provides
      \/ \E s \in Modules \ {m} : /\ s \in Imports(m) \/ meta[s].global
                                  /\ T \in meta[s].exports

\* Of the modules that the last successful bootstrap activated, none is destroyed
\* while another that imports it is active (orchestrator.rs:397-406).
DestroyOrder ==
  \A m \in Modules : Calling("destroy", m) =>
    \A n \in ToSet(activation_order) : m \in Imports(n) => state[n] # "active"

\* A shutdown that reports success has destroyed every module of the activation
\* order (orchestrator.rs:397-408).
ShutDownClean ==
  [][EndShutdown => \A m \in ToSet(activation_order) : state[m] = "destroyed"]_orchestratorVars

\* Shutdown shuts down the modules, "in reverse activation order"
\* (orchestrator.rs:384): none is left active.  Those that a failed or dropped
\* bootstrap activated are in no activation order.
NoneLeftActive ==
  stage = "idle" /\ result = "shut_down" => \A m \in Modules : state[m] # "active"

\* The exported singletons of global modules are available in every module
\* without an import (module-system.md:59).  They are not in the modules that
\* the order places before the global one.
GlobalsVisible ==
  \A m \in Modules : Calling("init", m) =>
    \A g \in DOMAIN entries \ {m} : meta[g].global =>
      \A T \in (meta[g].exports \cap meta[g].provides) \ meta[g].scoped : holds[m][T] # Missing

\* What bootstrap takes from the registries of this program.
Registries == UNION {{[m \in D |-> g[m]] : D \in SUBSET Modules} : g \in Graphs}

RegistryIsRight == \A reg \in Registries : OrderRight(reg) /\ SourcesRight(reg) /\ SurfacesRight(reg)

\* Init hooks follow those of the imports, application hooks those of all modules, and destroy
\* hooks come before those of the imports, however the modules were registered again in between (orchestrator.rs:360-406).
HooksInOrder == InitAfterImports /\ BootstrapAfterAll /\ DestroyOrder

\* Instances are shared with those, and only those, who may see them
\* (orchestrator.rs:415-428, module-system.md:50-51).
SharedAlongImports == OrchestratorTyped /\ ImportsShared /\ NothingHidden
=============================================================================
