----------------------------- MODULE Container -----------------------------
(***************************************************************************)
(* The dependency container of nivasa-core (src/nivasa-core/src/di/        *)
(* container.rs), seen through one TypeId: its version, its entry in the   *)
(* provider registry, its entry in the shared singleton cache and its      *)
(* entries in the per-scope caches.  Entries of different TypeIds meet     *)
(* only through factories that resolve each other, so one TypeId shows     *)
(* every race of the caches.                                               *)
(*                                                                         *)
(* Every RwLock of the container is taken, used and released before the    *)
(* next one (`remove` alone keeps one while it waits for another), and     *)
(* every acquisition is an await.  One action below is one critical        *)
(* section; the tasks of the runtime interleave between them and may be    *)
(* dropped (cancelled) at any of them.                                     *)
(***************************************************************************)
EXTENDS Naturals, FiniteSets

CONSTANTS
  Tasks,        \* asynchronous tasks that call the container
  Scopes,       \* handles made by new, clone and create_scope: one scoped cache each
  Shared,       \* the index of the singleton cache, which every handle shares
  None,         \* Option::None
  MaxVersion,   \* bound on registrations and removals
  MaxBuilds,    \* bound on successful constructions
  Exclusive     \* TRUE: callers run registrations and removals alone

ASSUME ContainerAssumption ==
  /\ Shared \notin Scopes
  /\ MaxVersion \in Nat
  /\ MaxBuilds \in Nat
  /\ Exclusive \in BOOLEAN

VARIABLES
  version,    \* inner.versions[T], 0 when absent
  provider,   \* inner.providers[T]
  cache,      \* cache[Shared] is inner.singletons[T], cache[h] is scoped[T] of handle h
  builds,     \* constructions so far: tells one Arc from another
  pc,         \* the critical section the task is about to enter
  op,         \* the call the task is in
  handle,     \* the handle it was made on
  ver,        \* local `version`
  prov,       \* local `provider`
  inst,       \* local `instance_any`
  answer      \* what the step just taken returned to a caller, None otherwise

locals == <<op, handle, ver, prov, inst>>
store  == <<version, provider, cache>>
vars   == <<version, provider, cache, builds, pc, op, handle, ver, prov, inst, answer>>

Slots    == {Shared} \cup Scopes
Lifetime == {"singleton", "scoped", "transient"}

\* A provider is named by the version its registration produced; `value` tells
\* ValueProvider and ImportedValueProvider (one Arc for ever) from factories.
Provider == [reg : Nat, scope : Lifetime, value : BOOLEAN]
Instance == [reg : Nat, n : Nat]
Entry    == [version : Nat, inst : Instance]

MutatorPC == {"insert", "clear_shared", "clear_scoped", "put_value", "clear_after_put",
              "rem_bump", "rem_shared", "rem_scoped"}
ReaderPC  == {"version", "provider", "cached", "evict", "build", "recheck", "store"}
PC        == {"idle"} \cup MutatorPC \cup ReaderPC
Op        == {"register", "register_value", "import", "remove",
              "resolve", "optional", "initialize", "export"}
Kind      == {"ok", "missing", "failed", "absent"}

\* Every variable has its type.
TypeOK ==
  /\ version \in Nat
  /\ provider \in Provider \cup {None}
  /\ cache \in [Slots -> Entry \cup {None}]
  /\ builds \in Nat
  /\ pc \in [Tasks -> PC]
  /\ op \in [Tasks -> Op \cup {None}]
  /\ handle \in [Tasks -> Scopes \cup {None}]
  /\ ver \in [Tasks -> Nat]
  /\ prov \in [Tasks -> Provider \cup {None}]
  /\ inst \in [Tasks -> Instance \cup {None}]
  /\ answer \in [op : Op, kind : Kind, inst : Instance \cup {None}] \cup {None}

Init ==
  /\ version = 0
  /\ provider = None
  /\ cache = [s \in Slots |-> None]
  /\ builds = 0
  /\ pc = [t \in Tasks |-> "idle"]
  /\ op = [t \in Tasks |-> None]
  /\ handle = [t \in Tasks |-> None]
  /\ ver = [t \in Tasks |-> 0]
  /\ prov = [t \in Tasks |-> None]
  /\ inst = [t \in Tasks |-> None]
  /\ answer = None

-----------------------------------------------------------------------------
(***************************************************************************)
(* Steps of a task.                                                        *)
(***************************************************************************)

\* Under the exclusive discipline a registration or a removal runs alone.
MayMutate == Exclusive => \A u \in Tasks : pc[u] = "idle"
MayRead   == Exclusive => \A u \in Tasks : pc[u] \notin MutatorPC

\* `remove` still holds the singletons lock while it waits for its scoped lock.
SharedFree(t) == \A u \in Tasks \ {t} : pc[u] # "rem_scoped"
SlotFree(s, t) == s = Shared => SharedFree(t)

Begin(t, o, h, next) ==
  /\ pc[t] = "idle"
  /\ pc' = [pc EXCEPT ![t] = next]
  /\ op' = [op EXCEPT ![t] = o]
  /\ handle' = [handle EXCEPT ![t] = h]
  /\ answer' = None

Goto(t, next) ==
  /\ pc' = [pc EXCEPT ![t] = next]
  /\ answer' = None
  /\ UNCHANGED <<op, handle>>

\* The call ends and its locals are gone.
Leave(t) ==
  /\ pc' = [pc EXCEPT ![t] = "idle"]
  /\ op' = [op EXCEPT ![t] = None]
  /\ handle' = [handle EXCEPT ![t] = None]
  /\ ver' = [ver EXCEPT ![t] = 0]
  /\ prov' = [prov EXCEPT ![t] = None]
  /\ inst' = [inst EXCEPT ![t] = None]

Return(t, k, i) ==
  /\ Leave(t)
  /\ answer' = [op |-> op[t], kind |-> k, inst |-> i]

Finish(t) ==
  /\ Leave(t)
  /\ answer' = None

-----------------------------------------------------------------------------
(***************************************************************************)
(* register, register_factory and register_injectable; register_value;     *)
(* import_singleton_value: bump the version, insert the provider, then     *)
(* clear or fill the caches.                                               *)
(***************************************************************************)

BumpVersion(t, o, h, next) ==
  /\ MayMutate
  /\ version < MaxVersion
  /\ Begin(t, o, h, next)
  /\ version' = version + 1
  /\ ver' = [ver EXCEPT ![t] = version + 1]

\* Which provider the caller brings is fixed by the call.
BeginRegister(t, h) ==
  /\ BumpVersion(t, "register", h, "insert")
  /\ \E s \in Lifetime :
       prov' = [prov EXCEPT ![t] = [reg |-> version + 1, scope |-> s, value |-> FALSE]]
  /\ UNCHANGED <<provider, cache, builds, inst>>

\* Slip: the value is cached, its provider is not registered.
BeginValue_NoProvider(t, h) ==
  /\ \E o \in {"register_value", "import"} : BumpVersion(t, o, h, "put_value")
  /\ prov' = [prov EXCEPT ![t] = [reg |-> version + 1, scope |-> "singleton", value |-> TRUE]]
  /\ UNCHANGED <<provider, cache, builds, inst>>

BeginValue(t, h) ==
  /\ \E o \in {"register_value", "import"} : BumpVersion(t, o, h, "insert")
  /\ prov' = [prov EXCEPT ![t] = [reg |-> version + 1, scope |-> "singleton", value |-> TRUE]]
  /\ UNCHANGED <<provider, cache, builds, inst>>

InsertProvider(t) ==
  /\ pc[t] = "insert"
  /\ provider' = prov[t]
  /\ Goto(t, IF op[t] = "register" THEN "clear_shared" ELSE "put_value")
  /\ UNCHANGED <<version, cache, builds, ver, prov, inst>>

ClearShared(t) ==
  /\ pc[t] = "clear_shared"
  /\ SharedFree(t)
  /\ cache' = [cache EXCEPT ![Shared] = None]
  /\ Goto(t, "clear_scoped")
  /\ UNCHANGED <<version, provider, builds, ver, prov, inst>>

\* Only the handle the call was made on loses its scoped entry.
ClearScoped(t) ==
  /\ pc[t] \in {"clear_scoped", "clear_after_put"}
  /\ cache' = [cache EXCEPT ![handle[t]] = None]
  /\ Finish(t)
  /\ UNCHANGED <<version, provider, builds>>

PutValue(t) ==
  /\ pc[t] = "put_value"
  /\ SharedFree(t)
  /\ cache' = [cache EXCEPT ![Shared] =
                 [version |-> ver[t], inst |-> [reg |-> prov[t].reg, n |-> 0]]]
  /\ IF op[t] = "import"
       THEN /\ Goto(t, "clear_after_put")
            /\ UNCHANGED <<ver, prov, inst>>
       ELSE Finish(t)
  /\ UNCHANGED <<version, provider, builds>>

(***************************************************************************)
(* remove: the provider goes first; a call that finds none returns false   *)
(* and changes nothing.                                                    *)
(***************************************************************************)
RemoveProvider(t, h) ==
  /\ MayMutate
  /\ provider # None
  /\ version < MaxVersion
  /\ Begin(t, "remove", h, "rem_bump")
  /\ provider' = None
  /\ UNCHANGED <<version, cache, builds, ver, prov, inst>>

RemoveBump(t) ==
  /\ pc[t] = "rem_bump"
  /\ version' = version + 1
  /\ Goto(t, "rem_shared")
  /\ UNCHANGED <<provider, cache, builds, ver, prov, inst>>

RemoveShared(t) ==
  /\ pc[t] = "rem_shared"
  /\ SharedFree(t)
  /\ cache' = [cache EXCEPT ![Shared] = None]
  /\ Goto(t, "rem_scoped")
  /\ UNCHANGED <<version, provider, builds, ver, prov, inst>>

RemoveScoped(t) ==
  /\ pc[t] = "rem_scoped"
  /\ cache' = [cache EXCEPT ![handle[t]] = None]
  /\ Finish(t)
  /\ UNCHANGED <<version, provider, builds>>

-----------------------------------------------------------------------------
(***************************************************************************)
(* resolve, resolve_optional, the body of initialize for one provider, and *)
(* export_singleton_value.                                                 *)
(***************************************************************************)

\* resolve and export_singleton_value read the version first.
BeginResolve(t, h) ==
  /\ MayRead
  /\ \E o \in {"resolve", "export"} : Begin(t, o, h, "provider")
  /\ ver' = [ver EXCEPT ![t] = version]
  /\ UNCHANGED <<store, builds, prov, inst>>

\* resolve_optional asks `has` first and then resolves; without a provider it
\* returns Ok(None) and nothing changes.
BeginOptional(t, h) ==
  /\ MayRead
  /\ provider # None
  /\ Begin(t, "optional", h, "version")
  /\ UNCHANGED <<store, builds, ver, prov, inst>>

\* initialize reads the provider first and skips everything but singletons.
BeginInitialize(t, h) ==
  /\ MayRead
  /\ provider # None
  /\ provider.scope = "singleton"
  /\ Begin(t, "initialize", h, "version")
  /\ prov' = [prov EXCEPT ![t] = provider]
  /\ UNCHANGED <<store, builds, ver, inst>>

ReadVersion(t) ==
  /\ pc[t] = "version"
  /\ ver' = [ver EXCEPT ![t] = version]
  /\ Goto(t, IF op[t] = "initialize" THEN "cached" ELSE "provider")
  /\ UNCHANGED <<store, builds, prov, inst>>

\* export_singleton_value is interested in singletons only.
Usable(t) == provider # None /\ (op[t] = "export" => provider.scope = "singleton")

ProviderMissing(t) ==
  /\ pc[t] = "provider"
  /\ ~ Usable(t)
  /\ Return(t, IF op[t] = "export" THEN "absent" ELSE "missing", None)
  /\ UNCHANGED <<store, builds>>

ReadProvider(t) ==
  /\ pc[t] = "provider"
  /\ Usable(t)
  /\ prov' = [prov EXCEPT ![t] = provider]
  /\ Goto(t, IF provider.scope = "transient" THEN "build" ELSE "cached")
  /\ UNCHANGED <<store, builds, ver, inst>>

Slot(t) == IF prov[t].scope = "singleton" THEN Shared ELSE handle[t]

\* Slip: the version of an entry is not looked at.
Hit_AnyVersion(e, t) == e # None

Hit(e, t) == e # None /\ e.version = ver[t]

CacheHit(t) ==
  /\ pc[t] = "cached"
  /\ SlotFree(Slot(t), t)
  /\ LET e == cache[Slot(t)] IN
       /\ Hit(e, t)
       /\ Return(t, "ok", e.inst)
  /\ UNCHANGED <<store, builds>>

\* Only resolve goes back to drop an entry of another version, in a second
\* critical section; export gives up, initialize builds.
CacheMiss(t) ==
  /\ pc[t] = "cached"
  /\ SlotFree(Slot(t), t)
  /\ LET e == cache[Slot(t)] IN
       /\ ~ Hit(e, t)
       /\ IF op[t] = "export"
            THEN Return(t, "absent", None)
            ELSE /\ Goto(t, IF e # None /\ op[t] # "initialize" THEN "evict" ELSE "build")
                 /\ UNCHANGED <<ver, prov, inst>>
  /\ UNCHANGED <<store, builds>>

\* The entry that was found stale is not looked at again.
Evict(t) ==
  /\ pc[t] = "evict"
  /\ SlotFree(Slot(t), t)
  /\ cache' = [cache EXCEPT ![Slot(t)] = None]
  /\ Goto(t, "build")
  /\ UNCHANGED <<version, provider, builds, ver, prov, inst>>

\* build_provider_with_lifecycle: the factory runs.
AfterBuild(t, i) ==
  IF prov[t].scope = "transient"
    THEN Return(t, "ok", i)
    ELSE /\ inst' = [inst EXCEPT ![t] = i]
         /\ Goto(t, "recheck")
         /\ UNCHANGED <<ver, prov>>

Build(t) ==
  /\ pc[t] = "build"
  /\ IF prov[t].value
       THEN /\ AfterBuild(t, [reg |-> prov[t].reg, n |-> 0])
            /\ UNCHANGED builds
       ELSE /\ builds < MaxBuilds
            /\ builds' = builds + 1
            /\ AfterBuild(t, [reg |-> prov[t].reg, n |-> builds + 1])
  /\ UNCHANGED store

BuildFails(t) ==
  /\ pc[t] = "build"
  /\ ~ prov[t].value
  /\ Return(t, "failed", None)
  /\ UNCHANGED <<store, builds>>

\* Slip: the instance is cached whether or not the version has moved.
Recheck_AlwaysStore(t) ==
  /\ pc[t] = "recheck"
  /\ Goto(t, "store")
  /\ UNCHANGED <<store, builds, ver, prov, inst>>

\* The version is read again: the instance is cached only if it has not moved.
Recheck(t) ==
  /\ pc[t] = "recheck"
  /\ IF version = ver[t]
       THEN /\ Goto(t, "store")
            /\ UNCHANGED <<ver, prov, inst>>
       ELSE Return(t, "ok", inst[t])
  /\ UNCHANGED <<store, builds>>

Store(t) ==
  /\ pc[t] = "store"
  /\ SlotFree(Slot(t), t)
  /\ cache' = [cache EXCEPT ![Slot(t)] = [version |-> ver[t], inst |-> inst[t]]]
  /\ Return(t, "ok", inst[t])
  /\ UNCHANGED <<version, provider, builds>>

\* A dropped future: the server's request timeout, a select!, an aborted task.
\* What the call has done stays done, what it holds is released.
Cancel(t) ==
  /\ pc[t] # "idle"
  /\ Finish(t)
  /\ UNCHANGED <<store, builds>>

-----------------------------------------------------------------------------
MutatorBegin(t, h) == BeginRegister(t, h) \/ BeginValue(t, h) \/ RemoveProvider(t, h)

ReaderBegin(t, h) == BeginResolve(t, h) \/ BeginOptional(t, h) \/ BeginInitialize(t, h)

MutatorStep(t) ==
  \/ InsertProvider(t)
  \/ ClearShared(t)
  \/ ClearScoped(t)
  \/ PutValue(t)
  \/ RemoveBump(t)
  \/ RemoveShared(t)
  \/ RemoveScoped(t)

ReaderStep(t) ==
  \/ ReadVersion(t)
  \/ ProviderMissing(t)
  \/ ReadProvider(t)
  \/ CacheHit(t)
  \/ CacheMiss(t)
  \/ Evict(t)
  \/ Build(t)
  \/ BuildFails(t)
  \/ Recheck(t)
  \/ Store(t)

TaskStep(t) ==
  \/ \E h \in Scopes : MutatorBegin(t, h) \/ ReaderBegin(t, h)
  \/ MutatorStep(t)
  \/ ReaderStep(t)
  \/ Cancel(t)

Next == \E t \in Tasks : TaskStep(t)

Spec == Init /\ [][Next]_vars
-----------------------------------------------------------------------------
(***************************************************************************)
(* Properties.                                                             *)
(***************************************************************************)

\* Under any interleaving, a cached instance never comes from a provider newer
\* than the version it is filed under, and no entry is filed under a version
\* that has not been reached: what the second current_version check of resolve
\* and initialize (lines 556 and 753) is for.
NoEntryFromTheFuture ==
  \A s \in Slots : cache[s] # None =>
    /\ cache[s].inst.reg <= cache[s].version
    /\ cache[s].version <= version

\* When registrations and removals run alone, every entry that resolve would
\* serve, in the singleton cache and in the cache of every scope, was built by
\* the provider that is registered now, even in the middle of a registration
\* or after one was cancelled half way (register_provider_by_id, remove).
Coherent ==
  \A s \in Slots :
    cache[s] # None /\ cache[s].version = version /\ provider # None =>
      cache[s].inst.reg = provider.reg

\* What the comment in resolve promises ("so removed providers cannot be
\* resurrected from a stale cache"): a call that is served from a cache, with no
\* other call in progress, gets an instance of the provider registered now.
ServedAlone(t) == CacheHit(t) /\ \A u \in Tasks \ {t} : pc[u] = "idle"

NoResurrection ==
  [][\A t \in Tasks :
       ServedAlone(t) => provider # None /\ cache[Slot(t)].inst.reg = provider.reg]_vars

\* When registrations and removals run alone, the container is an atomic cell
\* that holds the current provider and answers every call truthfully.
Cell == INSTANCE ProviderCell WITH cur <- provider
CellSpec == Cell!Spec
=============================================================================
