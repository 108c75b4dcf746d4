--------------------------- MODULE ContainerProofs ---------------------------
(***************************************************************************)
(* Proofs about Container, for every set of tasks and handles and every    *)
(* bound: type correctness and NoEntryFromTheFuture for all interleavings, *)
(* Coherent and the refinement of ProviderCell for the exclusive           *)
(* discipline, and the identity of the Arcs that ContainerArcs remembers.  *)
(***************************************************************************)
EXTENDS ContainerArcs, FiniteSetTheorems, TLAPS

\* Where a task stands determines which of its locals are set.
HasProvider == {"insert", "put_value", "cached", "evict", "build", "recheck", "store"}

Shape(t) ==
  /\ pc[t] # "idle" => op[t] \in Op /\ handle[t] \in Scopes
  /\ pc[t] \in HasProvider \/ (pc[t] = "version" /\ op[t] = "initialize") => prov[t] \in Provider
  /\ pc[t] \in {"recheck", "store"} => inst[t] \in Instance

TypeInv == TypeOK /\ \A t \in Tasks : Shape(t)

\* A task's locals never run ahead of the version.
Behind(t) ==
  /\ ver[t] <= version
  /\ pc[t] \in HasProvider \/ (pc[t] = "version" /\ op[t] = "initialize") =>
       prov[t].reg <= version
  /\ pc[t] \in {"insert", "put_value"} => prov[t].reg <= ver[t]
  /\ pc[t] = "recheck" => inst[t].reg <= version
  /\ pc[t] = "store" => inst[t].reg <= ver[t]

VersionInv ==
  /\ NoEntryFromTheFuture
  /\ provider # None => provider.reg <= version
  /\ \A t \in Tasks : Behind(t)

\* Under the exclusive discipline a task that reads has read the present, and
\* a registration under way has already made every cached entry stale.
Entries ==
  \A s \in Slots : cache[s] # None =>
    /\ cache[s].version <= version
    /\ cache[s].version = version /\ provider # None => cache[s].inst.reg = provider.reg

Alone == \A t, u \in Tasks : pc[t] \in MutatorPC /\ u # t => pc[u] = "idle"

Current(t) ==
  /\ pc[t] \in ReaderPC => op[t] \in {"resolve", "optional", "initialize", "export"}
  /\ pc[t] \in ReaderPC \ {"version"} => ver[t] = version
  /\ pc[t] \in ReaderPC /\ (pc[t] \in HasProvider \/ op[t] = "initialize") =>
       provider # None /\ prov[t] = provider
  /\ pc[t] \in ReaderPC /\ op[t] = "initialize" =>
       pc[t] # "provider" /\ prov[t].scope = "singleton"
  /\ pc[t] \in ReaderPC /\ op[t] = "export" =>
       pc[t] \in {"provider", "cached"} /\ (pc[t] = "cached" => prov[t].scope = "singleton")
  /\ pc[t] \in ReaderPC /\ op[t] = "optional" => provider # None
  /\ pc[t] \in {"recheck", "store"} => inst[t].reg = provider.reg
  /\ pc[t] = "insert" =>
       /\ ver[t] = version /\ prov[t].reg = version
       /\ \A s \in Slots : cache[s] # None => cache[s].version < version
  /\ pc[t] = "put_value" => ver[t] = version /\ prov[t].reg = version /\ provider = prov[t]

CoherenceInv == Entries /\ Alone /\ \A t \in Tasks : Current(t)
-----------------------------------------------------------------------------
\* A call that returns leaves its task idle and answers with what it was given.
LEMMA ReturnType ==
  ASSUME TypeInv, NEW t \in Tasks, pc[t] # "idle", NEW k \in Kind,
         NEW i \in Instance \cup {None}, Return(t, k, i), UNCHANGED store, builds' \in Nat
  PROVE  TypeInv'
<1>1. TypeOK'
  BY DEF TypeInv, TypeOK, Shape, Return, Leave, store, PC
<1>2. ASSUME NEW u \in Tasks PROVE Shape(u)'
  BY DEF TypeInv, TypeOK, Shape, Return, Leave, HasProvider
<1>. QED  BY <1>1, <1>2 DEF TypeInv

\* Every variable keeps its type, and a task that needs a provider or an
\* instance has read one: no step of the container uses a local it has not set.
THEOREM TypeCorrect == Spec => []TypeInv
<1>1. Init => TypeInv
  BY ContainerAssumption DEF Init, TypeInv, TypeOK, Shape, HasProvider, PC
<1>2. TypeInv /\ [Next]_vars => TypeInv'
  <2> SUFFICES ASSUME TypeInv, [Next]_vars PROVE TypeInv'
    OBVIOUS
  <2> USE ContainerAssumption
        DEF TypeInv, TypeOK, Shape, HasProvider, PC, MutatorPC, ReaderPC, Op, Kind, Slots,
            Provider, Instance, Entry, Lifetime
  <2>1. ASSUME NEW t \in Tasks, NEW h \in Scopes, BeginRegister(t, h) PROVE TypeInv'
    BY <2>1 DEF BeginRegister, BumpVersion, Begin
  <2>2. ASSUME NEW t \in Tasks, NEW h \in Scopes, BeginValue(t, h) PROVE TypeInv'
    BY <2>2 DEF BeginValue, BumpVersion, Begin
  <2>3. ASSUME NEW t \in Tasks, NEW h \in Scopes, RemoveProvider(t, h) PROVE TypeInv'
    BY <2>3 DEF RemoveProvider, Begin
  <2>4. ASSUME NEW t \in Tasks, NEW h \in Scopes, BeginResolve(t, h) PROVE TypeInv'
    BY <2>4 DEF BeginResolve, Begin, store
  <2>5. ASSUME NEW t \in Tasks, NEW h \in Scopes, BeginOptional(t, h) PROVE TypeInv'
    BY <2>5 DEF BeginOptional, Begin, store
  <2>6. ASSUME NEW t \in Tasks, NEW h \in Scopes, BeginInitialize(t, h) PROVE TypeInv'
    BY <2>6 DEF BeginInitialize, Begin, store
  <2>7. ASSUME NEW t \in Tasks, InsertProvider(t) PROVE TypeInv'
    BY <2>7 DEF InsertProvider, Goto
  <2>8. ASSUME NEW t \in Tasks, ClearShared(t) PROVE TypeInv'
    BY <2>8 DEF ClearShared, Goto
  <2>9. ASSUME NEW t \in Tasks, ClearScoped(t) PROVE TypeInv'
    BY <2>9 DEF ClearScoped, Finish, Leave
  <2>10. ASSUME NEW t \in Tasks, PutValue(t) PROVE TypeInv'
    <3>1. cache' \in [Slots -> Entry \cup {None}]
      <4>1. [version |-> ver[t], inst |-> [reg |-> prov[t].reg, n |-> 0]] \in Entry
        BY <2>10 DEF PutValue
      <4>. QED  BY <2>10, <4>1 DEF PutValue
    <3>2. UNCHANGED <<version, provider, builds>>
      BY <2>10 DEF PutValue
    <3>3. CASE op[t] = "import"
      <4>1. Goto(t, "clear_after_put") /\ UNCHANGED <<ver, prov, inst>>
        BY <2>10, <3>3 DEF PutValue
      <4>2. pc[t] = "put_value"
        BY <2>10 DEF PutValue
      <4>. QED  BY <3>1, <3>2, <4>1, <4>2 DEF Goto
    <3>4. CASE op[t] # "import"
      <4>1. Finish(t)
        BY <2>10, <3>4 DEF PutValue
      <4>. QED  BY <3>1, <3>2, <4>1 DEF Finish, Leave
    <3>. QED  BY <3>3, <3>4
  <2>11. ASSUME NEW t \in Tasks, RemoveBump(t) PROVE TypeInv'
    BY <2>11 DEF RemoveBump, Goto
  <2>12. ASSUME NEW t \in Tasks, RemoveShared(t) PROVE TypeInv'
    BY <2>12 DEF RemoveShared, Goto
  <2>13. ASSUME NEW t \in Tasks, RemoveScoped(t) PROVE TypeInv'
    BY <2>13 DEF RemoveScoped, Finish, Leave
  <2>14. ASSUME NEW t \in Tasks, ReadVersion(t) PROVE TypeInv'
    BY <2>14 DEF ReadVersion, Goto, store
  <2>15. ASSUME NEW t \in Tasks, ProviderMissing(t) PROVE TypeInv'
    BY <2>15 DEF ProviderMissing, Return, Leave, store
  <2>16. ASSUME NEW t \in Tasks, ReadProvider(t) PROVE TypeInv'
    BY <2>16 DEF ReadProvider, Usable, Goto, store
  <2>17. ASSUME NEW t \in Tasks, CacheHit(t) PROVE TypeInv'
    BY <2>17 DEF CacheHit, Hit, Slot, Return, Leave, store
  <2>18. ASSUME NEW t \in Tasks, CacheMiss(t) PROVE TypeInv'
    <3>1. CASE op[t] = "export"
      BY <2>18, <3>1 DEF CacheMiss, Return, Leave, store
    <3>2. CASE op[t] # "export"
      BY <2>18, <3>2 DEF CacheMiss, Goto, store
    <3>. QED  BY <3>1, <3>2
  <2>19. ASSUME NEW t \in Tasks, Evict(t) PROVE TypeInv'
    BY <2>19 DEF Evict, Slot, Goto
  <2>20. ASSUME NEW t \in Tasks, Build(t) PROVE TypeInv'
    <3> DEFINE n == IF prov[t].value THEN 0 ELSE builds + 1
               i == [reg |-> prov[t].reg, n |-> n]
    <3>1. prov[t] \in Provider /\ i \in Instance /\ builds' \in Nat /\ UNCHANGED store
      BY <2>20 DEF Build, store
    <3>2. AfterBuild(t, i)
      BY <2>20 DEF Build
    <3> HIDE DEF i
    <3>3. CASE prov[t].scope = "transient"
      BY <2>20, <3>1, <3>2, <3>3, ReturnType DEF Build, AfterBuild
    <3>4. CASE prov[t].scope # "transient"
      BY <2>20, <3>1, <3>2, <3>4 DEF Build, AfterBuild, Goto, store
    <3>. QED  BY <3>3, <3>4
  <2>21. ASSUME NEW t \in Tasks, BuildFails(t) PROVE TypeInv'
    BY <2>21 DEF BuildFails, Return, Leave, store
  <2>22. ASSUME NEW t \in Tasks, Recheck(t) PROVE TypeInv'
    <3>1. CASE version = ver[t]
      BY <2>22, <3>1 DEF Recheck, Goto, store
    <3>2. CASE version # ver[t]
      BY <2>22, <3>2, ReturnType DEF Recheck
    <3>. QED  BY <3>1, <3>2
  <2>23. ASSUME NEW t \in Tasks, Store(t) PROVE TypeInv'
    BY <2>23 DEF Store, Slot, Return, Leave
  <2>24. ASSUME NEW t \in Tasks, Cancel(t) PROVE TypeInv'
    BY <2>24 DEF Cancel, Finish, Leave, store
  <2>25. CASE UNCHANGED vars
    BY <2>25 DEF vars
  <2>. QED
    BY <2>1, <2>2, <2>3, <2>4, <2>5, <2>6, <2>7, <2>8, <2>9, <2>10, <2>11, <2>12, <2>13,
       <2>14, <2>15, <2>16, <2>17, <2>18, <2>19, <2>20, <2>21, <2>22, <2>23, <2>24, <2>25
       DEF Next, TaskStep, MutatorBegin, ReaderBegin, MutatorStep, ReaderStep
<1>. QED  BY <1>1, <1>2, PTL DEF Spec

-----------------------------------------------------------------------------
\* The tasks a step does not touch stay behind, since versions only grow.
LEMMA OthersBehind ==
  ASSUME TypeInv, VersionInv, version' \in Nat, version <= version', NEW t \in Tasks,
         \A u \in Tasks \ {t} :
           /\ pc'[u] = pc[u] /\ op'[u] = op[u] /\ ver'[u] = ver[u]
           /\ prov'[u] = prov[u] /\ inst'[u] = inst[u],
         Behind(t)'
  PROVE  \A u \in Tasks : Behind(u)'
<1> SUFFICES ASSUME NEW u \in Tasks, u # t PROVE Behind(u)'
  OBVIOUS
<1>1. Behind(u) /\ Shape(u) /\ ver[u] \in Nat /\ version \in Nat
  BY DEF VersionInv, TypeInv, TypeOK
<1>. QED  BY <1>1 DEF Behind, Shape, HasProvider, Provider, Instance

\* A cache that only loses entries, while versions grow, keeps none from the future.
LEMMA CacheShrinks ==
  ASSUME TypeInv, VersionInv, version' \in Nat, version <= version',
         \A s \in Slots : cache'[s] \in {cache[s], None}
  PROVE  NoEntryFromTheFuture'
<1> SUFFICES ASSUME NEW s \in Slots, cache'[s] # None
             PROVE  /\ cache'[s].inst.reg <= cache'[s].version
                    /\ cache'[s].version <= version'
  BY DEF NoEntryFromTheFuture
<1>1. cache'[s] = cache[s] /\ cache[s] \in Entry /\ version \in Nat
  BY DEF TypeInv, TypeOK
<1>. QED  BY <1>1 DEF VersionInv, NoEntryFromTheFuture, Entry, Instance

\* Filing an instance under a version its provider had reached is safe.
LEMMA CacheFills ==
  ASSUME TypeInv, VersionInv, version' = version, NEW s \in Slots, NEW v \in Nat,
         NEW i \in Instance, i.reg <= v, v <= version,
         cache' = [cache EXCEPT ![s] = [version |-> v, inst |-> i]]
  PROVE  NoEntryFromTheFuture'
<1> SUFFICES ASSUME NEW u \in Slots, cache'[u] # None
             PROVE  /\ cache'[u].inst.reg <= cache'[u].version
                    /\ cache'[u].version <= version'
  BY DEF NoEntryFromTheFuture
<1>1. CASE u = s
  BY <1>1 DEF TypeInv, TypeOK
<1>2. CASE u # s
  BY <1>2 DEF TypeInv, TypeOK, VersionInv, NoEntryFromTheFuture
<1>. QED  BY <1>1, <1>2

\* A task that has left has no locals that could run ahead.
LEMMA LeaverBehind ==
  ASSUME TypeInv, VersionInv, NEW t \in Tasks, Leave(t), version' = version
  PROVE  \A u \in Tasks : Behind(u)'
<1>1. Behind(t)'
  BY DEF TypeInv, TypeOK, Leave, Behind, HasProvider
<1>. QED  BY <1>1, OthersBehind DEF TypeInv, TypeOK, Leave

\* Whatever the interleaving and whichever calls are cancelled, no instance is
\* cached under a version older than its provider's registration: the second
\* current_version check of resolve and initialize is enough for that.
THEOREM FutureSafe == Spec => []NoEntryFromTheFuture
<1>1. Init => VersionInv
  BY DEF Init, VersionInv, NoEntryFromTheFuture, Behind, HasProvider
<1>2. TypeInv /\ VersionInv /\ [Next]_vars => VersionInv'
  <2> SUFFICES ASSUME TypeInv, VersionInv, [Next]_vars PROVE VersionInv'
    OBVIOUS
  <2>0. version \in Nat /\ \A t \in Tasks : Behind(t) /\ Shape(t) /\ ver[t] \in Nat
    BY DEF TypeInv, TypeOK, VersionInv
  <2>1. ASSUME NEW t \in Tasks, NEW h \in Scopes, BeginRegister(t, h) PROVE VersionInv'
    <3>1. version' \in Nat /\ version <= version' /\ \A s \in Slots : cache'[s] \in {cache[s], None}
      BY <2>0, <2>1 DEF BeginRegister, BumpVersion, Begin, TypeInv, TypeOK
    <3>2. Behind(t)'
      BY <2>0, <2>1 DEF BeginRegister, BumpVersion, Begin, TypeInv, TypeOK, VersionInv, Behind, Shape, HasProvider, Provider
    <3>3. \A u \in Tasks : Behind(u)'
      BY <2>1, <3>1, <3>2, OthersBehind DEF BeginRegister, BumpVersion, Begin, TypeInv, TypeOK
    <3>4. provider' # None => provider'.reg <= version'
      BY <2>0, <2>1 DEF BeginRegister, BumpVersion, Begin, TypeInv, TypeOK, VersionInv, Behind, Shape, HasProvider, Provider
    <3>. QED  BY <3>1, <3>3, <3>4, CacheShrinks DEF VersionInv
  <2>2. ASSUME NEW t \in Tasks, NEW h \in Scopes, BeginValue(t, h) PROVE VersionInv'
    <3>1. version' \in Nat /\ version <= version' /\ \A s \in Slots : cache'[s] \in {cache[s], None}
      BY <2>0, <2>2 DEF BeginValue, BumpVersion, Begin, TypeInv, TypeOK
    <3>2. Behind(t)'
      BY <2>0, <2>2 DEF BeginValue, BumpVersion, Begin, TypeInv, TypeOK, VersionInv, Behind, Shape, HasProvider, Provider
    <3>3. \A u \in Tasks : Behind(u)'
      BY <2>2, <3>1, <3>2, OthersBehind DEF BeginValue, BumpVersion, Begin, TypeInv, TypeOK
    <3>4. provider' # None => provider'.reg <= version'
      BY <2>0, <2>2 DEF BeginValue, BumpVersion, Begin, TypeInv, TypeOK, VersionInv, Behind, Shape, HasProvider, Provider
    <3>. QED  BY <3>1, <3>3, <3>4, CacheShrinks DEF VersionInv
  <2>3. ASSUME NEW t \in Tasks, NEW h \in Scopes, RemoveProvider(t, h) PROVE VersionInv'
    <3>1. version' \in Nat /\ version <= version' /\ \A s \in Slots : cache'[s] \in {cache[s], None}
      BY <2>0, <2>3 DEF RemoveProvider, Begin, TypeInv, TypeOK
    <3>2. Behind(t)'
      BY <2>0, <2>3 DEF RemoveProvider, Begin, TypeInv, TypeOK, VersionInv, Behind, Shape, HasProvider, Provider
    <3>3. \A u \in Tasks : Behind(u)'
      BY <2>3, <3>1, <3>2, OthersBehind DEF RemoveProvider, Begin, TypeInv, TypeOK
    <3>4. provider' # None => provider'.reg <= version'
      BY <2>0, <2>3 DEF RemoveProvider, Begin, TypeInv, TypeOK, VersionInv, Behind, Shape, HasProvider, Provider
    <3>. QED  BY <3>1, <3>3, <3>4, CacheShrinks DEF VersionInv
  <2>4. ASSUME NEW t \in Tasks, NEW h \in Scopes, BeginResolve(t, h) PROVE VersionInv'
    <3>1. version' \in Nat /\ version <= version' /\ \A s \in Slots : cache'[s] \in {cache[s], None}
      BY <2>0, <2>4 DEF BeginResolve, Begin, store, TypeInv, TypeOK
    <3>2. Behind(t)'
      BY <2>0, <2>4 DEF BeginResolve, Begin, store, TypeInv, TypeOK, VersionInv, Behind, Shape, HasProvider, Provider
    <3>3. \A u \in Tasks : Behind(u)'
      BY <2>4, <3>1, <3>2, OthersBehind DEF BeginResolve, Begin, store, TypeInv, TypeOK
    <3>4. provider' # None => provider'.reg <= version'
      BY <2>0, <2>4 DEF BeginResolve, Begin, store, TypeInv, TypeOK, VersionInv, Behind, Shape, HasProvider, Provider
    <3>. QED  BY <3>1, <3>3, <3>4, CacheShrinks DEF VersionInv
  <2>5. ASSUME NEW t \in Tasks, NEW h \in Scopes, BeginOptional(t, h) PROVE VersionInv'
    <3>1. version' \in Nat /\ version <= version' /\ \A s \in Slots : cache'[s] \in {cache[s], None}
      BY <2>0, <2>5 DEF BeginOptional, Begin, store, TypeInv, TypeOK
    <3>2. Behind(t)'
      BY <2>0, <2>5 DEF BeginOptional, Begin, store, TypeInv, TypeOK, VersionInv, Behind, Shape, HasProvider, Provider
    <3>3. \A u \in Tasks : Behind(u)'
      BY <2>5, <3>1, <3>2, OthersBehind DEF BeginOptional, Begin, store, TypeInv, TypeOK
    <3>4. provider' # None => provider'.reg <= version'
      BY <2>0, <2>5 DEF BeginOptional, Begin, store, TypeInv, TypeOK, VersionInv, Behind, Shape, HasProvider, Provider
    <3>. QED  BY <3>1, <3>3, <3>4, CacheShrinks DEF VersionInv
  <2>6. ASSUME NEW t \in Tasks, NEW h \in Scopes, BeginInitialize(t, h) PROVE VersionInv'
    <3>1. version' \in Nat /\ version <= version' /\ \A s \in Slots : cache'[s] \in {cache[s], None}
      BY <2>0, <2>6 DEF BeginInitialize, Begin, store, TypeInv, TypeOK
    <3>2. Behind(t)'
      BY <2>0, <2>6 DEF BeginInitialize, Begin, store, TypeInv, TypeOK, VersionInv, Behind, Shape, HasProvider, Provider
    <3>3. \A u \in Tasks : Behind(u)'
      BY <2>6, <3>1, <3>2, OthersBehind DEF BeginInitialize, Begin, store, TypeInv, TypeOK
    <3>4. provider' # None => provider'.reg <= version'
      BY <2>0, <2>6 DEF BeginInitialize, Begin, store, TypeInv, TypeOK, VersionInv, Behind, Shape, HasProvider, Provider
    <3>. QED  BY <3>1, <3>3, <3>4, CacheShrinks DEF VersionInv
  <2>7. ASSUME NEW t \in Tasks, InsertProvider(t) PROVE VersionInv'
    <3>1. version' \in Nat /\ version <= version' /\ \A s \in Slots : cache'[s] \in {cache[s], None}
      BY <2>0, <2>7 DEF InsertProvider, Goto, TypeInv, TypeOK
    <3>2. Behind(t)'
      BY <2>0, <2>7 DEF InsertProvider, Goto, TypeInv, TypeOK, VersionInv, Behind, Shape, HasProvider, Provider
    <3>3. \A u \in Tasks : Behind(u)'
      BY <2>7, <3>1, <3>2, OthersBehind DEF InsertProvider, Goto, TypeInv, TypeOK
    <3>4. provider' # None => provider'.reg <= version'
      BY <2>0, <2>7 DEF InsertProvider, Goto, TypeInv, TypeOK, VersionInv, Behind, Shape, HasProvider, Provider
    <3>. QED  BY <3>1, <3>3, <3>4, CacheShrinks DEF VersionInv
  <2>8. ASSUME NEW t \in Tasks, ClearShared(t) PROVE VersionInv'
    <3>1. version' \in Nat /\ version <= version' /\ \A s \in Slots : cache'[s] \in {cache[s], None}
      BY <2>0, <2>8 DEF ClearShared, Goto, TypeInv, TypeOK
    <3>2. Behind(t)'
      BY <2>0, <2>8 DEF ClearShared, Goto, TypeInv, TypeOK, VersionInv, Behind, Shape, HasProvider, Provider
    <3>3. \A u \in Tasks : Behind(u)'
      BY <2>8, <3>1, <3>2, OthersBehind DEF ClearShared, Goto, TypeInv, TypeOK
    <3>4. provider' # None => provider'.reg <= version'
      BY <2>0, <2>8 DEF ClearShared, Goto, TypeInv, TypeOK, VersionInv, Behind, Shape, HasProvider, Provider
    <3>. QED  BY <3>1, <3>3, <3>4, CacheShrinks DEF VersionInv
  <2>9. ASSUME NEW t \in Tasks, ClearScoped(t) PROVE VersionInv'
    <3>1. Leave(t) /\ version' = version /\ provider' = provider /\ \A s \in Slots : cache'[s] \in {cache[s], None}
      BY <2>9 DEF ClearScoped, Finish, TypeInv, TypeOK
    <3>2. NoEntryFromTheFuture'
      BY <2>0, <3>1, CacheShrinks
    <3>. QED  BY <3>1, <3>2, LeaverBehind DEF VersionInv
  <2>10. ASSUME NEW t \in Tasks, PutValue(t) PROVE VersionInv'
    <3>1. ver[t] \in Nat /\ prov[t] \in Provider /\ Shared \in Slots /\ prov[t].reg <= ver[t] /\ ver[t] <= version
      BY <2>0, <2>10 DEF PutValue, Shape, HasProvider, Behind, Slots
    <3>2. [reg |-> prov[t].reg, n |-> 0] \in Instance
      BY <3>1 DEF Provider, Instance
    <3>3. NoEntryFromTheFuture'
      BY <2>10, <3>1, <3>2, CacheFills DEF PutValue
    <3>4. CASE op[t] = "import"
      <4>1. Behind(t)'
        BY <2>0, <2>10, <3>4 DEF PutValue, Goto, TypeInv, TypeOK, Behind, HasProvider
      <4>2. \A u \in Tasks : Behind(u)'
        BY <2>0, <2>10, <3>4, <4>1, OthersBehind DEF PutValue, Goto, TypeInv, TypeOK
      <4>. QED  BY <2>10, <3>3, <4>2 DEF PutValue, VersionInv
    <3>5. CASE op[t] # "import"
      BY <2>10, <3>3, <3>5, LeaverBehind DEF PutValue, Finish, VersionInv
    <3>. QED  BY <3>4, <3>5
  <2>11. ASSUME NEW t \in Tasks, RemoveBump(t) PROVE VersionInv'
    <3>1. version' \in Nat /\ version <= version' /\ \A s \in Slots : cache'[s] \in {cache[s], None}
      BY <2>0, <2>11 DEF RemoveBump, Goto, TypeInv, TypeOK
    <3>2. Behind(t)'
      BY <2>0, <2>11 DEF RemoveBump, Goto, TypeInv, TypeOK, VersionInv, Behind, Shape, HasProvider, Provider
    <3>3. \A u \in Tasks : Behind(u)'
      BY <2>11, <3>1, <3>2, OthersBehind DEF RemoveBump, Goto, TypeInv, TypeOK
    <3>4. provider' # None => provider'.reg <= version'
      BY <2>0, <2>11 DEF RemoveBump, Goto, TypeInv, TypeOK, VersionInv, Behind, Shape, HasProvider, Provider
    <3>. QED  BY <3>1, <3>3, <3>4, CacheShrinks DEF VersionInv
  <2>12. ASSUME NEW t \in Tasks, RemoveShared(t) PROVE VersionInv'
    <3>1. version' \in Nat /\ version <= version' /\ \A s \in Slots : cache'[s] \in {cache[s], None}
      BY <2>0, <2>12 DEF RemoveShared, Goto, TypeInv, TypeOK
    <3>2. Behind(t)'
      BY <2>0, <2>12 DEF RemoveShared, Goto, TypeInv, TypeOK, VersionInv, Behind, Shape, HasProvider, Provider
    <3>3. \A u \in Tasks : Behind(u)'
      BY <2>12, <3>1, <3>2, OthersBehind DEF RemoveShared, Goto, TypeInv, TypeOK
    <3>4. provider' # None => provider'.reg <= version'
      BY <2>0, <2>12 DEF RemoveShared, Goto, TypeInv, TypeOK, VersionInv, Behind, Shape, HasProvider, Provider
    <3>. QED  BY <3>1, <3>3, <3>4, CacheShrinks DEF VersionInv
  <2>13. ASSUME NEW t \in Tasks, RemoveScoped(t) PROVE VersionInv'
    <3>1. Leave(t) /\ version' = version /\ provider' = provider /\ \A s \in Slots : cache'[s] \in {cache[s], None}
      BY <2>13 DEF RemoveScoped, Finish, TypeInv, TypeOK
    <3>2. NoEntryFromTheFuture'
      BY <2>0, <3>1, CacheShrinks
    <3>. QED  BY <3>1, <3>2, LeaverBehind DEF VersionInv
  <2>14. ASSUME NEW t \in Tasks, ReadVersion(t) PROVE VersionInv'
    <3>1. version' \in Nat /\ version <= version' /\ \A s \in Slots : cache'[s] \in {cache[s], None}
      BY <2>0, <2>14 DEF ReadVersion, Goto, store, TypeInv, TypeOK
    <3>2. Behind(t)'
      BY <2>0, <2>14 DEF ReadVersion, Goto, store, TypeInv, TypeOK, VersionInv, Behind, Shape, HasProvider, Provider
    <3>3. \A u \in Tasks : Behind(u)'
      BY <2>14, <3>1, <3>2, OthersBehind DEF ReadVersion, Goto, store, TypeInv, TypeOK
    <3>4. provider' # None => provider'.reg <= version'
      BY <2>0, <2>14 DEF ReadVersion, Goto, store, TypeInv, TypeOK, VersionInv, Behind, Shape, HasProvider, Provider
    <3>. QED  BY <3>1, <3>3, <3>4, CacheShrinks DEF VersionInv
  <2>15. ASSUME NEW t \in Tasks, ProviderMissing(t) PROVE VersionInv'
    <3>1. Leave(t) /\ version' = version /\ provider' = provider /\ \A s \in Slots : cache'[s] \in {cache[s], None}
      BY <2>15 DEF ProviderMissing, Return, store, TypeInv, TypeOK
    <3>2. NoEntryFromTheFuture'
      BY <2>0, <3>1, CacheShrinks
    <3>. QED  BY <3>1, <3>2, LeaverBehind DEF VersionInv
  <2>16. ASSUME NEW t \in Tasks, ReadProvider(t) PROVE VersionInv'
    <3>1. version' \in Nat /\ version <= version' /\ \A s \in Slots : cache'[s] \in {cache[s], None}
      BY <2>0, <2>16 DEF ReadProvider, Usable, Goto, store, TypeInv, TypeOK
    <3>2. Behind(t)'
      BY <2>0, <2>16 DEF ReadProvider, Usable, Goto, store, TypeInv, TypeOK, VersionInv, Behind, Shape, HasProvider, Provider
    <3>3. \A u \in Tasks : Behind(u)'
      BY <2>16, <3>1, <3>2, OthersBehind DEF ReadProvider, Usable, Goto, store, TypeInv, TypeOK
    <3>4. provider' # None => provider'.reg <= version'
      BY <2>0, <2>16 DEF ReadProvider, Usable, Goto, store, TypeInv, TypeOK, VersionInv, Behind, Shape, HasProvider, Provider
    <3>. QED  BY <3>1, <3>3, <3>4, CacheShrinks DEF VersionInv
  <2>17. ASSUME NEW t \in Tasks, CacheHit(t) PROVE VersionInv'
    <3>1. Leave(t) /\ version' = version /\ provider' = provider /\ \A s \in Slots : cache'[s] \in {cache[s], None}
      BY <2>17 DEF CacheHit, Return, store, TypeInv, TypeOK
    <3>2. NoEntryFromTheFuture'
      BY <2>0, <3>1, CacheShrinks
    <3>. QED  BY <3>1, <3>2, LeaverBehind DEF VersionInv
  <2>18. ASSUME NEW t \in Tasks, CacheMiss(t) PROVE VersionInv'
    <3>1. UNCHANGED store
      BY <2>18 DEF CacheMiss
    <3>2. NoEntryFromTheFuture'
      BY <2>0, <3>1, CacheShrinks DEF store
    <3>3. CASE op[t] = "export"
      BY <2>18, <3>1, <3>2, <3>3, LeaverBehind DEF CacheMiss, Return, store, VersionInv
    <3>4. CASE op[t] # "export"
      <4>1. Behind(t)'
        BY <2>0, <2>18, <3>1, <3>4 DEF CacheMiss, Goto, store, TypeInv, TypeOK, Behind, HasProvider
      <4>2. \A u \in Tasks : Behind(u)'
        BY <2>0, <2>18, <3>1, <3>4, <4>1, OthersBehind DEF CacheMiss, Goto, store, TypeInv, TypeOK
      <4>. QED  BY <3>1, <3>2, <4>2 DEF store, VersionInv
    <3>. QED  BY <3>3, <3>4
  <2>19. ASSUME NEW t \in Tasks, Evict(t) PROVE VersionInv'
    <3>1. version' \in Nat /\ version <= version' /\ \A s \in Slots : cache'[s] \in {cache[s], None}
      BY <2>0, <2>19 DEF Evict, Slot, Goto, TypeInv, TypeOK
    <3>2. Behind(t)'
      BY <2>0, <2>19 DEF Evict, Slot, Goto, TypeInv, TypeOK, VersionInv, Behind, Shape, HasProvider, Provider
    <3>3. \A u \in Tasks : Behind(u)'
      BY <2>19, <3>1, <3>2, OthersBehind DEF Evict, Slot, Goto, TypeInv, TypeOK
    <3>4. provider' # None => provider'.reg <= version'
      BY <2>0, <2>19 DEF Evict, Slot, Goto, TypeInv, TypeOK, VersionInv, Behind, Shape, HasProvider, Provider
    <3>. QED  BY <3>1, <3>3, <3>4, CacheShrinks DEF VersionInv
  <2>20. ASSUME NEW t \in Tasks, Build(t) PROVE VersionInv'
    <3> DEFINE n == IF prov[t].value THEN 0 ELSE builds + 1
               i == [reg |-> prov[t].reg, n |-> n]
    <3>1. UNCHANGED store /\ pc[t] = "build" /\ AfterBuild(t, i)
      BY <2>20 DEF Build
    <3>2. NoEntryFromTheFuture'
      BY <2>0, <3>1, CacheShrinks DEF store
    <3>3. prov[t] \in Provider /\ prov[t].reg <= version /\ i.reg = prov[t].reg
      BY <2>0, <3>1 DEF Shape, Behind, HasProvider
    <3> HIDE DEF i
    <3>4. CASE prov[t].scope = "transient"
      BY <3>1, <3>2, <3>4, LeaverBehind DEF AfterBuild, Return, store, VersionInv
    <3>5. CASE prov[t].scope # "transient"
      <4>1. Behind(t)'
        BY <2>0, <3>1, <3>3, <3>5 DEF AfterBuild, Goto, store, TypeInv, TypeOK, Behind, HasProvider
      <4>2. \A u \in Tasks : Behind(u)'
        BY <2>0, <3>1, <3>5, <4>1, OthersBehind DEF AfterBuild, Goto, store, TypeInv, TypeOK
      <4>. QED  BY <3>1, <3>2, <4>2 DEF store, VersionInv
    <3>. QED  BY <3>4, <3>5
  <2>21. ASSUME NEW t \in Tasks, BuildFails(t) PROVE VersionInv'
    <3>1. Leave(t) /\ version' = version /\ provider' = provider /\ \A s \in Slots : cache'[s] \in {cache[s], None}
      BY <2>21 DEF BuildFails, Return, store, TypeInv, TypeOK
    <3>2. NoEntryFromTheFuture'
      BY <2>0, <3>1, CacheShrinks
    <3>. QED  BY <3>1, <3>2, LeaverBehind DEF VersionInv
  <2>22. ASSUME NEW t \in Tasks, Recheck(t) PROVE VersionInv'
    <3>1. UNCHANGED store /\ pc[t] = "recheck"
      BY <2>22 DEF Recheck
    <3>2. NoEntryFromTheFuture'
      BY <2>0, <3>1, CacheShrinks DEF store
    <3>3. CASE version = ver[t]
      <4>1. Behind(t)'
        BY <2>0, <2>22, <3>1, <3>3 DEF Recheck, Goto, store, TypeInv, TypeOK, Behind, HasProvider
      <4>2. \A u \in Tasks : Behind(u)'
        BY <2>0, <2>22, <3>1, <3>3, <4>1, OthersBehind DEF Recheck, Goto, store, TypeInv, TypeOK
      <4>. QED  BY <3>1, <3>2, <4>2 DEF store, VersionInv
    <3>4. CASE version # ver[t]
      BY <2>22, <3>1, <3>2, <3>4, LeaverBehind DEF Recheck, Return, store, VersionInv
    <3>. QED  BY <3>3, <3>4
  <2>23. ASSUME NEW t \in Tasks, Store(t) PROVE VersionInv'
    <3>1. ver[t] \in Nat /\ inst[t] \in Instance /\ inst[t].reg <= ver[t] /\ ver[t] <= version
      BY <2>0, <2>23 DEF Store, Shape, Behind
    <3>2. Slot(t) \in Slots
      BY <2>0, <2>23 DEF Store, Slot, Slots, Shape
    <3>3. NoEntryFromTheFuture'
      BY <2>23, <3>1, <3>2, CacheFills DEF Store
    <3>. QED  BY <2>23, <3>3, LeaverBehind DEF Store, Return, VersionInv
  <2>24. ASSUME NEW t \in Tasks, Cancel(t) PROVE VersionInv'
    <3>1. Leave(t) /\ version' = version /\ provider' = provider /\ \A s \in Slots : cache'[s] \in {cache[s], None}
      BY <2>24 DEF Cancel, Finish, store, TypeInv, TypeOK
    <3>2. NoEntryFromTheFuture'
      BY <2>0, <3>1, CacheShrinks
    <3>. QED  BY <3>1, <3>2, LeaverBehind DEF VersionInv
  <2>25. CASE UNCHANGED vars
    BY <2>25 DEF vars, VersionInv, NoEntryFromTheFuture, Behind
  <2>. QED
    BY <2>1, <2>2, <2>3, <2>4, <2>5, <2>6, <2>7, <2>8, <2>9, <2>10, <2>11, <2>12, <2>13,
       <2>14, <2>15, <2>16, <2>17, <2>18, <2>19, <2>20, <2>21, <2>22, <2>23, <2>24, <2>25
       DEF Next, TaskStep, MutatorBegin, ReaderBegin, MutatorStep, ReaderStep
<1>3. VersionInv => NoEntryFromTheFuture
  BY DEF VersionInv
<1>. QED  BY <1>1, <1>2, <1>3, TypeCorrect, PTL DEF Spec

-----------------------------------------------------------------------------
\* While version and provider stay, losing entries loses no coherence.
LEMMA EntriesShrink ==
  ASSUME CoherenceInv, UNCHANGED <<version, provider>>,
         \A s \in Slots : cache'[s] \in {cache[s], None}
  PROVE  Entries'
BY DEF CoherenceInv, Entries

\* A reader's step leaves what the other readers rely on.
LEMMA ReaderMoves ==
  ASSUME TypeInv, CoherenceInv, NEW t \in Tasks, UNCHANGED <<version, provider>>, Entries',
         \A u \in Tasks : pc[u] \notin MutatorPC, pc'[t] \notin MutatorPC,
         \A u \in Tasks \ {t} :
           /\ pc'[u] = pc[u] /\ op'[u] = op[u] /\ ver'[u] = ver[u]
           /\ prov'[u] = prov[u] /\ inst'[u] = inst[u],
         Current(t)'
  PROVE  CoherenceInv'
<1>2. Alone'
  BY DEF Alone
<1>3. ASSUME NEW u \in Tasks, u # t PROVE Current(u)'
  BY <1>3 DEF CoherenceInv, Current, MutatorPC
<1>. QED  BY <1>2, <1>3 DEF CoherenceInv

\* A mutator's step finds, and leaves, every other task idle.
LEMMA MutatorMoves ==
  ASSUME NEW t \in Tasks, TypeInv, CoherenceInv, Entries', Current(t)',
         \A u \in Tasks \ {t} : pc[u] = "idle" /\ pc'[u] = "idle"
  PROVE  CoherenceInv'
<1>1. Alone'
  BY DEF Alone, MutatorPC
<1>2. ASSUME NEW u \in Tasks, u # t PROVE Current(u)'
  BY <1>2 DEF Current, MutatorPC, ReaderPC
<1>. QED  BY <1>1, <1>2 DEF CoherenceInv

\* A call that ends leaves nothing to be current about.
LEMMA LeaverCurrent ==
  ASSUME TypeInv, CoherenceInv, NEW t \in Tasks, Leave(t), UNCHANGED <<version, provider>>,
         \A s \in Slots : cache'[s] \in {cache[s], None}
  PROVE  CoherenceInv'
<1>1. Entries'
  BY EntriesShrink
<1>2. /\ pc'[t] = "idle"
      /\ \A u \in Tasks \ {t} :
           /\ pc'[u] = pc[u] /\ op'[u] = op[u] /\ ver'[u] = ver[u]
           /\ prov'[u] = prov[u] /\ inst'[u] = inst[u]
  BY DEF Leave, TypeInv, TypeOK
<1>3. Alone'
  BY <1>2 DEF Alone, CoherenceInv, MutatorPC
<1>4. ASSUME NEW u \in Tasks PROVE Current(u)'
  <2>1. CASE u = t
    BY <1>2, <2>1 DEF Current, ReaderPC, MutatorPC
  <2>2. CASE u # t
    BY <1>2, <2>2 DEF CoherenceInv, Current
  <2>. QED  BY <2>1, <2>2
<1>. QED  BY <1>1, <1>3, <1>4 DEF CoherenceInv

\* With callers that run registrations and removals alone, the inductive
\* invariant behind Coherent and CellSpec.
LEMMA ExclusiveInv ==
  ASSUME Exclusive
  PROVE  Spec => []CoherenceInv
<1>1. Init => CoherenceInv
  BY DEF Init, CoherenceInv, Entries, Alone, Current, MutatorPC, ReaderPC, Slots
<1>2. TypeInv /\ CoherenceInv /\ [Next]_vars => CoherenceInv'
  <2> SUFFICES ASSUME TypeInv, CoherenceInv, [Next]_vars PROVE CoherenceInv'
    OBVIOUS
  <2>0. /\ version \in Nat /\ Entries /\ Alone /\ Shared \in Slots
        /\ \A t \in Tasks : Current(t) /\ Shape(t)
    BY DEF TypeInv, TypeOK, CoherenceInv, Slots
  <2>1. ASSUME NEW t \in Tasks, NEW h \in Scopes, BeginRegister(t, h) PROVE CoherenceInv'
    <3>1. \A u \in Tasks \ {t} : pc[u] = "idle" /\ pc'[u] = "idle"
      BY <2>1 DEF BeginRegister, BumpVersion, Begin, MayMutate, TypeInv, TypeOK
    <3>2. Entries'
      BY <2>0, <2>1 DEF BeginRegister, BumpVersion, Begin, TypeInv, TypeOK, Entry, Instance, Entries
    <3>3. Current(t)'
      BY <2>0, <2>1 DEF BeginRegister, BumpVersion, Begin, TypeInv, TypeOK, Entry, Entries, Current, ReaderPC, MutatorPC, HasProvider
    <3>. QED  BY <3>1, <3>2, <3>3, MutatorMoves
  <2>2. ASSUME NEW t \in Tasks, NEW h \in Scopes, BeginValue(t, h) PROVE CoherenceInv'
    <3>1. \A u \in Tasks \ {t} : pc[u] = "idle" /\ pc'[u] = "idle"
      BY <2>2 DEF BeginValue, BumpVersion, Begin, MayMutate, TypeInv, TypeOK
    <3>2. Entries'
      BY <2>0, <2>2 DEF BeginValue, BumpVersion, Begin, TypeInv, TypeOK, Entry, Instance, Entries
    <3>3. Current(t)'
      BY <2>0, <2>2 DEF BeginValue, BumpVersion, Begin, TypeInv, TypeOK, Entry, Entries, Current, ReaderPC, MutatorPC, HasProvider
    <3>. QED  BY <3>1, <3>2, <3>3, MutatorMoves
  <2>3. ASSUME NEW t \in Tasks, NEW h \in Scopes, RemoveProvider(t, h) PROVE CoherenceInv'
    <3>1. \A u \in Tasks \ {t} : pc[u] = "idle" /\ pc'[u] = "idle"
      BY <2>3 DEF RemoveProvider, Begin, MayMutate, TypeInv, TypeOK
    <3>2. Entries'
      BY <2>0, <2>3 DEF RemoveProvider, Begin, TypeInv, TypeOK, Entry, Instance, Entries
    <3>3. Current(t)'
      BY <2>0, <2>3 DEF RemoveProvider, Begin, TypeInv, TypeOK, Entry, Entries, Current, ReaderPC, MutatorPC, HasProvider
    <3>. QED  BY <3>1, <3>2, <3>3, MutatorMoves
  <2>4. ASSUME NEW t \in Tasks, NEW h \in Scopes, BeginResolve(t, h) PROVE CoherenceInv'
    <3>1. UNCHANGED <<version, provider>> /\ \A s \in Slots : cache'[s] \in {cache[s], None}
      BY <2>4 DEF BeginResolve, Begin, store, TypeInv, TypeOK
    <3>2. (\A u \in Tasks : pc[u] \notin MutatorPC) /\ pc'[t] \notin MutatorPC
      BY <2>0, <2>4 DEF BeginResolve, Begin, store, MayRead, Alone, MutatorPC, TypeInv, TypeOK
    <3>3. \A u \in Tasks \ {t} :
             /\ pc'[u] = pc[u] /\ op'[u] = op[u] /\ ver'[u] = ver[u]
             /\ prov'[u] = prov[u] /\ inst'[u] = inst[u]
      BY <2>4 DEF BeginResolve, Begin, store, TypeInv, TypeOK
    <3>4. Current(t)'
      BY <2>0, <2>4 DEF BeginResolve, Begin, store, TypeInv, TypeOK, Current, ReaderPC, MutatorPC, HasProvider
    <3>. QED  BY <3>1, <3>2, <3>3, <3>4, EntriesShrink, ReaderMoves
  <2>5. ASSUME NEW t \in Tasks, NEW h \in Scopes, BeginOptional(t, h) PROVE CoherenceInv'
    <3>1. UNCHANGED <<version, provider>> /\ \A s \in Slots : cache'[s] \in {cache[s], None}
      BY <2>5 DEF BeginOptional, Begin, store, TypeInv, TypeOK
    <3>2. (\A u \in Tasks : pc[u] \notin MutatorPC) /\ pc'[t] \notin MutatorPC
      BY <2>0, <2>5 DEF BeginOptional, Begin, store, MayRead, Alone, MutatorPC, TypeInv, TypeOK
    <3>3. \A u \in Tasks \ {t} :
             /\ pc'[u] = pc[u] /\ op'[u] = op[u] /\ ver'[u] = ver[u]
             /\ prov'[u] = prov[u] /\ inst'[u] = inst[u]
      BY <2>5 DEF BeginOptional, Begin, store, TypeInv, TypeOK
    <3>4. Current(t)'
      BY <2>0, <2>5 DEF BeginOptional, Begin, store, TypeInv, TypeOK, Current, ReaderPC, MutatorPC, HasProvider
    <3>. QED  BY <3>1, <3>2, <3>3, <3>4, EntriesShrink, ReaderMoves
  <2>6. ASSUME NEW t \in Tasks, NEW h \in Scopes, BeginInitialize(t, h) PROVE CoherenceInv'
    <3>1. UNCHANGED <<version, provider>> /\ \A s \in Slots : cache'[s] \in {cache[s], None}
      BY <2>6 DEF BeginInitialize, Begin, store, TypeInv, TypeOK
    <3>2. (\A u \in Tasks : pc[u] \notin MutatorPC) /\ pc'[t] \notin MutatorPC
      BY <2>0, <2>6 DEF BeginInitialize, Begin, store, MayRead, Alone, MutatorPC, TypeInv, TypeOK
    <3>3. \A u \in Tasks \ {t} :
             /\ pc'[u] = pc[u] /\ op'[u] = op[u] /\ ver'[u] = ver[u]
             /\ prov'[u] = prov[u] /\ inst'[u] = inst[u]
      BY <2>6 DEF BeginInitialize, Begin, store, TypeInv, TypeOK
    <3>4. Current(t)'
      BY <2>0, <2>6 DEF BeginInitialize, Begin, store, TypeInv, TypeOK, Current, ReaderPC, MutatorPC, HasProvider
    <3>. QED  BY <3>1, <3>2, <3>3, <3>4, EntriesShrink, ReaderMoves
  <2>7. ASSUME NEW t \in Tasks, InsertProvider(t) PROVE CoherenceInv'
    <3>1. \A u \in Tasks \ {t} : pc[u] = "idle" /\ pc'[u] = "idle"
      BY <2>0, <2>7 DEF InsertProvider, Goto, Alone, MutatorPC, TypeInv, TypeOK
    <3>2. Entries'
      BY <2>0, <2>7 DEF InsertProvider, Goto, TypeInv, TypeOK, Entry, Instance, Entries, Current
    <3>3. Current(t)'
      BY <2>0, <2>7 DEF InsertProvider, Goto, TypeInv, TypeOK, Entry, Entries, Current, ReaderPC, MutatorPC, HasProvider
    <3>. QED  BY <3>1, <3>2, <3>3, MutatorMoves
  <2>8. ASSUME NEW t \in Tasks, ClearShared(t) PROVE CoherenceInv'
    <3>1. \A u \in Tasks \ {t} : pc[u] = "idle" /\ pc'[u] = "idle"
      BY <2>0, <2>8 DEF ClearShared, Goto, Alone, MutatorPC, TypeInv, TypeOK
    <3>2. Entries'
      BY <2>0, <2>8 DEF ClearShared, Goto, TypeInv, TypeOK, Entry, Instance, Entries, Current
    <3>3. Current(t)'
      BY <2>0, <2>8 DEF ClearShared, Goto, TypeInv, TypeOK, Entry, Entries, Current, ReaderPC, MutatorPC, HasProvider
    <3>. QED  BY <3>1, <3>2, <3>3, MutatorMoves
  <2>9. ASSUME NEW t \in Tasks, ClearScoped(t) PROVE CoherenceInv'
    <3>1. Leave(t) /\ UNCHANGED <<version, provider>> /\ \A s \in Slots : cache'[s] \in {cache[s], None}
      BY <2>9 DEF ClearScoped, Finish, TypeInv, TypeOK
    <3>. QED  BY <3>1, LeaverCurrent
  <2>10. ASSUME NEW t \in Tasks, PutValue(t) PROVE CoherenceInv'
    <3>1. \A u \in Tasks \ {t} : pc[u] = "idle" /\ pc'[u] = "idle"
      BY <2>0, <2>10 DEF PutValue, Goto, Finish, Leave, Alone, MutatorPC, TypeInv, TypeOK
    <3>2. Entries'
      BY <2>0, <2>10 DEF PutValue, TypeInv, TypeOK, Entries, Current
    <3>3. Current(t)'
      <4>1. pc'[t] \in {"clear_after_put", "idle"}
        BY <2>10 DEF PutValue, Goto, Finish, Leave, TypeInv, TypeOK
      <4>. QED  BY <4>1 DEF Current, ReaderPC, MutatorPC
    <3>. QED  BY <3>1, <3>2, <3>3, MutatorMoves
  <2>11. ASSUME NEW t \in Tasks, RemoveBump(t) PROVE CoherenceInv'
    <3>1. \A u \in Tasks \ {t} : pc[u] = "idle" /\ pc'[u] = "idle"
      BY <2>0, <2>11 DEF RemoveBump, Goto, Alone, MutatorPC, TypeInv, TypeOK
    <3>2. Entries'
      BY <2>0, <2>11 DEF RemoveBump, Goto, TypeInv, TypeOK, Entry, Instance, Entries, Current
    <3>3. Current(t)'
      BY <2>0, <2>11 DEF RemoveBump, Goto, TypeInv, TypeOK, Entry, Entries, Current, ReaderPC, MutatorPC, HasProvider
    <3>. QED  BY <3>1, <3>2, <3>3, MutatorMoves
  <2>12. ASSUME NEW t \in Tasks, RemoveShared(t) PROVE CoherenceInv'
    <3>1. \A u \in Tasks \ {t} : pc[u] = "idle" /\ pc'[u] = "idle"
      BY <2>0, <2>12 DEF RemoveShared, Goto, Alone, MutatorPC, TypeInv, TypeOK
    <3>2. Entries'
      BY <2>0, <2>12 DEF RemoveShared, Goto, TypeInv, TypeOK, Entry, Instance, Entries, Current
    <3>3. Current(t)'
      BY <2>0, <2>12 DEF RemoveShared, Goto, TypeInv, TypeOK, Entry, Entries, Current, ReaderPC, MutatorPC, HasProvider
    <3>. QED  BY <3>1, <3>2, <3>3, MutatorMoves
  <2>13. ASSUME NEW t \in Tasks, RemoveScoped(t) PROVE CoherenceInv'
    <3>1. Leave(t) /\ UNCHANGED <<version, provider>> /\ \A s \in Slots : cache'[s] \in {cache[s], None}
      BY <2>13 DEF RemoveScoped, Finish, TypeInv, TypeOK
    <3>. QED  BY <3>1, LeaverCurrent
  <2>14. ASSUME NEW t \in Tasks, ReadVersion(t) PROVE CoherenceInv'
    <3>1. UNCHANGED <<version, provider>> /\ \A s \in Slots : cache'[s] \in {cache[s], None}
      BY <2>14 DEF ReadVersion, Goto, store, TypeInv, TypeOK
    <3>2. (\A u \in Tasks : pc[u] \notin MutatorPC) /\ pc'[t] \notin MutatorPC
      BY <2>0, <2>14 DEF ReadVersion, Goto, store, MayRead, Alone, MutatorPC, TypeInv, TypeOK
    <3>3. \A u \in Tasks \ {t} :
             /\ pc'[u] = pc[u] /\ op'[u] = op[u] /\ ver'[u] = ver[u]
             /\ prov'[u] = prov[u] /\ inst'[u] = inst[u]
      BY <2>14 DEF ReadVersion, Goto, store, TypeInv, TypeOK
    <3>4. Current(t)'
      BY <2>0, <2>14 DEF ReadVersion, Goto, store, TypeInv, TypeOK, Current, ReaderPC, MutatorPC, HasProvider
    <3>. QED  BY <3>1, <3>2, <3>3, <3>4, EntriesShrink, ReaderMoves
  <2>15. ASSUME NEW t \in Tasks, ProviderMissing(t) PROVE CoherenceInv'
    <3>1. Leave(t) /\ UNCHANGED <<version, provider>> /\ \A s \in Slots : cache'[s] \in {cache[s], None}
      BY <2>15 DEF ProviderMissing, Return, store, TypeInv, TypeOK
    <3>. QED  BY <3>1, LeaverCurrent
  <2>16. ASSUME NEW t \in Tasks, ReadProvider(t) PROVE CoherenceInv'
    <3>1. UNCHANGED <<version, provider>> /\ \A s \in Slots : cache'[s] \in {cache[s], None}
      BY <2>16 DEF ReadProvider, Usable, Goto, store, TypeInv, TypeOK
    <3>2. (\A u \in Tasks : pc[u] \notin MutatorPC) /\ pc'[t] \notin MutatorPC
      BY <2>0, <2>16 DEF ReadProvider, Usable, Goto, store, MayRead, Alone, MutatorPC, TypeInv, TypeOK
    <3>3. \A u \in Tasks \ {t} :
             /\ pc'[u] = pc[u] /\ op'[u] = op[u] /\ ver'[u] = ver[u]
             /\ prov'[u] = prov[u] /\ inst'[u] = inst[u]
      BY <2>16 DEF ReadProvider, Usable, Goto, store, TypeInv, TypeOK
    <3>4. Current(t)'
      BY <2>0, <2>16 DEF ReadProvider, Usable, Goto, store, TypeInv, TypeOK, Current, ReaderPC, MutatorPC, HasProvider
    <3>. QED  BY <3>1, <3>2, <3>3, <3>4, EntriesShrink, ReaderMoves
  <2>17. ASSUME NEW t \in Tasks, CacheHit(t) PROVE CoherenceInv'
    <3>1. Leave(t) /\ UNCHANGED <<version, provider>> /\ \A s \in Slots : cache'[s] \in {cache[s], None}
      BY <2>17 DEF CacheHit, Return, store, TypeInv, TypeOK
    <3>. QED  BY <3>1, LeaverCurrent
  <2>18. ASSUME NEW t \in Tasks, CacheMiss(t) PROVE CoherenceInv'
    <3>1. UNCHANGED <<version, provider, cache>> /\ pc[t] = "cached"
      BY <2>18 DEF CacheMiss, store
    <3>2. CASE op[t] = "export"
      BY <2>18, <3>1, <3>2, LeaverCurrent DEF CacheMiss, Return
    <3>3. CASE op[t] # "export"
      <4>1. Goto(t, pc'[t]) /\ pc'[t] \in {"evict", "build"} /\ UNCHANGED <<ver, prov, inst>>
        BY <2>18, <3>3 DEF CacheMiss, Goto, TypeInv, TypeOK
      <4>2. (\A u \in Tasks : pc[u] \notin MutatorPC) /\ pc'[t] \notin MutatorPC
        BY <2>0, <3>1, <4>1 DEF Alone, MutatorPC
      <4>3. Current(t)'
        BY <2>0, <3>1, <3>3, <4>1 DEF Goto, Current, ReaderPC, MutatorPC, HasProvider
      <4>. QED  BY <3>1, <4>1, <4>2, <4>3, EntriesShrink, ReaderMoves DEF Goto, TypeInv, TypeOK
    <3>. QED  BY <3>2, <3>3
  <2>19. ASSUME NEW t \in Tasks, Evict(t) PROVE CoherenceInv'
    <3>1. UNCHANGED <<version, provider>> /\ \A s \in Slots : cache'[s] \in {cache[s], None}
      BY <2>19 DEF Evict, Slot, Goto, TypeInv, TypeOK
    <3>2. (\A u \in Tasks : pc[u] \notin MutatorPC) /\ pc'[t] \notin MutatorPC
      BY <2>0, <2>19 DEF Evict, Slot, Goto, MayRead, Alone, MutatorPC, TypeInv, TypeOK
    <3>3. \A u \in Tasks \ {t} :
             /\ pc'[u] = pc[u] /\ op'[u] = op[u] /\ ver'[u] = ver[u]
             /\ prov'[u] = prov[u] /\ inst'[u] = inst[u]
      BY <2>19 DEF Evict, Slot, Goto, TypeInv, TypeOK
    <3>4. Current(t)'
      BY <2>0, <2>19 DEF Evict, Slot, Goto, TypeInv, TypeOK, Current, ReaderPC, MutatorPC, HasProvider
    <3>. QED  BY <3>1, <3>2, <3>3, <3>4, EntriesShrink, ReaderMoves
  <2>20. ASSUME NEW t \in Tasks, Build(t) PROVE CoherenceInv'
    <3> DEFINE n == IF prov[t].value THEN 0 ELSE builds + 1
               i == [reg |-> prov[t].reg, n |-> n]
    <3>1. UNCHANGED <<version, provider, cache>> /\ pc[t] = "build" /\ AfterBuild(t, i)
      BY <2>20 DEF Build, store
    <3>2. i.reg = prov[t].reg
      OBVIOUS
    <3> HIDE DEF i
    <3>3. CASE prov[t].scope = "transient"
      BY <3>1, <3>3, LeaverCurrent DEF AfterBuild, Return
    <3>4. CASE prov[t].scope # "transient"
      <4>1. Goto(t, "recheck") /\ inst' = [inst EXCEPT ![t] = i] /\ UNCHANGED <<ver, prov>>
        BY <3>1, <3>4 DEF AfterBuild
      <4>2. (\A u \in Tasks : pc[u] \notin MutatorPC) /\ pc'[t] \notin MutatorPC
        BY <2>0, <3>1, <4>1 DEF Alone, MutatorPC, Goto, TypeInv, TypeOK
      <4>3. Current(t)'
        BY <2>0, <3>1, <3>2, <4>1 DEF Goto, Current, ReaderPC, MutatorPC, HasProvider, TypeInv, TypeOK
      <4>. QED  BY <3>1, <4>1, <4>2, <4>3, EntriesShrink, ReaderMoves DEF Goto, TypeInv, TypeOK
    <3>. QED  BY <3>3, <3>4
  <2>21. ASSUME NEW t \in Tasks, BuildFails(t) PROVE CoherenceInv'
    <3>1. Leave(t) /\ UNCHANGED <<version, provider>> /\ \A s \in Slots : cache'[s] \in {cache[s], None}
      BY <2>21 DEF BuildFails, Return, store, TypeInv, TypeOK
    <3>. QED  BY <3>1, LeaverCurrent
  <2>22. ASSUME NEW t \in Tasks, Recheck(t) PROVE CoherenceInv'
    <3>1. /\ UNCHANGED <<version, provider, cache>> /\ pc[t] = "recheck" /\ version = ver[t]
          /\ Goto(t, "store") /\ UNCHANGED <<ver, prov, inst>>
      BY <2>0, <2>22 DEF Recheck, store, Current, ReaderPC
    <3>2. (\A u \in Tasks : pc[u] \notin MutatorPC) /\ pc'[t] \notin MutatorPC
      BY <2>0, <3>1 DEF Alone, MutatorPC, Goto, TypeInv, TypeOK
    <3>3. Current(t)'
      BY <2>0, <3>1 DEF Goto, Current, ReaderPC, MutatorPC, HasProvider, TypeInv, TypeOK
    <3>. QED  BY <3>1, <3>2, <3>3, EntriesShrink, ReaderMoves DEF Goto, TypeInv, TypeOK
  <2>23. ASSUME NEW t \in Tasks, Store(t) PROVE CoherenceInv'
    <3>1. /\ UNCHANGED <<version, provider>> /\ pc[t] = "store" /\ Leave(t)
          /\ cache' = [cache EXCEPT ![Slot(t)] = [version |-> ver[t], inst |-> inst[t]]]
      BY <2>23 DEF Store, Return
    <3>2. ver[t] = version /\ inst[t].reg = provider.reg
      BY <2>0, <3>1 DEF Current, ReaderPC
    <3>3. Entries'
      BY <2>0, <3>1, <3>2 DEF Entries, TypeInv, TypeOK
    <3>4. /\ (\A u \in Tasks : pc[u] \notin MutatorPC) /\ pc'[t] = "idle"
      BY <2>0, <3>1 DEF Alone, MutatorPC, Leave, TypeInv, TypeOK
    <3>5. Current(t)'
      BY <3>4 DEF Current, ReaderPC, MutatorPC
    <3>. QED  BY <3>1, <3>3, <3>4, <3>5, ReaderMoves DEF Leave, MutatorPC, TypeInv, TypeOK
  <2>24. ASSUME NEW t \in Tasks, Cancel(t) PROVE CoherenceInv'
    <3>1. Leave(t) /\ UNCHANGED <<version, provider>> /\ \A s \in Slots : cache'[s] \in {cache[s], None}
      BY <2>24 DEF Cancel, Finish, store, TypeInv, TypeOK
    <3>. QED  BY <3>1, LeaverCurrent
  <2>25. CASE UNCHANGED vars
    BY <2>25 DEF vars, CoherenceInv, Entries, Alone, Current
  <2>. QED
    BY <2>1, <2>2, <2>3, <2>4, <2>5, <2>6, <2>7, <2>8, <2>9, <2>10, <2>11, <2>12, <2>13,
       <2>14, <2>15, <2>16, <2>17, <2>18, <2>19, <2>20, <2>21, <2>22, <2>23, <2>24, <2>25
       DEF Next, TaskStep, MutatorBegin, ReaderBegin, MutatorStep, ReaderStep
<1>. QED  BY <1>1, <1>2, TypeCorrect, PTL DEF Spec

\* With callers that run registrations and removals alone, no cache of any
\* scope ever offers an instance of a provider that has been replaced, even when
\* registrations are cancelled between two of their locks.
THEOREM CoherentSafe ==
  ASSUME Exclusive
  PROVE  Spec => []Coherent
<1>1. CoherenceInv => Coherent
  BY DEF CoherenceInv, Entries, Coherent
<1>. QED  BY <1>1, ExclusiveInv, PTL

\* With callers that run registrations and removals alone, versions and caches
\* are invisible: the container implements the atomic cell of ProviderCell, so
\* resolve only answers with the current provider's instance, reports a missing
\* provider only when there is none, and resolve_optional never reports one.
THEOREM CellRefined ==
  ASSUME Exclusive
  PROVE  Spec => CellSpec
<1>1. Init => Cell!Init
  BY DEF Init, Cell!Init
<1>2. TypeInv /\ CoherenceInv /\ [Next]_vars => [Cell!Next]_<<provider, answer>>
  <2> SUFFICES ASSUME TypeInv, CoherenceInv, [Next]_vars
               PROVE  [Cell!Next]_<<provider, answer>>
    OBVIOUS
  <2>0. Entries /\ \A t \in Tasks : Current(t) /\ Shape(t)
    BY DEF CoherenceInv, TypeInv
  <2>quiet. ASSUME answer' = None PROVE Cell!Next
    BY <2>quiet DEF Cell!Next, Cell!Replace, Cell!Forget
  <2>respond. ASSUME UNCHANGED provider, Cell!Truthful(answer') PROVE Cell!Next
    BY <2>respond DEF Cell!Next, Cell!Respond, Cell!Forget
  <2>1. ASSUME NEW t \in Tasks, NEW h \in Scopes, BeginRegister(t, h) PROVE Cell!Next
    BY <2>1, <2>quiet DEF BeginRegister, BumpVersion, Begin
  <2>2. ASSUME NEW t \in Tasks, NEW h \in Scopes, BeginValue(t, h) PROVE Cell!Next
    BY <2>2, <2>quiet DEF BeginValue, BumpVersion, Begin
  <2>3. ASSUME NEW t \in Tasks, NEW h \in Scopes, RemoveProvider(t, h) PROVE Cell!Next
    BY <2>3, <2>quiet DEF RemoveProvider, Begin
  <2>4. ASSUME NEW t \in Tasks, NEW h \in Scopes, BeginResolve(t, h) PROVE Cell!Next
    BY <2>4, <2>quiet DEF BeginResolve, Begin, store
  <2>5. ASSUME NEW t \in Tasks, NEW h \in Scopes, BeginOptional(t, h) PROVE Cell!Next
    BY <2>5, <2>quiet DEF BeginOptional, Begin, store
  <2>6. ASSUME NEW t \in Tasks, NEW h \in Scopes, BeginInitialize(t, h) PROVE Cell!Next
    BY <2>6, <2>quiet DEF BeginInitialize, Begin, store
  <2>7. ASSUME NEW t \in Tasks, InsertProvider(t) PROVE Cell!Next
    BY <2>7, <2>quiet DEF InsertProvider, Goto
  <2>8. ASSUME NEW t \in Tasks, ClearShared(t) PROVE Cell!Next
    BY <2>8, <2>quiet DEF ClearShared, Goto
  <2>9. ASSUME NEW t \in Tasks, ClearScoped(t) PROVE Cell!Next
    BY <2>9, <2>quiet DEF ClearScoped, Finish, Leave
  <2>10. ASSUME NEW t \in Tasks, PutValue(t) PROVE Cell!Next
    BY <2>10, <2>quiet DEF PutValue, Goto, Finish, Leave
  <2>11. ASSUME NEW t \in Tasks, RemoveBump(t) PROVE Cell!Next
    BY <2>11, <2>quiet DEF RemoveBump, Goto
  <2>12. ASSUME NEW t \in Tasks, RemoveShared(t) PROVE Cell!Next
    BY <2>12, <2>quiet DEF RemoveShared, Goto
  <2>13. ASSUME NEW t \in Tasks, RemoveScoped(t) PROVE Cell!Next
    BY <2>13, <2>quiet DEF RemoveScoped, Finish, Leave
  <2>14. ASSUME NEW t \in Tasks, ReadVersion(t) PROVE Cell!Next
    BY <2>14, <2>quiet DEF ReadVersion, Goto, store
  <2>15. ASSUME NEW t \in Tasks, ProviderMissing(t) PROVE Cell!Next
    <3>1. CASE op[t] = "export"
      <4>1. UNCHANGED provider /\ answer' = [op |-> op[t], kind |-> "absent", inst |-> None]
        BY <2>15, <3>1 DEF ProviderMissing, Return, store
      <4>. QED  BY <3>1, <4>1, <2>respond DEF Cell!Truthful
    <3>2. CASE op[t] # "export"
      <4>1. UNCHANGED provider /\ answer' = [op |-> op[t], kind |-> "missing", inst |-> None]
        BY <2>15, <3>2 DEF ProviderMissing, Return, store
      <4>2. provider = None /\ op[t] = "resolve"
        BY <2>0, <2>15, <3>2 DEF ProviderMissing, Usable, Current, ReaderPC
      <4>. QED  BY <4>1, <4>2, <2>respond DEF Cell!Truthful
    <3>. QED  BY <3>1, <3>2
  <2>16. ASSUME NEW t \in Tasks, ReadProvider(t) PROVE Cell!Next
    BY <2>16, <2>quiet DEF ReadProvider, Usable, Goto, store
  <2>17. ASSUME NEW t \in Tasks, CacheHit(t) PROVE Cell!Next
    <3> DEFINE e == cache[Slot(t)]
    <3>1. UNCHANGED provider /\ answer' = [op |-> op[t], kind |-> "ok", inst |-> e.inst]
      BY <2>17 DEF CacheHit, Return, store
    <3>2. /\ provider # None /\ prov[t] = provider
          /\ op[t] \in {"initialize", "export"} => prov[t].scope = "singleton"
      BY <2>0, <2>17 DEF CacheHit, Current, ReaderPC, HasProvider
    <3>3. e # None /\ e.version = version /\ Slot(t) \in Slots
      BY <2>0, <2>17 DEF CacheHit, Hit, Slot, Slots, Shape, Current, ReaderPC
    <3>4. e.inst.reg = provider.reg
      BY <2>0, <3>2, <3>3 DEF Entries
    <3>. QED  BY <3>1, <3>2, <3>4, <2>respond DEF Cell!Truthful
  <2>18. ASSUME NEW t \in Tasks, CacheMiss(t) PROVE Cell!Next
    <3>1. CASE op[t] = "export"
      <4>1. UNCHANGED provider /\ answer' = [op |-> op[t], kind |-> "absent", inst |-> None]
        BY <2>18, <3>1 DEF CacheMiss, Return, store
      <4>. QED  BY <3>1, <4>1, <2>respond DEF Cell!Truthful
    <3>2. CASE op[t] # "export"
      BY <2>18, <3>2, <2>quiet DEF CacheMiss, Goto
    <3>. QED  BY <3>1, <3>2
  <2>19. ASSUME NEW t \in Tasks, Evict(t) PROVE Cell!Next
    BY <2>19, <2>quiet DEF Evict, Slot, Goto
  <2>20. ASSUME NEW t \in Tasks, Build(t) PROVE Cell!Next
    <3> DEFINE n == IF prov[t].value THEN 0 ELSE builds + 1
               i == [reg |-> prov[t].reg, n |-> n]
    <3>1. CASE prov[t].scope = "transient"
      <4>1. UNCHANGED provider /\ answer' = [op |-> op[t], kind |-> "ok", inst |-> i]
        BY <2>20, <3>1 DEF Build, AfterBuild, Return, store
      <4>2. provider # None /\ prov[t] = provider /\ op[t] \notin {"initialize", "export"}
        BY <2>0, <2>20, <3>1 DEF Build, Current, ReaderPC, HasProvider
      <4>. QED  BY <4>1, <4>2, <2>respond DEF Cell!Truthful
    <3>2. CASE prov[t].scope # "transient"
      BY <2>20, <3>2, <2>quiet DEF Build, AfterBuild, Goto
    <3>. QED  BY <3>1, <3>2
  <2>21. ASSUME NEW t \in Tasks, BuildFails(t) PROVE Cell!Next
    <3>1. UNCHANGED provider /\ answer' = [op |-> op[t], kind |-> "failed", inst |-> None]
      BY <2>21 DEF BuildFails, Return, store
    <3>2. provider # None /\ prov[t] = provider /\ op[t] # "export" /\ ~ provider.value
      BY <2>0, <2>21 DEF BuildFails, Current, ReaderPC, HasProvider
    <3>. QED  BY <3>1, <3>2, <2>respond DEF Cell!Truthful
  <2>22. ASSUME NEW t \in Tasks, Recheck(t) PROVE Cell!Next
    <3>1. version = ver[t]
      BY <2>0, <2>22 DEF Recheck, Current, ReaderPC
    <3>. QED  BY <2>22, <3>1, <2>quiet DEF Recheck, Goto
  <2>23. ASSUME NEW t \in Tasks, Store(t) PROVE Cell!Next
    <3>1. UNCHANGED provider /\ answer' = [op |-> op[t], kind |-> "ok", inst |-> inst[t]]
      BY <2>23 DEF Store, Return
    <3>2. /\ provider # None /\ prov[t] = provider /\ inst[t].reg = provider.reg
          /\ op[t] \in {"initialize", "export"} => prov[t].scope = "singleton"
      BY <2>0, <2>23 DEF Store, Current, ReaderPC, HasProvider
    <3>. QED  BY <3>1, <3>2, <2>respond DEF Cell!Truthful
  <2>24. ASSUME NEW t \in Tasks, Cancel(t) PROVE Cell!Next
    BY <2>24, <2>quiet DEF Cancel, Finish, Leave, store
  <2>25. CASE UNCHANGED vars
    BY <2>25 DEF vars
  <2>. QED
    BY <2>1, <2>2, <2>3, <2>4, <2>5, <2>6, <2>7, <2>8, <2>9, <2>10, <2>11, <2>12, <2>13,
       <2>14, <2>15, <2>16, <2>17, <2>18, <2>19, <2>20, <2>21, <2>22, <2>23, <2>24, <2>25
       DEF Next, TaskStep, MutatorBegin, ReaderBegin, MutatorStep, ReaderStep
<1>. QED  BY <1>1, <1>2, ExclusiveInv, TypeCorrect, PTL DEF Spec, CellSpec, Cell!Spec
-----------------------------------------------------------------------------
(***************************************************************************)
(* Sharing.                                                                *)
(***************************************************************************)

\* What every call that shares slot s is about to be answered with.
Serves(s, a) == cache[s] # None /\ cache[s].version = version /\ cache[s].inst = a

\* A call that has missed the cache, and will hand out an Arc of its own.
Missed == {"evict", "build", "recheck", "store"}

\* The Arcs handed out are those the cache serves; while a call is past a miss,
\* or the provider is being replaced, there are none that it could disagree with.
ArcsInv ==
  /\ arcs \in [Scopes -> SUBSET Instance]
  /\ arcs # NoArcs =>
       /\ apart
       /\ \A t \in Tasks : pc[t] \notin MutatorPC
       /\ \A t, u \in Tasks : pc[t] # "idle" /\ pc[u] # "idle" => t = u
  /\ provider # None /\ provider.scope = "singleton" =>
       /\ \A h \in Scopes : \A a \in arcs[h] : Serves(Shared, a)
       /\ \A t \in Tasks : pc[t] \in Missed => arcs = NoArcs
  /\ provider # None /\ provider.scope = "scoped" =>
       /\ \A h \in Scopes : \A a \in arcs[h] : Serves(h, a)
       /\ \A t \in Tasks : pc[t] \in Missed => arcs[handle[t]] = {}

\* A step that leaves Arcs behind did not move the registry, met no other call,
\* and was neither of a registration nor of a removal.
LEMMA ArcsSurvive ==
  ASSUME TypeInv, ArcsInv, NEW t \in Tasks, TaskStep(t), Remember(t), arcs' # NoArcs
  PROVE  /\ UNCHANGED <<version, provider>> /\ apart /\ apart'
         /\ \A u \in Tasks \ {t} : pc[u] = "idle"
         /\ pc[t] \notin MutatorPC
         /\ arcs' = IF answer' # None /\ answer'.kind = "ok" /\ answer'.op \in {"resolve", "optional"}
                      THEN [arcs EXCEPT ![handle[t]] = @ \cup {answer'.inst}]
                      ELSE arcs
<1>1. UNCHANGED <<version, provider>> /\ apart'
  BY DEF Remember
<1>2. apart /\ \A u \in Tasks \ {t} : pc[u] = "idle"
  BY <1>1 DEF Remember
<1>3. arcs' = IF answer' # None /\ answer'.kind = "ok" /\ answer'.op \in {"resolve", "optional"}
                THEN [arcs EXCEPT ![handle[t]] = @ \cup {answer'.inst}]
                ELSE arcs
  BY <1>1 DEF Remember
<1>4. ASSUME pc[t] \in MutatorPC PROVE FALSE
  <2>1. pc[t] \notin ReaderPC /\ pc[t] # "idle"
    BY <1>4 DEF MutatorPC, ReaderPC
  <2>2. MutatorStep(t) \/ Cancel(t)
    BY <2>1 DEF TaskStep, MutatorBegin, ReaderBegin, BeginRegister, BeginValue, BumpVersion,
                RemoveProvider, BeginResolve, BeginOptional, BeginInitialize, Begin, ReaderPC,
                ReaderStep, ReadVersion, ProviderMissing, ReadProvider, CacheHit, CacheMiss,
                Evict, Build, BuildFails, Recheck, Store
  <2>3. answer' = None
    BY <2>2 DEF MutatorStep, InsertProvider, ClearShared, ClearScoped, PutValue, RemoveBump,
                RemoveShared, RemoveScoped, Cancel, Goto, Finish
  <2>. QED  BY <1>3, <1>4, <2>3 DEF ArcsInv
<1>. QED  BY <1>1, <1>2, <1>3, <1>4

\* A call that moves on without handing out an Arc, and without missing the cache,
\* disturbs nothing.
LEMMA ArcsStay ==
  ASSUME ArcsInv, NEW t \in Tasks, arcs' # NoArcs,
         apart', UNCHANGED <<version, provider, cache, arcs>>,
         \A u \in Tasks \ {t} : pc'[u] = "idle",
         pc'[t] \notin MutatorPC,
         pc'[t] \in Missed /\ provider # None /\ provider.scope # "transient" =>
           pc[t] \in Missed /\ handle'[t] = handle[t]
  PROVE  ArcsInv'
<1>1. \A u \in Tasks : pc'[u] \notin MutatorPC /\ (pc'[u] \in Missed => u = t)
  BY DEF MutatorPC, Missed
<1>2. \A u, v \in Tasks : pc'[u] # "idle" /\ pc'[v] # "idle" => u = v
  OBVIOUS
<1>3. \A s, a : Serves(s, a)' <=> Serves(s, a)
  BY DEF Serves
<1>. QED  BY <1>1, <1>2, <1>3 DEF ArcsInv

\* Every step of a task keeps the Arcs and the caches in agreement.
LEMMA ArcsKept ==
  ASSUME Exclusive, TypeInv, TypeInv', CoherenceInv, ArcsInv,
         NEW t \in Tasks, TaskStep(t), Remember(t)
  PROVE  ArcsInv'
<1>1. CASE arcs' = NoArcs
  <2>1. \A h \in Scopes : NoArcs[h] = {}
    BY DEF NoArcs
  <2>2. \A u \in Tasks : pc'[u] \in Missed => handle'[u] \in Scopes
    BY DEF TypeInv, Shape, Missed
  <2>. QED  BY <1>1, <2>1, <2>2 DEF ArcsInv, NoArcs
<1>2. CASE arcs' # NoArcs
  <2>0. /\ UNCHANGED <<version, provider>> /\ apart /\ apart'
        /\ \A u \in Tasks \ {t} : pc[u] = "idle"
        /\ pc[t] \notin MutatorPC
        /\ arcs' = IF answer' # None /\ answer'.kind = "ok" /\ answer'.op \in {"resolve", "optional"}
                     THEN [arcs EXCEPT ![handle[t]] = @ \cup {answer'.inst}]
                     ELSE arcs
    BY <1>2, ArcsSurvive
  <2>1. Current(t) /\ Shape(t) /\ (pc[t] # "idle" => handle[t] \in Scopes)
    BY DEF CoherenceInv, TypeInv, Shape
  <2>2. ASSUME NEW h \in Scopes, MutatorBegin(t, h) PROVE ArcsInv'
    <3>1. version' # version \/ provider' # provider
      BY <2>2 DEF MutatorBegin, BeginRegister, BeginValue, BumpVersion, RemoveProvider,
                  TypeInv, TypeOK
    <3>. QED  BY <2>0, <3>1
  <2>3. ASSUME MutatorStep(t) PROVE ArcsInv'
    BY <2>0, <2>3 DEF MutatorStep, MutatorPC, InsertProvider, ClearShared, ClearScoped, PutValue,
                      RemoveBump, RemoveShared, RemoveScoped
  <2>4. ASSUME NEW h \in Scopes, ReaderBegin(t, h) PROVE ArcsInv'
    <3>1. /\ pc' = [pc EXCEPT ![t] = pc'[t]] /\ pc'[t] \in {"provider", "version"}
          /\ answer' = None /\ cache' = cache
      BY <2>4 DEF ReaderBegin, BeginResolve, BeginOptional, BeginInitialize, Begin, store,
                  TypeInv, TypeOK
    <3>. QED  BY <1>2, <2>0, <3>1, ArcsStay DEF MutatorPC, Missed, TypeInv, TypeOK
  <2>5. ASSUME ReadVersion(t) PROVE ArcsInv'
    <3>1. /\ pc' = [pc EXCEPT ![t] = pc'[t]] /\ pc'[t] \in {"cached", "provider"}
          /\ answer' = None /\ cache' = cache
      BY <2>5 DEF ReadVersion, Goto, store, TypeInv, TypeOK
    <3>. QED  BY <1>2, <2>0, <3>1, ArcsStay DEF MutatorPC, Missed, TypeInv, TypeOK
  <2>6. ASSUME ReadProvider(t) PROVE ArcsInv'
    <3>1. /\ pc' = [pc EXCEPT ![t] = pc'[t]]
          /\ pc'[t] = IF provider.scope = "transient" THEN "build" ELSE "cached"
          /\ answer' = None /\ cache' = cache
      BY <2>6 DEF ReadProvider, Goto, store, TypeInv, TypeOK
    <3>. QED  BY <1>2, <2>0, <3>1, ArcsStay DEF MutatorPC, Missed, TypeInv, TypeOK
  <2>7. ASSUME ProviderMissing(t) \/ BuildFails(t) \/ Cancel(t) PROVE ArcsInv'
    <3>1. /\ pc' = [pc EXCEPT ![t] = pc'[t]] /\ pc'[t] = "idle" /\ cache' = cache
          /\ answer' = None \/ answer'.kind # "ok"
      BY <2>7 DEF ProviderMissing, BuildFails, Cancel, Return, Finish, Leave, store,
                  TypeInv, TypeOK
    <3>. QED  BY <1>2, <2>0, <3>1, ArcsStay DEF MutatorPC, Missed, TypeInv, TypeOK
  <2>8. ASSUME CacheHit(t) PROVE ArcsInv'
    <3> DEFINE e == cache[Slot(t)]
    <3>1. /\ pc' = [pc EXCEPT ![t] = "idle"] /\ cache' = cache
          /\ answer' = [op |-> op[t], kind |-> "ok", inst |-> e.inst]
          /\ pc[t] = "cached" /\ e # None /\ e.version = ver[t]
      BY <2>8 DEF CacheHit, Hit, Return, Leave, store
    <3>2. /\ ver[t] = version /\ provider # None /\ prov[t] = provider
          /\ op[t] = "initialize" => provider.scope = "singleton"
          /\ handle[t] \in Scopes
      BY <2>1, <3>1 DEF Current, ReaderPC, HasProvider
    <3>3. Slot(t) \in Slots /\ e.inst \in Instance
      BY <3>1, <3>2 DEF Slot, Slots, TypeInv, TypeOK, Entry
    <3>4. Serves(Slot(t), e.inst)
      BY <3>1, <3>2 DEF Serves
    <3>5. \A s, a : Serves(s, a)' <=> Serves(s, a)
      BY <2>0, <3>1 DEF Serves
    <3>6. /\ arcs' \in [Scopes -> SUBSET Instance]
          /\ \A h \in Scopes : arcs'[h] \in {arcs[h], arcs[h] \cup {e.inst}}
          /\ \A h \in Scopes : h # handle[t] => arcs'[h] = arcs[h]
      <4>1. arcs' = [arcs EXCEPT ![handle[t]] = @ \cup {e.inst}] \/ arcs' = arcs
        BY <2>0, <3>1
      <4> HIDE DEF e
      <4>. QED  BY <4>1, <3>2, <3>3 DEF ArcsInv
    <3>7. \A u \in Tasks : pc'[u] = "idle"
      BY <2>0, <3>1 DEF TypeInv, TypeOK
    <3>8. provider.scope = "singleton" => \A h \in Scopes : \A a \in arcs'[h] : Serves(Shared, a)'
      <4>1. provider.scope = "singleton" => Slot(t) = Shared
        BY <3>2 DEF Slot
      <4> HIDE DEF e
      <4>. QED  BY <3>2, <3>4, <3>5, <3>6, <4>1 DEF ArcsInv
    <3>9. provider.scope = "scoped" => \A h \in Scopes : \A a \in arcs'[h] : Serves(h, a)'
      <4>1. provider.scope = "scoped" => Slot(t) = handle[t]
        BY <3>2 DEF Slot
      <4> HIDE DEF e
      <4>. QED  BY <3>2, <3>4, <3>5, <3>6, <4>1 DEF ArcsInv
    <3>. QED  BY <2>0, <3>6, <3>7, <3>8, <3>9 DEF ArcsInv, MutatorPC, Missed
  <2>9. ASSUME CacheMiss(t) PROVE ArcsInv'
    <3> DEFINE e == cache[Slot(t)]
    <3>1. pc[t] = "cached" /\ ~ Hit(e, t) /\ cache' = cache
      BY <2>9 DEF CacheMiss, store
    <3>2. CASE op[t] = "export"
      <4>1. pc' = [pc EXCEPT ![t] = "idle"] /\ answer'.kind # "ok"
        BY <2>9, <3>2 DEF CacheMiss, Return, Leave
      <4>. QED  BY <1>2, <2>0, <3>1, <4>1, ArcsStay DEF MutatorPC, Missed, TypeInv, TypeOK
    <3>3. CASE op[t] # "export"
      <4>1. /\ pc' = [pc EXCEPT ![t] = pc'[t]] /\ pc'[t] \in {"evict", "build"}
            /\ answer' = None /\ handle' = handle
        BY <2>9, <3>3 DEF CacheMiss, Goto, TypeInv, TypeOK
      <4>2. /\ ver[t] = version /\ provider # None /\ prov[t] = provider /\ handle[t] \in Scopes
        BY <2>1, <3>1 DEF Current, ReaderPC, HasProvider
      <4>3. \A a : ~ Serves(Slot(t), a)
        BY <3>1, <4>2 DEF Serves, Hit
      <4>4. arcs' = arcs /\ \A s, a : Serves(s, a)' <=> Serves(s, a)
        BY <2>0, <3>1, <4>1 DEF Serves
      <4>5. /\ \A u \in Tasks : pc'[u] \notin MutatorPC /\ (pc'[u] # "idle" => u = t)
        BY <2>0, <4>1 DEF TypeInv, TypeOK, MutatorPC
      <4>6. provider.scope = "singleton" => arcs = NoArcs
        <5>1. ASSUME provider.scope = "singleton", NEW h \in Scopes PROVE arcs[h] = {}
          BY <5>1, <4>2, <4>3 DEF ArcsInv, Slot
        <5>. QED  BY <5>1 DEF ArcsInv, NoArcs
      <4>7. provider.scope = "scoped" => arcs[handle[t]] = {}
        BY <4>2, <4>3 DEF ArcsInv, Slot
      <4>. QED  BY <2>0, <4>1, <4>4, <4>5, <4>6, <4>7 DEF ArcsInv, Missed
    <3>. QED  BY <3>2, <3>3
  <2>10. ASSUME Evict(t) PROVE ArcsInv'
    <3>1. /\ pc[t] = "evict" /\ cache' = [cache EXCEPT ![Slot(t)] = None]
          /\ pc' = [pc EXCEPT ![t] = "build"] /\ answer' = None /\ handle' = handle
      BY <2>10 DEF Evict, Goto
    <3>2. provider # None /\ prov[t] = provider /\ handle[t] \in Scopes
      BY <2>1, <3>1 DEF Current, ReaderPC, HasProvider
    <3>3. arcs' = arcs /\ arcs # NoArcs
      BY <1>2, <2>0, <3>1
    <3>4. provider.scope # "singleton"
      BY <3>1, <3>2, <3>3 DEF ArcsInv, Missed
    <3>5. \A u \in Tasks : pc'[u] \notin MutatorPC /\ (pc'[u] # "idle" => u = t)
      BY <2>0, <3>1 DEF TypeInv, TypeOK, MutatorPC
    <3>6. ASSUME provider.scope = "scoped"
          PROVE  /\ arcs[handle[t]] = {}
                 /\ \A h \in Scopes : \A a \in arcs[h] : Serves(h, a)'
      <4>1. arcs[handle[t]] = {} /\ Slot(t) = handle[t]
        BY <3>1, <3>2, <3>4, <3>6 DEF ArcsInv, Missed, Slot
      <4>2. ASSUME NEW h \in Scopes, NEW a \in arcs[h] PROVE Serves(h, a)'
        <5>1. cache'[h] = cache[h]
          BY <3>1, <4>1, <4>2 DEF TypeInv, TypeOK, Slots
        <5>. QED  BY <2>0, <3>2, <3>6, <5>1 DEF ArcsInv, Serves
      <4>. QED  BY <4>1, <4>2
    <3>. QED  BY <2>0, <3>1, <3>3, <3>4, <3>5, <3>6 DEF ArcsInv, Missed
  <2>11. ASSUME Build(t) PROVE ArcsInv'
    <3> DEFINE n == IF prov[t].value THEN 0 ELSE builds + 1
               i == [reg |-> prov[t].reg, n |-> n]
    <3>1. pc[t] = "build" /\ AfterBuild(t, i) /\ cache' = cache
      BY <2>11 DEF Build, store
    <3>2. /\ provider # None /\ prov[t] = provider /\ provider \in Provider
          /\ handle[t] \in Scopes
      BY <2>1, <3>1 DEF Current, ReaderPC, HasProvider, TypeInv, TypeOK
    <3>3. i \in Instance
      BY <3>2 DEF Instance, Provider, TypeInv, TypeOK
    <3> HIDE DEF i
    <3>4. CASE provider.scope = "transient"
      <4>1. pc' = [pc EXCEPT ![t] = "idle"] /\ answer' = [op |-> op[t], kind |-> "ok", inst |-> i]
        BY <3>1, <3>2, <3>4 DEF AfterBuild, Return, Leave
      <4>2. arcs' \in [Scopes -> SUBSET Instance]
        BY <2>0, <3>2, <3>3, <4>1 DEF ArcsInv
      <4>3. \A u \in Tasks : pc'[u] = "idle"
        BY <2>0, <4>1 DEF TypeInv, TypeOK
      <4>. QED  BY <2>0, <3>4, <4>2, <4>3 DEF ArcsInv, MutatorPC
    <3>5. CASE provider.scope # "transient"
      <4>1. pc' = [pc EXCEPT ![t] = "recheck"] /\ answer' = None /\ handle' = handle
        BY <3>1, <3>2, <3>5 DEF AfterBuild, Goto
      <4>. QED  BY <1>2, <2>0, <3>1, <4>1, ArcsStay DEF MutatorPC, Missed, TypeInv, TypeOK
    <3>. QED  BY <3>4, <3>5
  <2>12. ASSUME Recheck(t) PROVE ArcsInv'
    <3>1. version = ver[t] /\ pc[t] = "recheck"
      BY <2>1, <2>12 DEF Recheck, Current, ReaderPC
    <3>2. pc' = [pc EXCEPT ![t] = "store"] /\ answer' = None /\ UNCHANGED <<cache, handle>>
      BY <2>12, <3>1 DEF Recheck, Goto, store
    <3>. QED  BY <1>2, <2>0, <3>1, <3>2, ArcsStay DEF MutatorPC, Missed, TypeInv, TypeOK
  <2>13. ASSUME Store(t) PROVE ArcsInv'
    <3> DEFINE e == [version |-> ver[t], inst |-> inst[t]]
    <3>1. /\ pc[t] = "store" /\ cache' = [cache EXCEPT ![Slot(t)] = e]
          /\ pc' = [pc EXCEPT ![t] = "idle"]
          /\ answer' = [op |-> op[t], kind |-> "ok", inst |-> inst[t]]
      BY <2>13 DEF Store, Return, Leave
    <3>2. /\ ver[t] = version /\ provider # None /\ prov[t] = provider
          /\ handle[t] \in Scopes /\ inst[t] \in Instance
      BY <2>1, <3>1 DEF Current, Shape, ReaderPC, HasProvider
    <3>3. Slot(t) \in Slots /\ e \in Entry
      BY <3>2 DEF Slot, Slots, TypeInv, TypeOK, Entry
    <3>4. /\ cache'[Slot(t)] # None
          /\ cache'[Slot(t)].version = version' /\ cache'[Slot(t)].inst = inst[t]
      <4>1. cache'[Slot(t)] = e
        BY <3>1, <3>3 DEF TypeInv, TypeOK
      <4>2. e # None
        BY <3>3, ArcsAssumption
      <4>. QED  BY <2>0, <3>2, <4>1, <4>2
    <3>5. /\ arcs' \in [Scopes -> SUBSET Instance]
          /\ \A h \in Scopes : arcs'[h] \in {arcs[h], arcs[h] \cup {inst[t]}}
          /\ \A h \in Scopes : h # handle[t] => arcs'[h] = arcs[h]
      <4>1. arcs' = [arcs EXCEPT ![handle[t]] = @ \cup {inst[t]}] \/ arcs' = arcs
        BY <2>0, <3>1
      <4>. QED  BY <4>1, <3>2 DEF ArcsInv
    <3>6. \A u \in Tasks : pc'[u] = "idle"
      BY <2>0, <3>1 DEF TypeInv, TypeOK
    <3>7. ASSUME provider.scope = "singleton"
          PROVE  \A h \in Scopes : \A a \in arcs'[h] : Serves(Shared, a)'
      <4>1. Slot(t) = Shared
        BY <3>2, <3>7 DEF Slot
      <4>2. \A h \in Scopes : arcs[h] = {}
        BY <3>1, <3>2, <3>7 DEF ArcsInv, Missed, NoArcs
      <4>. QED  BY <3>4, <3>5, <4>1, <4>2 DEF Serves
    <3>8. ASSUME provider.scope = "scoped"
          PROVE  \A h \in Scopes : \A a \in arcs'[h] : Serves(h, a)'
      <4>1. Slot(t) = handle[t] /\ arcs[handle[t]] = {}
        BY <3>1, <3>2, <3>8 DEF ArcsInv, Missed, Slot
      <4>2. ASSUME NEW h \in Scopes, NEW a \in arcs'[h], h # handle[t] PROVE Serves(h, a)'
        <5>1. cache'[h] = cache[h] /\ a \in arcs[h]
          BY <3>1, <3>5, <4>1, <4>2 DEF TypeInv, TypeOK, Slots
        <5>. QED  BY <2>0, <3>2, <3>8, <5>1 DEF ArcsInv, Serves
      <4>. QED  BY <3>4, <3>5, <4>1, <4>2 DEF Serves
    <3>. QED  BY <2>0, <3>5, <3>6, <3>7, <3>8 DEF ArcsInv, MutatorPC, Missed
  <2>. QED
    BY <2>2, <2>3, <2>4, <2>5, <2>6, <2>7, <2>8, <2>9, <2>10, <2>11, <2>12, <2>13
       DEF TaskStep, ReaderStep
<1>. QED  BY <1>1, <1>2

\* With callers that run registrations and removals alone, calls that do not
\* overlap share what the documentation says they share: one Arc for a
\* singleton, whatever the handle, and one for each handle of a scoped provider.
THEOREM CoherentlyShared ==
  ASSUME Exclusive
  PROVE  ArcsSpec => []CoherentArcs
<1>1. ArcsInit => ArcsInv
  BY DEF ArcsInit, Init, ArcsInv, NoArcs
<1>2. TypeInv /\ TypeInv' /\ CoherenceInv /\ ArcsInv /\ [ArcsNext]_<<vars, arcs, apart>> => ArcsInv'
  <2>1. CASE ArcsNext
    BY <2>1, ArcsKept DEF ArcsNext
  <2>2. CASE UNCHANGED <<vars, arcs, apart>>
    BY <2>2 DEF vars, ArcsInv, Serves
  <2>. QED  BY <2>1, <2>2
<1>3. CoherenceInv /\ ArcsInv => CoherentArcs
  <2> SUFFICES ASSUME CoherenceInv, ArcsInv PROVE Coherent /\ SameArc
    BY DEF CoherentArcs
  <2>1. ASSUME NEW S, NEW b, S \subseteq {b} PROVE Cardinality(S) <= 1
    <3>1. S = {} \/ S = {b}
      BY <2>1
    <3>2. CASE S = {}
      BY <3>2, FS_EmptySet
    <3>3. CASE S = {b}
      <4>1. Cardinality({b}) = 1
        BY FS_Singleton
      <4>. QED  BY <3>3, <4>1
    <3>. QED  BY <3>1, <3>2, <3>3
  <2>2. UNION {arcs[h] : h \in Scopes} \subseteq {cache[Shared].inst}
        \/ ~ (provider # None /\ provider.scope = "singleton")
    BY DEF ArcsInv, Serves
  <2>3. (\A h \in Scopes : arcs[h] \subseteq {cache[h].inst})
        \/ ~ (provider # None /\ provider.scope = "scoped")
    BY DEF ArcsInv, Serves
  <2>4. SameArc
    BY <2>1, <2>2, <2>3 DEF SameArc
  <2>. QED  BY <2>4 DEF CoherenceInv, Entries, Coherent
<1>4. ArcsInit => Init
  BY DEF ArcsInit
<1>5. [ArcsNext]_<<vars, arcs, apart>> => [Next]_vars
  BY DEF ArcsNext, Next
<1>. QED  BY <1>1, <1>2, <1>3, <1>4, <1>5, TypeCorrect, ExclusiveInv, PTL DEF ArcsSpec, Spec

=============================================================================
