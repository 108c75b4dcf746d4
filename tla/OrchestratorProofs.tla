------------------------- MODULE OrchestratorProofs -------------------------
(* Proofs about Orchestrator, for any modules, metadata and bound: that hooks run in the order of   *)
(* the imports and that containers share along imports, whatever is registered again, fails or is  *)
(* dropped.  What the computations of ModuleGraph return is proved in GraphProofs.                  *)
EXTENDS Orchestrator, GraphProofs

\* The registry's orders, sources and surfaces are right for whatever is registered
\* (registry.rs:223, :384 and :535).
THEOREM RegistryRight == RegistryIsRight
<1>1. \A reg \in Registries : IsRegistry(reg)
  BY OrchestratorAssumption DEF Registries, IsRegistry
<1> QED
  BY <1>1, OrderRightLemma, SourcesRightLemma, SurfacesRightLemma DEF RegistryIsRight

Loading  == {"next", "seed", "configure", "initialize", "init_hook"}
Stopping == {"shutdown_hooks", "destroy", "destroy_hook"}

\* Registered modules, none twice, each after its imports.
Sound(o) ==
  /\ o \in Seq(DOMAIN entries)
  /\ \A j, k \in DOMAIN o : o[j] = o[k] => j = k
  /\ \A j \in DOMAIN o : \A i \in Imports(o[j]) : \E k \in DOMAIN o : o[k] = i /\ k < j

\* Where bootstrap and shutdown are.
Placed ==
  /\ at \in Nat
  /\ stage \in Loading => at > 0 /\ at <= Len(order) + 1
  /\ stage = "bootstrap_hooks" => at > 0
  /\ stage \in Loading \ {"next"} => at <= Len(order)
  /\ stage \in Stopping => at <= Len(activation_order)
  /\ stage = "destroy_hook" => at > 0

\* What bootstrap has activated stays active until it ends.
Activated ==
  /\ stage \in Loading => \A k \in DOMAIN order : k < at => state[order[k]] = "active"
  /\ stage = "bootstrap_hooks" => \A n \in DOMAIN entries : state[n] = "active"

\* What shutdown has destroyed stays so until it ends.
Destroyed ==
  stage \in {"destroy", "destroy_hook"} =>
    \A k \in DOMAIN activation_order : k > at => state[activation_order[k]] = "destroyed"

RunOk ==
  /\ order \in Seq(Modules) /\ Sound(activation_order)
  /\ stage \in Loading \cup {"bootstrap_hooks"} => Sound(order) /\ DOMAIN entries \subseteq ToSet(order)

OrderInv == OrchestratorTyped /\ RunOk /\ Placed /\ Activated /\ Destroyed /\ HooksInOrder

-----------------------------------------------------------------------------
(* What the registry promises, of the entries there are. *)

LEMMA EntriesOfRegistry ==
  ASSUME OrchestratorTyped PROVE entries \in Registries /\ \A m \in DOMAIN entries : m \in Modules /\ entries[m] = meta[m]
<1>1. PICK D \in SUBSET Modules : D = DOMAIN entries
  BY DEF OrchestratorTyped
<1>2. entries = [m \in D |-> meta[m]] /\ meta \in Graphs
  BY <1>1 DEF OrchestratorTyped
<1> QED
  BY <1>1, <1>2 DEF Registries

LEMMA OrderIsSound ==
  ASSUME RegistryIsRight, OrchestratorTyped, IsOk(ResolveOrder(entries))
  PROVE  LET o == ResolveOrder(entries).value IN Sound(o) /\ DOMAIN entries \subseteq ToSet(o) /\ o \in Seq(Modules)
<1> DEFINE o == ResolveOrder(entries).value
<1>1. OrderRight(entries)
  BY EntriesOfRegistry DEF RegistryIsRight
<1>2. /\ o \in Seq(DOMAIN entries) /\ DOMAIN entries \subseteq ToSet(o)
      /\ \A j, k \in DOMAIN o : o[j] = o[k] => j = k
      /\ \A j \in DOMAIN o : \A i \in ToSet(entries[o[j]].imports) : \E k \in DOMAIN o : o[k] = i /\ k < j
  BY <1>1 DEF OrderRight
<1> HIDE DEF o
<1>3. \A j \in DOMAIN o : Imports(o[j]) = ToSet(entries[o[j]].imports)
  <2>1. \A j \in DOMAIN o : o[j] \in DOMAIN entries
    BY <1>2
  <2> QED
    BY <2>1, EntriesOfRegistry DEF Imports
<1>4. o \in Seq(Modules)
  BY <1>2 DEF OrchestratorTyped
<1> QED
  BY <1>2, <1>3, <1>4 DEF Sound, o

\* More registrations leave a sound order sound.
LEMMA SoundStays ==
  ASSUME NEW o, Sound(o), meta' = meta, DOMAIN entries \subseteq DOMAIN entries' PROVE Sound(o)'
<1>1. o \in Seq(DOMAIN entries')
  BY DEF Sound
<1> QED
  BY <1>1 DEF Sound, Imports

-----------------------------------------------------------------------------
(* The order of the hooks: each action. *)

\* A step that calls no hook leaves nothing to be said of the order.
LEMMA QuietIsOk == Quiet => HooksInOrder'
BY OrchestratorAssumption DEF Quiet, HooksInOrder, InitAfterImports, BootstrapAfterAll, DestroyOrder, Calling, Hooks

LEMMA OrderInitial == OrchestratorInit => OrderInv
<1> SUFFICES ASSUME OrchestratorInit PROVE OrderInv
  OBVIOUS
<1>1. OrchestratorTyped
  <2>1. entries = [m \in DOMAIN entries |-> meta[m]] /\ DOMAIN entries = {}
    BY DEF OrchestratorInit
  <2>2. <<>> \in Seq(Modules) /\ <<>> \in Seq(DOMAIN entries)
    OBVIOUS
  <2> QED
    BY <2>1, <2>2, OrchestratorAssumption DEF OrchestratorInit, OrchestratorTyped, ChartState, Stages, Result, Nothing
<1>2. RunOk
  BY DEF OrchestratorInit, RunOk, Sound, Loading
<1>3. Placed /\ Activated /\ Destroyed
  BY DEF OrchestratorInit, Placed, Activated, Destroyed, Loading, Stopping
<1>4. HooksInOrder
  BY OrchestratorAssumption DEF OrchestratorInit, HooksInOrder, InitAfterImports, BootstrapAfterAll, DestroyOrder, Calling, Hooks
<1> QED
  BY <1>1, <1>2, <1>3, <1>4 DEF OrderInv

\* A call that ends leaves the runtimes and the activation order of the last success.
LEMMA EndKeeps ==
  ASSUME OrderInv, NEW how \in Result, End(how), Quiet, UNCHANGED <<meta, runtimes, activation_order>>,
         state' \in [Modules -> ChartState], holds' \in [Modules -> [Types -> Singleton \cup {Missing}]]
  PROVE  OrderInv'
<1>1. meta' = meta /\ entries' = entries /\ born' = born /\ count' = count /\ activation_order' = activation_order
  BY DEF runtimes
<1>2. OrchestratorTyped'
  <2>1. <<>> \in Seq(Modules)
    OBVIOUS
  <2> QED
    BY <1>1, <2>1 DEF OrderInv, OrchestratorTyped, End, Quiet, Stages
<1>3. RunOk'
  BY <1>1, SoundStays DEF OrderInv, RunOk, End, Loading
<1>4. Placed' /\ Activated' /\ Destroyed'
  BY DEF End, Placed, Activated, Destroyed, Loading, Stopping
<1> QED
  BY <1>2, <1>3, <1>4, QuietIsOk DEF OrderInv

LEMMA RegisterKeeps == ASSUME OrderInv, NEW m \in Modules, Register(m) PROVE OrderInv'
<1>0. count + 1 \in 0..MaxRegistered /\ count + 1 \in Nat
  BY OrchestratorAssumption DEF OrderInv, OrchestratorTyped, Register
<1>1. DOMAIN entries' = DOMAIN entries \cup {m} /\ entries' = [x \in DOMAIN entries' |-> meta[x]]
  <2>1. entries = [x \in DOMAIN entries |-> meta[x]]
    BY DEF OrderInv, OrchestratorTyped
  <2> QED
    BY <2>1 DEF Register
<1>2. OrchestratorTyped'
  <2>1. born' \in [Modules -> Nat]
    BY <1>0 DEF OrderInv, OrchestratorTyped, Register
  <2>2. state' \in [Modules -> ChartState] /\ holds' \in [Modules -> [Types -> Singleton \cup {Missing}]]
    BY DEF OrderInv, OrchestratorTyped, Register, ChartState, Nothing
  <2>3. activation_order' \in Seq(DOMAIN entries')
    BY <1>1 DEF OrderInv, OrchestratorTyped, Register
  <2> QED
    BY <1>0, <1>1, <2>1, <2>2, <2>3 DEF OrderInv, OrchestratorTyped, Register, Quiet
<1>3. RunOk'
  BY <1>1, SoundStays DEF OrderInv, RunOk, Register, Loading
<1>4. Placed' /\ Activated' /\ Destroyed'
  BY DEF OrderInv, Register, Placed, Activated, Destroyed, Loading, Stopping
<1> QED
  BY <1>2, <1>3, <1>4, QuietIsOk DEF OrderInv, Register

LEMMA BootstrapKeeps == ASSUME RegistryIsRight, OrderInv, Bootstrap PROVE OrderInv'
<1>1. meta' = meta /\ entries' = entries /\ born' = born /\ count' = count /\ state' = state /\ holds' = holds
      /\ activation_order' = activation_order
  BY DEF Bootstrap, runtimes
<1>2. OrchestratorTyped
  BY DEF OrderInv
<1>3. CASE ~IsOk(ResolveOrder(entries))
  <2>1. End("failed") /\ Quiet /\ UNCHANGED <<meta, runtimes, activation_order>>
    BY <1>3 DEF Bootstrap
  <2> QED
    BY <1>1, <1>2, <2>1, EndKeeps DEF OrchestratorTyped, Result
<1>4. CASE IsOk(ResolveOrder(entries))
  <2>1. Sound(order') /\ DOMAIN entries \subseteq ToSet(order') /\ order' \in Seq(Modules)
    BY <1>2, <1>4, OrderIsSound DEF Bootstrap
  <2>2. stage' = "next" /\ at' = 1 /\ todo' = todo /\ result' = result /\ hook' = Missing
    BY <1>4 DEF Bootstrap, Go, Quiet
  <2>3. OrchestratorTyped'
    BY <1>1, <1>2, <2>1, <2>2 DEF OrchestratorTyped, Stages
  <2>4. RunOk'
    BY <1>1, <2>1 DEF OrderInv, RunOk, Sound, Imports
  <2>5. Placed' /\ Activated' /\ Destroyed'
    <3>1. Len(order') \in Nat /\ DOMAIN order' \subseteq Nat \ {0}
      BY <2>1
    <3> QED
      BY <2>2, <3>1 DEF Placed, Activated, Destroyed, Loading, Stopping
  <2> QED
    BY <2>3, <2>4, <2>5, QuietIsOk DEF OrderInv, Bootstrap
<1> QED
  BY <1>3, <1>4

\* While a module is loaded, its imports are active and it is none of them.
LEMMA CurrentModule ==
  ASSUME OrderInv, stage \in Loading, at <= Len(order)
  PROVE  /\ at \in DOMAIN order /\ Current = order[at] /\ Current \in Modules /\ Current \in DOMAIN entries
         /\ entries[Current] = meta[Current]
         /\ \A k \in DOMAIN order : k < at => order[k] # Current
         /\ \A i \in Imports(Current) : i \in DOMAIN entries /\ i # Current /\ state[i] = "active"
<1>1. order \in Seq(DOMAIN entries) /\ at \in Nat /\ at > 0 /\ Sound(order)
  BY DEF OrderInv, RunOk, Placed, Sound
<1>2. at \in DOMAIN order /\ DOMAIN order \subseteq Nat
  BY <1>1
<1>3. Current = order[at]
  BY DEF Current, Loading
<1>4. Current \in DOMAIN entries
  BY <1>1, <1>2, <1>3
<1>5. Current \in Modules /\ entries[Current] = meta[Current]
  BY <1>4, EntriesOfRegistry DEF OrderInv
<1>6. \A k \in DOMAIN order : k < at => order[k] # Current
  BY <1>1, <1>2, <1>3 DEF Sound
<1>7. ASSUME NEW i \in Imports(Current)
      PROVE  i \in DOMAIN entries /\ i # Current /\ state[i] = "active"
  <2>1. PICK k \in DOMAIN order : order[k] = i /\ k < at
    BY <1>1, <1>2, <1>3 DEF Sound
  <2>2. i \in DOMAIN entries
    BY <1>1, <2>1
  <2> QED
    BY <1>6, <2>1, <2>2 DEF OrderInv, Activated
<1> QED
  BY <1>2, <1>3, <1>4, <1>5, <1>6, <1>7

\* A step of the loop that changes the state of the module it is at.
LEMMA LoadingKeeps ==
  ASSUME OrderInv, stage \in Loading, at <= Len(order), stage' \in Loading \ {"next"},
         UNCHANGED <<meta, runtimes, order, activation_order, at, result>>,
         todo' \in Seq(Modules), hook' \in Hooks \cup {Missing}, HooksInOrder',
         state' \in [Modules -> ChartState], \A m \in Modules \ {Current} : state'[m] = state[m],
         holds' \in [Modules -> [Types -> Singleton \cup {Missing}]]
  PROVE  OrderInv'
<1>1. meta' = meta /\ entries' = entries /\ born' = born /\ count' = count /\ activation_order' = activation_order
      /\ order' = order /\ at' = at /\ result' = result
  BY DEF runtimes
<1>2. OrchestratorTyped'
  BY <1>1 DEF OrderInv, OrchestratorTyped, Stages, Loading
<1>3. RunOk'
  BY <1>1 DEF OrderInv, RunOk, Sound, Imports, Loading
<1>4. Placed' /\ Destroyed'
  BY <1>1 DEF OrderInv, Placed, Destroyed, Loading, Stopping
<1>5. Activated'
  <2>1. ASSUME NEW k \in DOMAIN order, k < at PROVE state'[order[k]] = "active"
    <3>1. order[k] \in Modules /\ order[k] # Current
      BY <2>1, CurrentModule DEF OrderInv, RunOk
    <3> QED
      BY <2>1, <3>1 DEF OrderInv, Activated
  <2> QED
    BY <1>1, <2>1 DEF Activated, Loading
<1> QED
  BY <1>2, <1>3, <1>4, <1>5 DEF OrderInv

\* The imports of a module, and the global modules, are what it is seeded from.
LEMMA SourcesOfCurrent ==
  ASSUME RegistryIsRight, OrderInv, stage \in Loading, at <= Len(order)
  PROVE  LET sources == ImportSources(entries, Current).value
         IN  /\ sources \in Seq(Modules)
             /\ ToSet(sources) = Imports(Current) \cup {g \in DOMAIN entries \ {Current} : entries[g].global}
<1>1. SourcesRight(entries)
  BY EntriesOfRegistry DEF RegistryIsRight, OrderInv
<1>2. Current \in DOMAIN entries /\ ToSet(entries[Current].imports) = Imports(Current)
      /\ Imports(Current) \subseteq DOMAIN entries
  BY CurrentModule DEF Imports
<1> QED
  BY <1>1, <1>2 DEF SourcesRight

Rows == [Types -> Singleton \cup {Missing}]

\* A container whose content is replaced.
LEMMA RowReplaced ==
  ASSUME OrderInv, NEW m \in Modules, NEW row \in Rows, holds' = [holds EXCEPT ![m] = row]
  PROVE  holds' \in [Modules -> Rows] /\ holds'[m] = row /\ \A n \in Modules \ {m} : holds'[n] = holds[n]
<1>1. holds \in [Modules -> Rows]
  BY DEF OrderInv, OrchestratorTyped, Rows
<1> QED
  BY <1>1

LEMMA SeedCopies ==
  ASSUME OrderInv, SeedSource, IsOk(PublicSurface(entries, Head(todo)))
  PROVE  /\ holds' \in [Modules -> Rows] /\ \A m \in Modules \ {Current} : holds'[m] = holds[m]
         /\ \A T \in Types : holds'[Current][T] =
              IF T \in PublicSurface(entries, Head(todo)).value /\ holds[Head(todo)][T] # Missing
              THEN holds[Head(todo)][T] ELSE holds[Current][T]
<1> DEFINE surface == PublicSurface(entries, Head(todo)).value  offered == holds[Head(todo)]
           row == [T \in Types |-> IF T \in surface /\ offered[T] # Missing THEN offered[T] ELSE holds[Current][T]]
<1>1. Current \in Modules /\ Head(todo) \in Modules
  <2>1. stage \in Loading /\ at <= Len(order)
    BY DEF SeedSource, OrderInv, Placed, Loading
  <2>2. Current \in Modules
    BY <2>1, CurrentModule
  <2>3. todo \in Seq(Modules) /\ todo # <<>>
    BY DEF OrderInv, OrchestratorTyped, SeedSource
  <2> QED
    BY <2>2, <2>3
<1>2. holds' = [holds EXCEPT ![Current] = row]
  BY DEF SeedSource
<1>3. holds[Current] \in Rows /\ offered \in Rows
  BY <1>1 DEF OrderInv, OrchestratorTyped, Rows
<1> HIDE DEF surface, offered
<1>4. row \in Rows
  BY <1>3 DEF Rows
<1>5. \A T \in Types : row[T] = IF T \in surface /\ offered[T] # Missing THEN offered[T] ELSE holds[Current][T]
  OBVIOUS
<1> HIDE DEF row
<1> QED
  BY <1>1, <1>2, <1>4, <1>5, RowReplaced DEF surface, offered

LEMMA NextModuleKeeps == ASSUME RegistryIsRight, OrderInv, NextModule PROVE OrderInv'
<1>1. meta' = meta /\ entries' = entries /\ born' = born /\ count' = count /\ activation_order' = activation_order
      /\ order' = order /\ state' = state /\ holds' = holds /\ at' \in {at, 1} /\ result' = result /\ hook' = Missing
      /\ stage = "next" /\ HooksInOrder'
  BY QuietIsOk DEF NextModule, runtimes, Go, Quiet
<1>2. state \in [Modules -> ChartState] /\ holds \in [Modules -> [Types -> Singleton \cup {Missing}]]
  BY DEF OrderInv, OrchestratorTyped
<1>3. CASE at <= Len(order)
  <2>1. stage' = "seed" /\ at' = at /\ todo' = ImportSources(entries, Current).value
    BY <1>3 DEF NextModule, Go
  <2>2. todo' \in Seq(Modules)
    BY <1>1, <1>3, <2>1, SourcesOfCurrent DEF Loading
  <2> QED
    BY <1>1, <1>2, <1>3, <2>1, <2>2, LoadingKeeps DEF Loading, runtimes
<1>4. CASE ~(at <= Len(order))
  <2>1. stage' = "bootstrap_hooks" /\ at' = 1 /\ todo' = todo
    BY <1>4 DEF NextModule, Go
  <2>2. Sound(order) /\ DOMAIN entries \subseteq ToSet(order) /\ order \in Seq(Modules)
    BY <1>1 DEF OrderInv, RunOk, Loading
  <2>3. ASSUME NEW n \in DOMAIN entries PROVE state[n] = "active"
    <3>1. PICK k \in DOMAIN order : order[k] = n
      BY <2>2 DEF ToSet
    <3>2. k < at
      BY <1>4, <2>2 DEF OrderInv, Placed
    <3> QED
      BY <1>1, <3>1, <3>2 DEF OrderInv, Activated, Loading
  <2>4. OrchestratorTyped'
    BY <1>1, <2>1 DEF OrderInv, OrchestratorTyped, Stages
  <2>5. RunOk'
    BY <1>1, <2>1, <2>2 DEF OrderInv, RunOk, Sound, Imports
  <2>6. Placed' /\ Activated' /\ Destroyed'
    BY <1>1, <2>1, <2>3 DEF Placed, Activated, Destroyed, Loading, Stopping
  <2> QED
    BY <1>1, <2>4, <2>5, <2>6 DEF OrderInv
<1> QED
  BY <1>3, <1>4

LEMMA SeedSourceKeeps == ASSUME OrderInv, SeedSource PROVE OrderInv'
<1>1. stage = "seed" /\ at <= Len(order) /\ state' = state /\ Quiet /\ HooksInOrder' /\ hook' = Missing
  BY QuietIsOk DEF SeedSource, OrderInv, Placed, Loading, Quiet
<1>2. Current \in Modules /\ todo \in Seq(Modules) /\ todo # <<>>
  BY <1>1, CurrentModule DEF OrderInv, OrchestratorTyped, SeedSource, Loading
<1>3. Head(todo) \in Modules /\ Tail(todo) \in Seq(Modules)
  BY <1>2
<1>4. state' \in [Modules -> ChartState] /\ holds \in [Modules -> [Types -> Singleton \cup {Missing}]]
  BY <1>1 DEF OrderInv, OrchestratorTyped
<1>5. CASE IsOk(PublicSurface(entries, Head(todo)))
  <2>1. UNCHANGED <<meta, runtimes, order, activation_order, at, result>> /\ stage' = stage /\ todo' = Tail(todo)
    BY <1>5 DEF SeedSource
  <2>2. holds' \in [Modules -> [Types -> Singleton \cup {Missing}]]
    BY <1>5, SeedCopies DEF Rows
  <2> QED
    BY <1>1, <1>3, <1>4, <2>1, <2>2, LoadingKeeps DEF Loading
<1>6. CASE ~IsOk(PublicSurface(entries, Head(todo)))
  <2>1. End("failed") /\ holds' = holds /\ UNCHANGED <<meta, runtimes, activation_order>>
    BY <1>6 DEF SeedSource
  <2> QED
    BY <1>1, <1>4, <2>1, EndKeeps DEF Result
<1> QED
  BY <1>5, <1>6

LEMMA StartLoadKeeps == ASSUME OrderInv, StartLoad PROVE OrderInv'
<1>1. stage = "seed" /\ at <= Len(order) /\ Quiet /\ HooksInOrder' /\ hook' = Missing /\ holds' = holds
      /\ todo = <<>> /\ UNCHANGED <<meta, runtimes, activation_order>>
  BY QuietIsOk DEF StartLoad, OrderInv, Placed, Loading, Quiet
<1>2. Current \in Modules /\ state \in [Modules -> ChartState] /\ holds \in [Modules -> [Types -> Singleton \cup {Missing}]]
  BY <1>1, CurrentModule DEF OrderInv, OrchestratorTyped, Loading
<1>3. CASE state[Current] = "unloaded"
  <2>1. state' = [state EXCEPT ![Current] = "registering_providers"] /\ stage' = "configure"
        /\ at' = at /\ todo' = todo /\ order' = order /\ result' = result
    BY <1>3 DEF StartLoad, Go
  <2>2. state' \in [Modules -> ChartState] /\ \A m \in Modules \ {Current} : state'[m] = state[m]
    BY <1>2, <2>1 DEF ChartState
  <2>3. todo' \in Seq(Modules)
    BY <2>1 DEF OrderInv, OrchestratorTyped
  <2> QED
    BY <1>1, <1>2, <2>1, <2>2, <2>3, LoadingKeeps DEF Loading
<1>4. CASE state[Current] # "unloaded"
  <2>1. End("failed") /\ state' = state
    BY <1>4 DEF StartLoad
  <2> QED
    BY <1>1, <1>2, <2>1, EndKeeps DEF Result
<1> QED
  BY <1>3, <1>4

\* What configure registers displaces what was imported.
LEMMA Displaced ==
  ASSUME OrderInv, Current \in Modules, NEW S, Displace(S)
  PROVE  /\ holds' \in [Modules -> Rows] /\ \A m \in Modules \ {Current} : holds'[m] = holds[m]
         /\ \A T \in Types : holds'[Current][T] = IF T \in S THEN Missing ELSE holds[Current][T]
<1> DEFINE row == [T \in Types |-> IF T \in S THEN Missing ELSE holds[Current][T]]
<1>1. holds' = [holds EXCEPT ![Current] = row]
  BY DEF Displace
<1>2. holds[Current] \in Rows
  BY DEF OrderInv, OrchestratorTyped, Rows
<1>3. row \in Rows
  BY <1>2 DEF Rows
<1> HIDE DEF row
<1>4. holds' \in [Modules -> Rows] /\ holds'[Current] = row /\ \A m \in Modules \ {Current} : holds'[m] = holds[m]
  BY <1>1, <1>3, RowReplaced
<1> QED
  BY <1>4 DEF row

\* What initialize builds is named by the module and its registration.
LEMMA BuiltNew ==
  ASSUME OrderInv, Current \in Modules, NEW S, Built(S)
  PROVE  /\ holds' \in [Modules -> Rows] /\ \A m \in Modules \ {Current} : holds'[m] = holds[m]
         /\ \A T \in Types : T \notin S => holds'[Current][T] = holds[Current][T]
<1> DEFINE made == [by |-> Current, born |-> born[Current]]
           row == [T \in Types |-> IF T \in S THEN made ELSE holds[Current][T]]
<1>1. holds' = [holds EXCEPT ![Current] = row]
  BY DEF Built
<1>2. holds[Current] \in Rows /\ made \in Singleton
  BY DEF OrderInv, OrchestratorTyped, Rows, Singleton
<1> HIDE DEF made
<1>3. row \in Rows
  BY <1>2 DEF Rows
<1> HIDE DEF row
<1>4. holds' \in [Modules -> Rows] /\ holds'[Current] = row /\ \A m \in Modules \ {Current} : holds'[m] = holds[m]
  BY <1>1, <1>3, RowReplaced
<1> QED
  BY <1>4 DEF row

LEMMA ConfigureKeeps == ASSUME OrderInv, Configure PROVE OrderInv'
<1>1. stage = "configure" /\ at <= Len(order) /\ HooksInOrder' /\ hook' = Missing /\ stage' = "initialize"
      /\ UNCHANGED <<meta, runtimes, activation_order, order, at, todo, result>>
  BY QuietIsOk DEF Configure, OrderInv, Placed, Loading, Quiet, Go
<1>2. Current \in Modules /\ state \in [Modules -> ChartState] /\ todo \in Seq(Modules)
  BY <1>1, CurrentModule DEF OrderInv, OrchestratorTyped, Loading
<1>3. state' \in [Modules -> ChartState] /\ \A m \in Modules \ {Current} : state'[m] = state[m]
  BY <1>2 DEF ChartState, Configure
<1>4. holds' \in [Modules -> [Types -> Singleton \cup {Missing}]]
  BY <1>2, Displaced DEF Configure, Rows
<1> QED
  BY <1>1, <1>2, <1>3, <1>4, LoadingKeeps DEF Loading

LEMMA ConfigureFailsKeeps == ASSUME OrderInv, ConfigureFails PROVE OrderInv'
<1>1. stage = "configure" /\ at <= Len(order) /\ Quiet /\ state' = state /\ End("failed")
      /\ UNCHANGED <<meta, runtimes, activation_order>>
  BY DEF ConfigureFails, OrderInv, Placed, Loading
<1>2. Current \in Modules /\ state \in [Modules -> ChartState]
  BY <1>1, CurrentModule DEF OrderInv, OrchestratorTyped, Loading
<1>3. holds' \in [Modules -> [Types -> Singleton \cup {Missing}]]
  BY <1>2, Displaced DEF ConfigureFails, Rows
<1> QED
  BY <1>1, <1>2, <1>3, EndKeeps DEF Result

LEMMA InitializeKeeps == ASSUME OrderInv, Initialize PROVE OrderInv'
<1>1. stage = "initialize" /\ at <= Len(order) /\ stage' = "init_hook" /\ hook' = [name |-> "init", module |-> Current]
      /\ UNCHANGED <<meta, runtimes, activation_order, order, at, todo, result>>
  BY DEF Initialize, OrderInv, Placed, Loading, Call, Go
<1>2. Current \in Modules /\ state \in [Modules -> ChartState] /\ todo \in Seq(Modules)
  BY <1>1, CurrentModule DEF OrderInv, OrchestratorTyped, Loading
<1>3. state' \in [Modules -> ChartState] /\ \A m \in Modules \ {Current} : state'[m] = state[m]
  BY <1>2 DEF ChartState, Initialize
<1>4. holds' \in [Modules -> [Types -> Singleton \cup {Missing}]]
  BY <1>2, BuiltNew DEF Initialize, Rows
<1>5. hook' \in Hooks
  BY <1>1, <1>2 DEF Hooks
<1>6. HooksInOrder'
  <2>1. meta' = meta /\ entries' = entries
    BY <1>1 DEF runtimes
  <2>2. \A i \in Imports(Current) : i \in DOMAIN entries /\ state'[i] = "active"
    <3>1. \A i \in Imports(Current) : i \in DOMAIN entries /\ i # Current /\ state[i] = "active"
      BY <1>1, CurrentModule DEF Loading
    <3>2. DOMAIN entries \subseteq Modules
      BY DEF OrderInv, OrchestratorTyped
    <3> QED
      BY <1>3, <3>1, <3>2
  <2>3. InitAfterImports'
    <3>1. SUFFICES ASSUME NEW m \in Modules, hook' = [name |-> "init", module |-> m]
                   PROVE  \A i \in Imports(m) : i \in DOMAIN entries /\ state'[i] = "active"
      BY <2>1 DEF InitAfterImports, Calling, Imports
    <3>2. m = Current
      BY <1>1, <3>1
    <3> QED
      BY <2>2, <3>2
  <2>4. hook'.name = "init"
    BY <1>1
  <2>5. BootstrapAfterAll' /\ DestroyOrder'
    BY <2>4 DEF BootstrapAfterAll, DestroyOrder, Calling
  <2> QED
    BY <2>3, <2>5 DEF HooksInOrder
<1> QED
  BY <1>1, <1>2, <1>3, <1>4, <1>5, <1>6, LoadingKeeps DEF Loading

LEMMA InitializeFailsKeeps == ASSUME OrderInv, InitializeFails PROVE OrderInv'
<1>1. stage = "initialize" /\ at <= Len(order) /\ Quiet /\ End("failed")
      /\ UNCHANGED <<meta, runtimes, activation_order>>
  BY DEF InitializeFails, OrderInv, Placed, Loading
<1>2. Current \in Modules /\ state \in [Modules -> ChartState]
  BY <1>1, CurrentModule DEF OrderInv, OrchestratorTyped, Loading
<1>3. holds' \in [Modules -> [Types -> Singleton \cup {Missing}]]
  BY <1>2, BuiltNew DEF InitializeFails, Rows
<1>4. state' \in [Modules -> ChartState]
  BY <1>2 DEF InitializeFails, ChartState
<1> QED
  BY <1>1, <1>3, <1>4, EndKeeps DEF Result

LEMMA ActivateKeeps == ASSUME OrderInv, Activate PROVE OrderInv'
<1>1. stage = "init_hook" /\ at <= Len(order) /\ HooksInOrder' /\ hook' = Missing /\ stage' = "next" /\ at' = at + 1
      /\ meta' = meta /\ entries' = entries /\ born' = born /\ count' = count /\ holds' = holds
      /\ activation_order' = activation_order /\ order' = order /\ todo' = todo /\ result' = result
      /\ state' = [state EXCEPT ![Current] = "active"]
  BY QuietIsOk DEF Activate, OrderInv, Placed, Loading, Quiet, Go, runtimes
<1>2. at \in DOMAIN order /\ Current = order[at] /\ Current \in Modules /\ state \in [Modules -> ChartState]
      /\ order \in Seq(Modules) /\ at \in Nat
  BY <1>1, CurrentModule DEF OrderInv, OrchestratorTyped, Loading
<1>3. OrchestratorTyped'
  BY <1>1, <1>2 DEF OrderInv, OrchestratorTyped, Stages, ChartState
<1>4. RunOk'
  BY <1>1 DEF OrderInv, RunOk, Sound, Imports, Loading
<1>5. Placed' /\ Destroyed'
  <2>1. at + 1 \in Nat /\ at + 1 > 0 /\ at + 1 <= Len(order) + 1
    BY <1>1, <1>2
  <2> QED
    BY <1>1, <2>1 DEF Placed, Destroyed, Loading, Stopping
<1>6. Activated'
  <2>1. ASSUME NEW k \in DOMAIN order, k < at + 1 PROVE state'[order[k]] = "active"
    <3>1. k < at \/ k = at
      BY <1>2, <2>1
    <3> QED
      BY <1>1, <1>2, <3>1 DEF OrderInv, Activated, Loading
  <2> QED
    BY <1>1, <2>1 DEF Activated, Loading
<1> QED
  BY <1>1, <1>3, <1>4, <1>5, <1>6 DEF OrderInv

LEMMA BootstrapHookKeeps == ASSUME OrderInv, BootstrapHook PROVE OrderInv'
<1>1. stage = "bootstrap_hooks" /\ meta' = meta /\ entries' = entries /\ born' = born /\ count' = count
      /\ holds' = holds /\ state' = state /\ at \in Nat /\ at > 0
      /\ Sound(order) /\ DOMAIN entries \subseteq ToSet(order) /\ order \in Seq(Modules)
  BY DEF BootstrapHook, OrderInv, RunOk, Placed, Loading, runtimes
<1>2. CASE at <= Len(order)
  <2>1. hook' = [name |-> "bootstrap", module |-> order[at]] /\ at' = at + 1
        /\ stage' = stage /\ todo' = todo /\ order' = order /\ activation_order' = activation_order /\ result' = result
    BY <1>2 DEF BootstrapHook, Call
  <2>2. order[at] \in Modules
    BY <1>1, <1>2
  <2>3. hook' \in Hooks /\ hook'.name = "bootstrap"
    BY <2>1, <2>2 DEF Hooks
  <2>4. OrchestratorTyped'
    BY <1>1, <2>1, <2>3, SMTT(30) DEF OrderInv, OrchestratorTyped
  <2>5. RunOk'
    BY <1>1, <2>1 DEF OrderInv, RunOk, Sound, Imports
  <2>6. Placed' /\ Activated' /\ Destroyed'
    BY <1>1, <2>1 DEF OrderInv, Placed, Activated, Destroyed, Loading, Stopping
  <2>7. BootstrapAfterAll'
    BY <1>1 DEF OrderInv, Activated, BootstrapAfterAll
  <2>8. InitAfterImports' /\ DestroyOrder'
    BY <2>3 DEF InitAfterImports, DestroyOrder, Calling
  <2> QED
    BY <2>4, <2>5, <2>6, <2>7, <2>8 DEF OrderInv, HooksInOrder
<1>3. CASE ~(at <= Len(order))
  <2>1. End("bootstrapped") /\ activation_order' = order /\ hook' = Missing /\ HooksInOrder'
    BY <1>3, QuietIsOk DEF BootstrapHook, Quiet
  <2>2. OrchestratorTyped'
    <3>1. <<>> \in Seq(Modules) /\ order \in Seq(DOMAIN entries)
      BY <1>1 DEF Sound
    <3> QED
      BY <1>1, <2>1, <3>1 DEF OrderInv, OrchestratorTyped, End, Stages, Result
  <2>3. RunOk'
    BY <1>1, <2>1 DEF OrderInv, RunOk, Sound, Imports, End, Loading
  <2>4. Placed' /\ Activated' /\ Destroyed'
    BY <2>1 DEF End, Placed, Activated, Destroyed, Loading, Stopping
  <2> QED
    BY <2>1, <2>2, <2>3, <2>4 DEF OrderInv
<1> QED
  BY <1>2, <1>3

LEMMA ShutdownKeeps == ASSUME OrderInv, Shutdown PROVE OrderInv'
<1>1. meta' = meta /\ entries' = entries /\ born' = born /\ count' = count /\ holds' = holds /\ state' = state
      /\ activation_order' = activation_order /\ order' = order /\ todo' = todo /\ result' = result
      /\ stage' = "shutdown_hooks" /\ at' = Len(activation_order) /\ hook' = Missing /\ HooksInOrder'
  BY QuietIsOk DEF Shutdown, runtimes, Go, Quiet
<1>2. Len(activation_order) \in Nat
  BY DEF OrderInv, OrchestratorTyped
<1>3. OrchestratorTyped' /\ RunOk'
  BY <1>1, <1>2 DEF OrderInv, OrchestratorTyped, Stages, RunOk, Sound, Imports, Loading
<1>4. Placed' /\ Activated' /\ Destroyed'
  BY <1>1, <1>2 DEF Placed, Activated, Destroyed, Loading, Stopping
<1> QED
  BY <1>1, <1>3, <1>4 DEF OrderInv

LEMMA ShutdownHookKeeps == ASSUME OrderInv, ShutdownHook PROVE OrderInv'
<1>1. stage = "shutdown_hooks" /\ meta' = meta /\ entries' = entries /\ born' = born /\ count' = count
      /\ holds' = holds /\ state' = state /\ activation_order' = activation_order /\ order' = order
      /\ todo' = todo /\ result' = result
  BY DEF ShutdownHook, runtimes
<1>2. Len(activation_order) \in Nat /\ at \in Nat /\ at <= Len(activation_order)
      /\ activation_order \in Seq(DOMAIN entries) /\ DOMAIN entries \subseteq Modules
  BY <1>1 DEF OrderInv, OrchestratorTyped, Placed, Stopping
<1>3. CASE at > 0
  <2>1. hook' = [name |-> "shutdown", module |-> activation_order[at]] /\ at' = at - 1 /\ stage' = stage
    BY <1>3 DEF ShutdownHook, Call
  <2>2. activation_order[at] \in Modules
    BY <1>2, <1>3
  <2>3. hook' \in Hooks /\ hook'.name = "shutdown"
    BY <2>1, <2>2 DEF Hooks
  <2>4. at - 1 \in Nat /\ at - 1 <= Len(activation_order)
    BY <1>2, <1>3
  <2>5. OrchestratorTyped' /\ RunOk'
    BY <1>1, <2>1, <2>3, <2>4 DEF OrderInv, OrchestratorTyped, RunOk, Sound, Imports, Loading
  <2>6. Placed' /\ Activated' /\ Destroyed'
    BY <1>1, <2>1, <2>4 DEF Placed, Activated, Destroyed, Loading, Stopping
  <2>7. HooksInOrder'
    BY <2>3 DEF HooksInOrder, InitAfterImports, BootstrapAfterAll, DestroyOrder, Calling
  <2> QED
    BY <2>5, <2>6, <2>7 DEF OrderInv
<1>4. CASE ~(at > 0)
  <2>1. stage' = "destroy" /\ at' = Len(activation_order) /\ hook' = Missing /\ HooksInOrder'
    BY <1>4, QuietIsOk DEF ShutdownHook, Go, Quiet
  <2>2. OrchestratorTyped' /\ RunOk'
    BY <1>1, <1>2, <2>1 DEF OrderInv, OrchestratorTyped, Stages, RunOk, Sound, Imports, Loading
  <2>3. \A k \in DOMAIN activation_order : ~(k > Len(activation_order))
    BY <1>2
  <2>4. Placed' /\ Activated' /\ Destroyed'
    BY <1>1, <1>2, <2>1, <2>3 DEF Placed, Activated, Destroyed, Loading, Stopping
  <2> QED
    BY <2>1, <2>2, <2>4 DEF OrderInv
<1> QED
  BY <1>3, <1>4

\* The module shutdown is at.
LEMMA DestroyedModule ==
  ASSUME OrderInv, stage \in {"destroy", "destroy_hook"}, at > 0
  PROVE  /\ at \in DOMAIN activation_order /\ at \in Nat /\ at <= Len(activation_order)
         /\ Current = activation_order[at] /\ Current \in Modules
         /\ \A k \in DOMAIN activation_order : k > at => activation_order[k] # Current /\ k \in Nat
         /\ \A k \in DOMAIN activation_order : activation_order[k] \in Modules
<1>1. activation_order \in Seq(DOMAIN entries) /\ at \in Nat /\ at <= Len(activation_order)
      /\ DOMAIN entries \subseteq Modules
  BY DEF OrderInv, OrchestratorTyped, Placed, Stopping
<1>2. at \in DOMAIN activation_order /\ DOMAIN activation_order \subseteq Nat
  BY <1>1
<1>3. Current = activation_order[at]
  BY DEF Current
<1>4. \A k \in DOMAIN activation_order : activation_order[k] \in Modules
  BY <1>1
<1>5. \A k \in DOMAIN activation_order : k > at => activation_order[k] # Current /\ k \in Nat
  BY <1>2, <1>3 DEF OrderInv, RunOk, Sound
<1> QED
  BY <1>1, <1>2, <1>3, <1>4, <1>5

LEMMA BeginDestroyKeeps == ASSUME OrderInv, BeginDestroy PROVE OrderInv'
<1>1. stage = "destroy" /\ meta' = meta /\ entries' = entries /\ born' = born /\ count' = count
      /\ holds' = holds /\ activation_order' = activation_order /\ at > 0
      /\ UNCHANGED <<meta, runtimes, activation_order>>
  BY DEF BeginDestroy, runtimes
<1>2. at \in Nat /\ at <= Len(activation_order) /\ Current = activation_order[at] /\ Current \in Modules
  BY <1>1, DestroyedModule
<1>3. CASE state[Current] = "active"
  <2>1. state' = [state EXCEPT ![Current] = "destroying"] /\ stage' = "destroy_hook" /\ result' = result
        /\ hook' = [name |-> "destroy", module |-> Current] /\ at' = at /\ todo' = todo /\ order' = order
    BY <1>3 DEF BeginDestroy, Call, Go
  <2>2. hook' \in Hooks /\ hook'.name = "destroy" /\ hook'.module = Current
    BY <1>2, <2>1 DEF Hooks
  <2>3. OrchestratorTyped' /\ RunOk'
    BY <1>1, <1>2, <2>1, <2>2 DEF OrderInv, OrchestratorTyped, Stages, ChartState, RunOk, Sound, Imports, Loading
  <2>4. \A m \in Modules \ {Current} : state'[m] = state[m]
    BY <1>2, <2>1 DEF OrderInv, OrchestratorTyped
  <2>5. \A k \in DOMAIN activation_order : k > at => state'[activation_order[k]] = "destroyed"
    BY <1>1, <2>4, DestroyedModule DEF OrderInv, Destroyed
  <2>6. Placed' /\ Activated' /\ Destroyed'
    BY <1>1, <1>2, <2>1, <2>5 DEF Placed, Activated, Destroyed, Loading, Stopping
  <2>7. ASSUME NEW n \in ToSet(activation_order), Current \in Imports(n) PROVE state'[n] # "active"
    <3>1. PICK j \in DOMAIN activation_order : activation_order[j] = n
      BY DEF ToSet
    <3>2. PICK k \in DOMAIN activation_order : activation_order[k] = Current /\ k < j
      BY <2>7, <3>1 DEF OrderInv, RunOk, Sound
    <3>3. at < j
      BY <1>1, <3>2, DestroyedModule DEF OrderInv, RunOk, Sound
    <3> QED
      BY <2>5, <3>1, <3>3
  <2>8. DestroyOrder'
    <3>1. SUFFICES ASSUME NEW m \in Modules, hook' = [name |-> "destroy", module |-> m]
                   PROVE  \A n \in ToSet(activation_order) : m \in Imports(n) => state'[n] # "active"
      BY <1>1 DEF DestroyOrder, Calling, Imports
    <3>2. m = Current
      BY <2>2, <3>1
    <3> QED
      BY <2>7, <3>2
  <2>9. InitAfterImports' /\ BootstrapAfterAll'
    BY <2>2 DEF InitAfterImports, BootstrapAfterAll, Calling
  <2> QED
    BY <2>3, <2>6, <2>8, <2>9 DEF OrderInv, HooksInOrder
<1>4. CASE state[Current] # "active"
  <2>1. End("failed") /\ Quiet /\ state' = state
    BY <1>4 DEF BeginDestroy
  <2> QED
    BY <1>1, <2>1, EndKeeps DEF Result, OrderInv, OrchestratorTyped
<1> QED
  BY <1>3, <1>4

LEMMA CompleteDestroyKeeps == ASSUME OrderInv, CompleteDestroy PROVE OrderInv'
<1>1. stage = "destroy_hook" /\ meta' = meta /\ entries' = entries /\ born' = born /\ count' = count
      /\ holds' = holds /\ activation_order' = activation_order /\ order' = order /\ todo' = todo /\ result' = result
      /\ stage' = "destroy" /\ at' = at - 1 /\ at > 0 /\ hook' = Missing /\ HooksInOrder'
      /\ state' = [state EXCEPT ![Current] = "destroyed"]
  BY QuietIsOk DEF CompleteDestroy, runtimes, Go, Quiet, OrderInv, Placed
<1>2. at \in Nat /\ at <= Len(activation_order) /\ Current = activation_order[at] /\ Current \in Modules
  BY <1>1, DestroyedModule
<1>3. at - 1 \in Nat /\ at - 1 <= Len(activation_order)
  BY <1>1, <1>2, DestroyedModule
<1>4. OrchestratorTyped' /\ RunOk'
  BY <1>1, <1>2, <1>3 DEF OrderInv, OrchestratorTyped, Stages, ChartState, RunOk, Sound, Imports, Loading
<1>5. ASSUME NEW k \in DOMAIN activation_order, k > at - 1 PROVE state'[activation_order[k]] = "destroyed"
  <2>1. activation_order[k] \in Modules /\ (k > at \/ k = at)
    BY <1>1, <1>5, DestroyedModule
  <2> QED
    BY <1>1, <1>2, <2>1 DEF OrderInv, OrchestratorTyped, Destroyed
<1>6. Placed' /\ Activated' /\ Destroyed'
  BY <1>1, <1>3, <1>5 DEF Placed, Activated, Destroyed, Loading, Stopping
<1> QED
  BY <1>1, <1>4, <1>6 DEF OrderInv

LEMMA OrderStep == RegistryIsRight /\ OrderInv /\ [OrchestratorNext]_orchestratorVars => OrderInv'
<1> SUFFICES ASSUME RegistryIsRight, OrderInv, [OrchestratorNext]_orchestratorVars PROVE OrderInv'
  OBVIOUS
<1>1. CASE UNCHANGED orchestratorVars
  <2>1. meta' = meta /\ entries' = entries /\ born' = born /\ count' = count /\ holds' = holds /\ state' = state
        /\ activation_order' = activation_order /\ order' = order /\ todo' = todo /\ result' = result
        /\ stage' = stage /\ at' = at /\ hook' = hook
    BY <1>1 DEF orchestratorVars
  <2>2. OrchestratorTyped' /\ RunOk'
    <3>1. OrchestratorTyped'
      BY <2>1 DEF OrderInv, OrchestratorTyped
    <3>2. RunOk'
      BY <2>1, SoundStays DEF OrderInv, RunOk, Sound, Imports
    <3> QED
      BY <3>1, <3>2
  <2>3. Placed' /\ Activated' /\ Destroyed'
    BY <2>1 DEF OrderInv, Placed, Activated, Destroyed
  <2>4. HooksInOrder'
    BY <2>1 DEF OrderInv, HooksInOrder, InitAfterImports, BootstrapAfterAll, DestroyOrder, Calling, Imports
  <2> QED
    BY <2>2, <2>3, <2>4 DEF OrderInv
<1>2. CASE EndShutdown \/ Dropped
  <2>1. state' \in [Modules -> ChartState] /\ holds' \in [Modules -> [Types -> Singleton \cup {Missing}]]
        /\ Quiet /\ UNCHANGED <<meta, runtimes, activation_order>>
    BY <1>2 DEF EndShutdown, Dropped, OrderInv, OrchestratorTyped
  <2>2. End("shut_down") \/ End("cancelled")
    BY <1>2 DEF EndShutdown, Dropped
  <2> QED
    BY <2>1, <2>2, EndKeeps DEF Result
<1>3. CASE \E m \in Modules : Register(m)
  BY <1>3, RegisterKeeps
<1> QED
  BY <1>1, <1>2, <1>3, BootstrapKeeps, NextModuleKeeps, SeedSourceKeeps, StartLoadKeeps, ConfigureKeeps,
     ConfigureFailsKeeps, InitializeKeeps, InitializeFailsKeeps, ActivateKeeps, BootstrapHookKeeps,
     ShutdownKeeps, ShutdownHookKeeps, BeginDestroyKeeps, CompleteDestroyKeeps DEF OrchestratorNext

\* Init hooks come after those of the imports, application hooks when everything is active, destroy
\* hooks before those of the imports, for any modules and whatever is registered again, fails or is
\* dropped (orchestrator.rs:340-408).
THEOREM HooksComeInOrder ==
  OrchestratorSpec => []HooksInOrder
<1>1. OrderInv => HooksInOrder
  BY DEF OrderInv
<1>2. OrderInv /\ [OrchestratorNext]_orchestratorVars => OrderInv'
  BY OrderStep, RegistryRight
<1> QED
  BY <1>1, <1>2, OrderInitial, PTL DEF OrchestratorSpec

-----------------------------------------------------------------------------
(* Sharing along the imports. *)

Filling == {"seed", "configure", "initialize"}

Sources    == ToSet(ImportSources(entries, Current).value)
Surface(s) == PublicSurface(entries, s).value

\* What the source s offers is in the container of the module at hand, from s or another
\* source, unless the module provides the type itself.
Copied(s) ==
  /\ IsOk(PublicSurface(entries, s))
  /\ \A T \in Surface(s) : holds[s][T] # Missing =>
       \/ T \in meta[Current].provides
       \/ \E p \in Sources : T \in Surface(p) /\ holds[Current][T] = holds[p][T]

SeedOk ==
  /\ stage = "seed" => ToSet(todo) \subseteq Sources
  /\ stage \in {"configure", "initialize"} => todo = <<>>
  /\ stage \in Filling => \A s \in Sources : s \in ToSet(todo) \/ Copied(s)

SharedInv == OrderInv /\ SeedOk /\ ImportsShared /\ NothingHidden

\* What the registry lets a module see of a type.
Visible(m, T) ==
  \/ T \in meta[m].provides
  \/ \E s \in Modules \ {m} : (s \in Imports(m) \/ meta[s].global) /\ T \in meta[s].exports

\* A container that gains nothing but what may be seen hides nothing.
LEMMA HiddenStays ==
  ASSUME SharedInv, meta' = meta, DOMAIN entries' = DOMAIN entries,
         \A m \in DOMAIN entries : \A T \in Types : holds'[m][T] # Missing => holds[m][T] # Missing \/ Visible(m, T)
  PROVE  NothingHidden'
<1>1. \A m \in DOMAIN entries : \A T \in Types : holds[m][T] # Missing => Visible(m, T)
  BY DEF SharedInv, NothingHidden, Visible
<1>2. \A m \in DOMAIN entries' : \A T \in Types : holds'[m][T] # Missing => Visible(m, T)
  BY <1>1
<1> QED
  BY <1>2 DEF NothingHidden, Visible, Imports

LEMMA NoInitHook == (hook' = Missing \/ hook'.name # "init") => ImportsShared'
BY OrchestratorAssumption DEF ImportsShared, Calling, Hooks

\* A step outside the seeding of a module that leaves the containers alone.
LEMMA SharedFrame ==
  ASSUME SharedInv, OrderInv', UNCHANGED <<meta, runtimes, holds>>, stage' \notin Filling,
         hook' = Missing \/ hook'.name # "init"
  PROVE  SharedInv'
<1>1. meta' = meta /\ entries' = entries /\ holds' = holds
  BY DEF runtimes
<1>2. NothingHidden'
  BY <1>1, HiddenStays
<1>3. SeedOk'
  BY DEF SeedOk, Filling
<1> QED
  BY <1>2, <1>3, NoInitHook DEF SharedInv

LEMMA SharedInitial == OrchestratorInit => SharedInv
<1> SUFFICES ASSUME OrchestratorInit PROVE SharedInv
  OBVIOUS
<1>1. NothingHidden
  BY DEF OrchestratorInit, NothingHidden
<1>2. ImportsShared
  BY OrchestratorAssumption DEF OrchestratorInit, ImportsShared, Calling, Hooks
<1>3. SeedOk
  BY DEF OrchestratorInit, SeedOk, Filling
<1> QED
  BY <1>1, <1>2, <1>3, OrderInitial DEF SharedInv

LEMMA RegisterShares == ASSUME SharedInv, OrderInv', NEW m \in Modules, Register(m) PROVE SharedInv'
<1>1. meta' = meta /\ DOMAIN entries' = DOMAIN entries \cup {m} /\ stage' = "idle" /\ hook' = Missing
      /\ holds' = [holds EXCEPT ![m] = Nothing]
  BY DEF Register, Quiet
<1>2. NothingHidden'
  <2>1. ASSUME NEW n \in DOMAIN entries', NEW T \in Types, holds'[n][T] # Missing
        PROVE  n \in DOMAIN entries /\ holds[n][T] # Missing
    <3>1. m \in DOMAIN holds
      BY DEF SharedInv, OrderInv, OrchestratorTyped
    <3>2. n # m
      BY <1>1, <2>1, <3>1 DEF Nothing
    <3> QED
      BY <1>1, <2>1, <3>2
  <2>2. \A n \in DOMAIN entries' : \A T \in Types : holds'[n][T] # Missing => Visible(n, T)
    BY <2>1 DEF SharedInv, NothingHidden, Visible
  <2> QED
    BY <1>1, <2>2 DEF NothingHidden, Visible, Imports
<1>3. SeedOk'
  BY <1>1 DEF SeedOk, Filling
<1> QED
  BY <1>1, <1>2, <1>3, NoInitHook DEF SharedInv

\* The module at hand is none of its sources; a surface that can be computed is the exports.
LEMMA SourcesApart ==
  ASSUME RegistryIsRight, OrderInv, stage \in Loading, at <= Len(order)
  PROVE  /\ Sources \subseteq Modules \ {Current} /\ Imports(Current) \subseteq Sources
         /\ \A s \in Sources : /\ s \in DOMAIN entries /\ (s \in Imports(Current) \/ meta[s].global)
                               /\ IsOk(PublicSurface(entries, s)) => Surface(s) = meta[s].exports
<1>1. Sources = Imports(Current) \cup {g \in DOMAIN entries \ {Current} : entries[g].global}
  BY SourcesOfCurrent DEF Sources
<1>2. \A i \in Imports(Current) : i \in DOMAIN entries /\ i # Current
  BY CurrentModule
<1>3. \A m \in DOMAIN entries : m \in Modules /\ entries[m] = meta[m]
  BY EntriesOfRegistry DEF OrderInv
<1>4. SurfacesRight(entries)
  BY EntriesOfRegistry DEF RegistryIsRight, OrderInv
<1>5. \A s \in DOMAIN entries : IsOk(PublicSurface(entries, s)) => Surface(s) = meta[s].exports
  BY <1>3, <1>4 DEF SurfacesRight, Surface
<1> QED
  BY <1>1, <1>2, <1>3, <1>5

\* A step within the seeding of one module.
LEMMA SameModule ==
  ASSUME OrderInv, stage \in Filling, stage' \in Filling, UNCHANGED <<meta, runtimes, order, at>>
  PROVE  /\ stage \in Loading /\ at <= Len(order)
         /\ meta' = meta /\ entries' = entries /\ Current' = Current /\ Sources' = Sources
         /\ \A s : Surface(s)' = Surface(s) /\ PublicSurface(entries, s)' = PublicSurface(entries, s)
<1>1. meta' = meta /\ entries' = entries
  BY DEF runtimes
<1>2. Current' = Current
  BY DEF Current, Filling
<1> QED
  BY <1>1, <1>2 DEF Filling, Loading, OrderInv, Placed, Sources, Surface

LEMMA NextModuleShares == ASSUME RegistryIsRight, SharedInv, OrderInv', NextModule PROVE SharedInv'
<1>1. meta' = meta /\ entries' = entries /\ order' = order /\ holds' = holds /\ hook' = Missing /\ stage = "next"
      /\ UNCHANGED <<meta, runtimes, holds>>
  BY DEF NextModule, runtimes, Quiet
<1>2. CASE at <= Len(order)
  <2>1. stage' = "seed" /\ at' = at /\ todo' = ImportSources(entries, Current).value
    BY <1>2 DEF NextModule, Go
  <2>2. Current' = Current
    BY <1>1, <2>1 DEF Current
  <2>3. ToSet(todo') = Sources'
    BY <1>1, <2>1, <2>2 DEF Sources
  <2>4. SeedOk'
    BY <2>1, <2>3 DEF SeedOk
  <2>5. NothingHidden'
    BY <1>1, HiddenStays
  <2> QED
    BY <1>1, <2>4, <2>5, NoInitHook DEF SharedInv
<1>3. CASE ~(at <= Len(order))
  BY <1>1, <1>3, SharedFrame DEF NextModule, Go, Filling
<1> QED
  BY <1>2, <1>3

\* A step that changes only what the module provides itself keeps what was copied.
LEMMA CopiedStays ==
  ASSUME RegistryIsRight, SharedInv, stage \in Loading, at <= Len(order), NEW s \in Sources, Copied(s),
         \A m \in Modules \ {Current} : holds'[m] = holds[m],
         \A T \in Types : T \notin meta[Current].provides => holds'[Current][T] = holds[Current][T]
  PROVE  \A T \in Surface(s) : holds'[s][T] # Missing =>
           \/ T \in meta[Current].provides
           \/ \E p \in Sources : T \in Surface(p) /\ holds'[Current][T] = holds'[p][T]
<1>1. Sources \subseteq Modules \ {Current} /\ Surface(s) = meta[s].exports
  BY SourcesApart DEF SharedInv, Copied
<1>2. Surface(s) \subseteq Types
  BY <1>1, OrchestratorAssumption DEF SharedInv, OrderInv, OrchestratorTyped
<1>3. SUFFICES ASSUME NEW T \in Surface(s), holds'[s][T] # Missing, T \notin meta[Current].provides
               PROVE  \E p \in Sources : T \in Surface(p) /\ holds'[Current][T] = holds'[p][T]
  OBVIOUS
<1>4. holds'[s] = holds[s]
  BY <1>1
<1>5. PICK p \in Sources : T \in Surface(p) /\ holds[Current][T] = holds[p][T]
  BY <1>3, <1>4 DEF Copied
<1>6. holds'[p] = holds[p] /\ holds'[Current][T] = holds[Current][T]
  BY <1>1, <1>2, <1>3
<1> QED
  BY <1>5, <1>6

LEMMA SeedSourceShares == ASSUME RegistryIsRight, SharedInv, OrderInv', SeedSource PROVE SharedInv'
<1>1. stage = "seed" /\ hook' = Missing /\ UNCHANGED <<meta, runtimes>> /\ todo # <<>>
      /\ meta' = meta /\ entries' = entries /\ stage \in Loading /\ at <= Len(order) /\ OrderInv
  BY DEF SeedSource, Quiet, runtimes, SharedInv, OrderInv, Placed, Loading
<1>2. CASE ~IsOk(PublicSurface(entries, Head(todo)))
  <2>1. holds' = holds /\ stage' = "idle"
    BY <1>2 DEF SeedSource, End
  <2> QED
    BY <1>1, <2>1, SharedFrame DEF Filling
<1>3. CASE IsOk(PublicSurface(entries, Head(todo)))
  <2> DEFINE h == Head(todo)
  <2>1. todo' = Tail(todo) /\ stage' = stage /\ at' = at /\ order' = order
    BY <1>3 DEF SeedSource
  <2>2. /\ holds' \in [Modules -> Rows] /\ \A m \in Modules \ {Current} : holds'[m] = holds[m]
        /\ \A T \in Types : holds'[Current][T] =
             IF T \in Surface(h) /\ holds[h][T] # Missing THEN holds[h][T] ELSE holds[Current][T]
    BY <1>1, <1>3, SeedCopies DEF Surface
  <2>3. /\ Sources \subseteq Modules \ {Current}
        /\ \A s \in Sources : /\ s \in DOMAIN entries /\ (s \in Imports(Current) \/ meta[s].global)
                              /\ IsOk(PublicSurface(entries, s)) => Surface(s) = meta[s].exports
    BY <1>1, SourcesApart
  <2>4. h \in Sources /\ ToSet(Tail(todo)) \subseteq Sources
        /\ \A s \in ToSet(todo) : s = h \/ s \in ToSet(Tail(todo))
    <3>1. todo \in Seq(Modules)
      BY <1>1 DEF OrderInv, OrchestratorTyped
    <3>2. ToSet(todo) \subseteq Sources
      BY <1>1 DEF SharedInv, SeedOk
    <3>3. h \in ToSet(todo) /\ ToSet(Tail(todo)) \subseteq ToSet(todo)
          /\ \A s \in ToSet(todo) : s = h \/ s \in ToSet(Tail(todo))
      <4>1. DOMAIN todo = 1..Len(todo) /\ Len(todo) \in Nat /\ Len(todo) > 0
            /\ DOMAIN Tail(todo) = 1..(Len(todo) - 1) /\ h = todo[1]
            /\ \A k \in 1..(Len(todo) - 1) : Tail(todo)[k] = todo[k + 1] /\ k + 1 \in DOMAIN todo
        BY <1>1, <3>1
      <4>2. \A k \in DOMAIN todo : k = 1 \/ (k - 1 \in DOMAIN Tail(todo) /\ (k - 1) + 1 = k)
        BY <4>1
      <4> HIDE DEF h
      <4>3. ASSUME NEW k \in DOMAIN todo PROVE todo[k] = h \/ todo[k] \in ToSet(Tail(todo))
        <5>1. CASE k = 1
          BY <4>1, <5>1
        <5>2. CASE k # 1
          <6>1. k - 1 \in DOMAIN Tail(todo) /\ Tail(todo)[k - 1] = todo[k]
            BY <4>1, <4>2, <5>2
          <6> QED
            BY <6>1 DEF ToSet
        <5> QED
          BY <5>1, <5>2
      <4>4. 1 \in DOMAIN todo
        BY <4>1
      <4> QED
        BY <4>1, <4>3, <4>4 DEF ToSet
    <3> QED
      BY <3>2, <3>3
  <2> HIDE DEF h
  <2>5. /\ Current' = Current /\ Sources' = Sources
        /\ \A s : Surface(s)' = Surface(s) /\ PublicSurface(entries, s)' = PublicSurface(entries, s)
    BY <1>1, <2>1, SameModule DEF Filling
  <2>6. IsOk(PublicSurface(entries, h))
    BY <1>3 DEF h
  <2>7. NothingHidden'
    <3>1. ASSUME NEW m \in DOMAIN entries, NEW T \in Types, holds'[m][T] # Missing
          PROVE  holds[m][T] # Missing \/ Visible(m, T)
      <4>1. m \in Modules
        BY <1>1, EntriesOfRegistry DEF OrderInv
      <4>2. CASE m # Current
        BY <2>2, <3>1, <4>1, <4>2
      <4>3. CASE m = Current /\ T \in Surface(h)
        BY <2>3, <2>4, <2>6, <4>3 DEF Visible
      <4>4. CASE m = Current /\ T \notin Surface(h)
        BY <2>2, <3>1, <4>4
      <4> QED
        BY <4>2, <4>3, <4>4
    <3> QED
      BY <1>1, <3>1, HiddenStays
  <2>8. ASSUME NEW s \in Sources, s \notin ToSet(Tail(todo))
        PROVE  IsOk(PublicSurface(entries, s)) /\
               \A T \in Surface(s) : holds'[s][T] # Missing =>
                 \/ T \in meta[Current].provides
                 \/ \E p \in Sources : T \in Surface(p) /\ holds'[Current][T] = holds'[p][T]
    <3>1. s = h \/ Copied(s)
      BY <1>1, <2>4, <2>8 DEF SharedInv, SeedOk, Filling
    <3>2. IsOk(PublicSurface(entries, s))
      BY <2>6, <3>1 DEF Copied
    <3>3. Surface(s) \subseteq Types
      <4>1. s \in Modules /\ Surface(s) = meta[s].exports
        BY <2>3, <3>2
      <4>2. meta \in Graphs
        BY <1>1 DEF OrderInv, OrchestratorTyped
      <4> QED
        BY <4>1, <4>2, OrchestratorAssumption
    <3>4. ASSUME NEW T \in Surface(s), holds'[s][T] # Missing, T \notin meta[Current].provides
          PROVE  \E p \in Sources : T \in Surface(p) /\ holds'[Current][T] = holds'[p][T]
      <4>1. T \in Types /\ holds'[s] = holds[s] /\ holds'[h] = holds[h]
        BY <2>2, <2>3, <2>4, <3>3
      <4>2. CASE T \in Surface(h) /\ holds[h][T] # Missing
        BY <2>2, <2>4, <4>1, <4>2
      <4>3. CASE ~(T \in Surface(h) /\ holds[h][T] # Missing)
        <5>1. Copied(s)
          BY <3>1, <3>4, <4>1, <4>3
        <5>2. PICK p \in Sources : T \in Surface(p) /\ holds[Current][T] = holds[p][T]
          BY <3>4, <4>1, <5>1 DEF Copied
        <5>3. holds'[Current][T] = holds[Current][T] /\ holds'[p] = holds[p]
          BY <2>2, <2>3, <4>1, <4>3
        <5> QED
          BY <5>2, <5>3
      <4> QED
        BY <4>2, <4>3
    <3> QED
      BY <3>2, <3>4
  <2>9. SeedOk'
    BY <1>1, <2>1, <2>4, <2>5, <2>8 DEF SeedOk, Filling, Copied
  <2> QED
    BY <1>1, <2>7, <2>9, NoInitHook DEF SharedInv
<1> QED
  BY <1>2, <1>3

LEMMA StartLoadShares == ASSUME RegistryIsRight, SharedInv, OrderInv', StartLoad PROVE SharedInv'
<1>1. stage = "seed" /\ hook' = Missing /\ UNCHANGED <<meta, runtimes, holds>> /\ todo = <<>> /\ OrderInv
      /\ meta' = meta /\ entries' = entries /\ holds' = holds
  BY DEF StartLoad, Quiet, runtimes, SharedInv
<1>2. CASE state[Current] # "unloaded"
  BY <1>1, <1>2, SharedFrame DEF StartLoad, End, Filling
<1>3. CASE state[Current] = "unloaded"
  <2>1. stage' = "configure" /\ at' = at /\ todo' = todo /\ order' = order
    BY <1>3 DEF StartLoad, Go
  <2>2. /\ Current' = Current /\ Sources' = Sources
        /\ \A s : Surface(s)' = Surface(s) /\ PublicSurface(entries, s)' = PublicSurface(entries, s)
    BY <1>1, <2>1, SameModule DEF Filling
  <2>3. \A s \in Sources : Copied(s)
    BY <1>1 DEF SharedInv, SeedOk, Filling, ToSet
  <2>4. SeedOk'
    BY <1>1, <2>1, <2>2, <2>3 DEF SeedOk, Copied
  <2>5. NothingHidden'
    BY <1>1, HiddenStays DEF SharedInv
  <2> QED
    BY <1>1, <2>4, <2>5, NoInitHook DEF SharedInv
<1> QED
  BY <1>2, <1>3

\* While a module is configured or initialized everything has been copied to it.
LEMMA AllCopied ==
  ASSUME SharedInv, stage \in {"configure", "initialize"}
  PROVE  /\ stage \in Loading /\ at <= Len(order) /\ OrderInv /\ Current \in Modules
         /\ \A s \in Sources : Copied(s)
<1>1. stage \in Loading /\ at <= Len(order) /\ OrderInv
  BY DEF SharedInv, OrderInv, Placed, Loading
<1>2. \A s \in Sources : Copied(s)
  BY DEF SharedInv, SeedOk, Filling, ToSet
<1> QED
  BY <1>1, <1>2, CurrentModule

LEMMA ConfigureShares == ASSUME RegistryIsRight, SharedInv, OrderInv', Configure PROVE SharedInv'
<1>1. stage = "configure" /\ stage' = "initialize" /\ hook' = Missing /\ UNCHANGED <<meta, runtimes, order, at>>
      /\ meta' = meta /\ entries' = entries /\ todo' = todo /\ todo = <<>>
  BY DEF Configure, Quiet, Go, runtimes, SharedInv, SeedOk
<1>2. stage \in Loading /\ at <= Len(order) /\ OrderInv /\ Current \in Modules /\ \A s \in Sources : Copied(s)
  BY <1>1, AllCopied
<1>3. /\ \A m \in Modules \ {Current} : holds'[m] = holds[m]
      /\ \A T \in Types : holds'[Current][T] = IF T \in meta[Current].provides THEN Missing ELSE holds[Current][T]
  BY <1>2, Displaced DEF Configure
<1>4. /\ Current' = Current /\ Sources' = Sources
      /\ \A s : Surface(s)' = Surface(s) /\ PublicSurface(entries, s)' = PublicSurface(entries, s)
  BY <1>1, <1>2, SameModule DEF Filling
<1>5. NothingHidden'
  <2>1. \A m \in DOMAIN entries : m \in Modules
    BY <1>2, EntriesOfRegistry DEF OrderInv
  <2>2. \A m \in DOMAIN entries : \A T \in Types : holds'[m][T] # Missing => holds[m][T] # Missing
    BY <1>3, <2>1
  <2> QED
    BY <1>1, <2>2, HiddenStays
<1>6. \A s \in Sources : \A T \in Surface(s) : holds'[s][T] # Missing =>
        \/ T \in meta[Current].provides
        \/ \E p \in Sources : T \in Surface(p) /\ holds'[Current][T] = holds'[p][T]
  BY <1>2, <1>3, CopiedStays
<1>7. \A s \in Sources : IsOk(PublicSurface(entries, s))
  BY <1>2 DEF Copied
<1>8. SeedOk'
  BY <1>1, <1>4, <1>6, <1>7 DEF SeedOk, Copied
<1> QED
  BY <1>1, <1>5, <1>8, NoInitHook DEF SharedInv

LEMMA ConfigureFailsShares == ASSUME SharedInv, OrderInv', ConfigureFails PROVE SharedInv'
<1>1. stage = "configure" /\ stage' = "idle" /\ hook' = Missing /\ meta' = meta /\ entries' = entries
  BY DEF ConfigureFails, Quiet, End, runtimes
<1>2. Current \in Modules /\ OrderInv
  BY <1>1, AllCopied
<1>3. PICK S \in SUBSET meta[Current].provides : Displace(S)
  BY DEF ConfigureFails
<1>4. /\ \A m \in Modules \ {Current} : holds'[m] = holds[m]
      /\ \A T \in Types : holds'[Current][T] = IF T \in S THEN Missing ELSE holds[Current][T]
  BY <1>2, <1>3, Displaced
<1>5. NothingHidden'
  <2>1. \A m \in DOMAIN entries : m \in Modules
    BY <1>2, EntriesOfRegistry DEF OrderInv
  <2>2. \A m \in DOMAIN entries : \A T \in Types : holds'[m][T] # Missing => holds[m][T] # Missing
    BY <1>4, <2>1
  <2> QED
    BY <1>1, <2>2, HiddenStays
<1>6. SeedOk'
  BY <1>1 DEF SeedOk, Filling
<1> QED
  BY <1>1, <1>5, <1>6, NoInitHook DEF SharedInv

\* What initialize builds, the module provides.
LEMMA BuiltIsVisible ==
  ASSUME SharedInv, stage = "initialize", NEW S \in SUBSET Singletons, Built(S), meta' = meta, entries' = entries
  PROVE  /\ NothingHidden' /\ \A m \in Modules \ {Current} : holds'[m] = holds[m]
         /\ \A T \in Types : T \notin meta[Current].provides => holds'[Current][T] = holds[Current][T]
<1>1. Current \in Modules /\ OrderInv
  BY AllCopied
<1>2. /\ \A m \in Modules \ {Current} : holds'[m] = holds[m]
      /\ \A T \in Types : T \notin S => holds'[Current][T] = holds[Current][T]
  BY <1>1, BuiltNew
<1>3. S \subseteq meta[Current].provides
  BY DEF Singletons
<1>4. \A m \in DOMAIN entries : m \in Modules
  BY <1>1, EntriesOfRegistry DEF OrderInv
<1>5. \A m \in DOMAIN entries : \A T \in Types : holds'[m][T] # Missing => holds[m][T] # Missing \/ Visible(m, T)
  BY <1>2, <1>3, <1>4 DEF Visible
<1> QED
  BY <1>2, <1>3, <1>5, HiddenStays

LEMMA InitializeShares == ASSUME RegistryIsRight, SharedInv, OrderInv', Initialize PROVE SharedInv'
<1>1. stage = "initialize" /\ stage' = "init_hook" /\ hook' = [name |-> "init", module |-> Current]
      /\ meta' = meta /\ entries' = entries
  BY DEF Initialize, Call, Go, runtimes
<1>2. stage \in Loading /\ at <= Len(order) /\ OrderInv /\ Current \in Modules /\ \A s \in Sources : Copied(s)
  BY <1>1, AllCopied
<1>3. /\ NothingHidden' /\ \A m \in Modules \ {Current} : holds'[m] = holds[m]
      /\ \A T \in Types : T \notin meta[Current].provides => holds'[Current][T] = holds[Current][T]
  BY <1>1, BuiltIsVisible DEF Initialize
<1>4. \A s \in Sources : \A T \in Surface(s) : holds'[s][T] # Missing =>
        \/ T \in meta[Current].provides
        \/ \E p \in Sources : T \in Surface(p) /\ holds'[Current][T] = holds'[p][T]
  BY <1>2, <1>3, CopiedStays
<1>5. Imports(Current) \subseteq Sources
  BY <1>2, SourcesApart
<1>6. ImportsShared'
  <2>1. SUFFICES ASSUME NEW m \in Modules, hook' = [name |-> "init", module |-> m],
                        NEW i \in Imports(m), NEW T \in Surface(i), holds'[i][T] # Missing
                 PROVE  \/ T \in meta[m].provides
                        \/ \E s \in ToSet(ImportSources(entries, m).value) :
                             T \in Surface(s) /\ holds'[m][T] = holds'[s][T]
    BY <1>1 DEF ImportsShared, Calling, Imports, Surface
  <2>2. m = Current
    BY <1>1, <2>1
  <2> QED
    BY <1>4, <1>5, <2>1, <2>2 DEF Sources
<1>7. SeedOk'
  BY <1>1 DEF SeedOk, Filling
<1> QED
  BY <1>3, <1>6, <1>7 DEF SharedInv

LEMMA InitializeFailsShares == ASSUME SharedInv, OrderInv', InitializeFails PROVE SharedInv'
<1>1. stage = "initialize" /\ stage' = "idle" /\ hook' = Missing /\ meta' = meta /\ entries' = entries
  BY DEF InitializeFails, Quiet, End, runtimes
<1>2. NothingHidden'
  BY <1>1, BuiltIsVisible DEF InitializeFails
<1>3. SeedOk'
  BY <1>1 DEF SeedOk, Filling
<1> QED
  BY <1>1, <1>2, <1>3, NoInitHook DEF SharedInv

\* The other steps leave the containers alone and call other hooks.
LEMMA OtherStepsShare ==
  ASSUME SharedInv, OrderInv', Bootstrap \/ Activate \/ BootstrapHook \/ Shutdown \/ ShutdownHook
                               \/ BeginDestroy \/ CompleteDestroy \/ EndShutdown \/ Dropped
  PROVE  SharedInv'
<1>1. UNCHANGED <<meta, runtimes, holds>>
  BY DEF Bootstrap, Activate, BootstrapHook, Shutdown, ShutdownHook, BeginDestroy, CompleteDestroy, EndShutdown, Dropped
<1>2. hook' = Missing \/ hook'.name # "init"
  BY DEF Bootstrap, Activate, BootstrapHook, Shutdown, ShutdownHook, BeginDestroy, CompleteDestroy, EndShutdown, Dropped,
         Quiet, Call
<1>3. stage' \notin Filling
  BY DEF Bootstrap, Activate, BootstrapHook, Shutdown, ShutdownHook, BeginDestroy, CompleteDestroy, EndShutdown, Dropped,
         Go, End, Filling
<1> QED
  BY <1>1, <1>2, <1>3, SharedFrame

LEMMA SharedStep == RegistryIsRight /\ SharedInv /\ [OrchestratorNext]_orchestratorVars => SharedInv'
<1> SUFFICES ASSUME RegistryIsRight, SharedInv, [OrchestratorNext]_orchestratorVars PROVE SharedInv'
  OBVIOUS
<1>1. OrderInv'
  BY OrderStep DEF SharedInv
<1>2. CASE UNCHANGED orchestratorVars
  <2>1. meta' = meta /\ entries' = entries /\ holds' = holds /\ order' = order /\ todo' = todo
        /\ stage' = stage /\ at' = at /\ hook' = hook
    BY <1>2 DEF orchestratorVars
  <2>2. /\ Current' = Current /\ Sources' = Sources
        /\ \A s : Surface(s)' = Surface(s) /\ PublicSurface(entries, s)' = PublicSurface(entries, s)
    <3>1. activation_order' = activation_order
      BY <1>2 DEF orchestratorVars
    <3> QED
      BY <2>1, <3>1 DEF Current, Sources, Surface
  <2>3. SeedOk'
    BY <2>1, <2>2 DEF SharedInv, SeedOk, Copied
  <2>4. ImportsShared' /\ NothingHidden'
    BY <2>1 DEF SharedInv, ImportsShared, NothingHidden, Calling, Imports
  <2> QED
    BY <1>1, <2>3, <2>4 DEF SharedInv
<1>3. CASE \E m \in Modules : Register(m)
  BY <1>1, <1>3, RegisterShares
<1> QED
  BY <1>1, <1>2, <1>3, NextModuleShares, SeedSourceShares, StartLoadShares, ConfigureShares,
     ConfigureFailsShares, InitializeShares, InitializeFailsShares, OtherStepsShare DEF OrchestratorNext

\* A container holds the very instances of its imports, and none that the registry hides from its
\* module, for any modules and whatever is registered again, fails or is dropped
\* (orchestrator.rs:415-428).
THEOREM SharingFollowsImports ==
  OrchestratorSpec => []SharedAlongImports
<1>1. SharedInv => SharedAlongImports
  BY DEF SharedInv, OrderInv, SharedAlongImports
<1>2. SharedInv /\ [OrchestratorNext]_orchestratorVars => SharedInv'
  BY SharedStep, RegistryRight
<1> QED
  BY <1>1, <1>2, SharedInitial, PTL DEF OrchestratorSpec

\* A shutdown that reports success has destroyed every module of the activation order, whatever was
\* registered again or dropped before (orchestrator.rs:397-408).
THEOREM ShutdownIsClean ==
  OrchestratorSpec => ShutDownClean
<1>1. OrderInv /\ [OrchestratorNext]_orchestratorVars => [EndShutdown => \A m \in ToSet(activation_order) : state[m] = "destroyed"]_orchestratorVars
  <2>1. SUFFICES ASSUME OrderInv, EndShutdown, NEW m \in ToSet(activation_order) PROVE state[m] = "destroyed"
    OBVIOUS
  <2>2. PICK k \in DOMAIN activation_order : activation_order[k] = m
    BY <2>1 DEF ToSet
  <2>3. stage = "destroy" /\ k > at
    BY <2>1 DEF EndShutdown, OrderInv, OrchestratorTyped
  <2> QED
    BY <2>1, <2>2, <2>3 DEF OrderInv, Destroyed
<1>2. OrderInv /\ [OrchestratorNext]_orchestratorVars => OrderInv'
  BY OrderStep, RegistryRight
<1> QED
  BY <1>1, <1>2, OrderInitial, PTL DEF OrchestratorSpec, ShutDownClean

=============================================================================
