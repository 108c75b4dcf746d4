--------------------------- MODULE ModuleRegistry ---------------------------
(***************************************************************************)
(* The module registry as modules are registered, in any order and with    *)
(* any metadata (module/registry.rs).  What the registry computes is in    *)
(* ModuleGraph.tla; here it is compared with what it should compute.       *)
(***************************************************************************)
EXTENDS ModuleGraph, FiniteSets, TLC

CONSTANT Metadata    \* the metadata a module may declare

ASSUME MetadataAssumption == \A md \in Metadata : md.imports \in Seq(Modules)

VARIABLE entries     \* the registry: registered modules with their metadata

RegistryInit == entries = << >>

\* register and register_dynamic: a second registration replaces the first.
RegisterModule(m) ==
  \E md \in Metadata :
    entries' = [x \in {m} \cup DOMAIN entries |-> IF x = m THEN md ELSE entries[x]]

RegistryNext == \E m \in Modules : RegisterModule(m)

-----------------------------------------------------------------------------

Imports(m) == ToSet(entries[m].imports)

Missing == \E m \in DOMAIN entries : Imports(m) \ DOMAIN entries # {}

\* Some registered modules all import one another in turn.
Cyclic ==
  \E S \in SUBSET DOMAIN entries : S # {} /\ \A m \in S : Imports(m) \cap S # {}

\* The activation order names every module once, after all its imports, and is
\* refused exactly when there can be none (registry.rs:535-617).
OrderSound ==
  LET r == ResolveOrder(entries)
  IN  /\ IsOk(r) => /\ Len(r.value) = Cardinality(DOMAIN entries)
                    /\ \A m \in DOMAIN entries : \E i \in DOMAIN r.value :
                         r.value[i] = m /\ Imports(m) \subseteq ToSet(SubSeq(r.value, 1, i - 1))
      /\ r.error = "missing" => Missing
      /\ r.error = "circular" => Cyclic
      /\ IsOk(r) <=> ~Missing /\ ~Cyclic

\* T can be traced from m, along exports, to a module that provides it.
Provided(m, T) ==
  ~ \E S \in SUBSET DOMAIN entries :
      /\ m \in S
      /\ \A n \in S : /\ T \notin entries[n].provides
                      /\ \A i \in Imports(n) :
                           i \in DOMAIN entries /\ T \in entries[i].exports => i \in S

\* A module never offers what nobody provides, through however many re-exports
\* it passes (registry.rs:266-284).
SurfaceProvided ==
  \A m \in DOMAIN entries :
    LET s == PublicSurface(entries, m)
    IN  IsOk(s) => \A T \in s.value : Provided(m, T)

\* What the registry says a module may see is what the orchestrator will put in
\* its container, besides its own exports: two functions that walk imports and
\* global modules separately agree (registry.rs:307-342 and :384-413).
SeenIsSeeded ==
  \A m \in DOMAIN entries :
    LET seen    == VisibleExports(entries, m)
        sources == ImportSources(entries, m)
    IN  IsOk(seen) =>
          /\ IsOk(sources)
          /\ seen.value = UNION {PublicSurface(entries, x).value :
                                 x \in {m} \cup ToSet(sources.value)}

\* What modules see of one another is what is provided to them, and what they are seeded with
\* (registry.rs).
VisibilitySound == SurfaceProvided /\ SeenIsSeeded
=============================================================================
