---------------------------- MODULE ModuleGraph ----------------------------
(***************************************************************************)
(* What the module registry of nivasa-core computes from the metadata of   *)
(* the registered modules (module/registry.rs): the activation order, what *)
(* a module offers to its importers, where a module takes providers from   *)
(* and which types it may see.                                             *)
(*                                                                         *)
(* A registry is a function from registered modules to their metadata:     *)
(*   [imports : Seq(module), provides : SUBSET type,                       *)
(*    exports : SUBSET type, global : BOOLEAN]                             *)
(* An outcome is [error |-> ..., value |-> ...]; the value counts when the *)
(* error is "none".  The memo tables of the code are left out: they change *)
(* no result.                                                              *)
(***************************************************************************)
EXTENDS Naturals, SequencesExt

CONSTANT Names    \* the module types, in the order of their type_name

ASSUME NamesAssumption == Names \in Seq(ToSet(Names))

Modules == ToSet(Names)

Ok(v)   == [error |-> "none", value |-> v]
Err(e)  == [error |-> e, value |-> {}]
IsOk(r) == r.error = "none"

\* A loop with `?`: an error ends it and is the result of all of it.
TryFold(step, start, seq) ==
  LET after[k \in 0..Len(seq)] ==
        IF k = 0 THEN Ok(start)
        ELSE LET r == after[k - 1]
             IN  IF IsOk(r) THEN step[r.value][seq[k]] ELSE r
  IN  after[Len(seq)]

\* The modules of S in the order of their names.
Listed(S) ==
  TryFold([found \in Seq(Modules) |-> [m \in Modules |->
             Ok(IF m \in S THEN Append(found, m) ELSE found)]],
          <<>>, Names).value

Registered(reg) == Listed(DOMAIN reg)

\* An activation of dfs: the module, the modules that are being visited, the order so far.
Visits(reg) == (DOMAIN reg) \X (SUBSET DOMAIN reg) \X Seq(DOMAIN reg)

\* Slip: a module is placed in front of what it needs.
Walk_Before(reg) ==
  LET Visit[at \in Visits(reg)] ==
        LET m        == at[1]
            visiting == at[2] \cup {m}
            Import == [placed \in Seq(DOMAIN reg) |-> [i \in Modules |->
                         IF i \notin DOMAIN reg THEN Err("missing")
                         ELSE IF i \in visiting THEN Err("circular")
                         ELSE IF i \in ToSet(placed) THEN Ok(placed)
                         ELSE Visit[<<i, visiting, placed>>]]]
            done == TryFold(Import, at[3], reg[m].imports)
        IN  IF IsOk(done) THEN Ok(<<m>> \o done.value) ELSE done
  IN  Visit

\* dfs: `order` names what has been visited.
Walk(reg) ==
  LET Visit[at \in Visits(reg)] ==
        LET m        == at[1]
            visiting == at[2] \cup {m}
            Import == [placed \in Seq(DOMAIN reg) |-> [i \in Modules |->
                         IF i \notin DOMAIN reg THEN Err("missing")
                         ELSE IF i \in visiting THEN Err("circular")
                         ELSE IF i \in ToSet(placed) THEN Ok(placed)
                         ELSE Visit[<<i, visiting, placed>>]]]
            done == TryFold(Import, at[3], reg[m].imports)
        IN  IF IsOk(done) THEN Ok(Append(done.value, m)) ELSE done
  IN  Visit

ResolveOrder(reg) ==
  LET Root == [order \in Seq(DOMAIN reg) |-> [m \in DOMAIN reg |->
                 IF m \in ToSet(order) THEN Ok(order) ELSE Walk(reg)[<<m, {}, order>>]]]
  IN  TryFold(Root, <<>>, Registered(reg))

\* public_surface_for: what a module exports, each item provided by the module
\* itself or exported by a module that it imports.
Exported(reg) == UNION {reg[m].exports : m \in DOMAIN reg}

PublicSurface(reg, module) ==
  LET Surface[at \in (DOMAIN reg) \X SUBSET DOMAIN reg] ==
        LET m        == at[1]
            visiting == at[2]
        IN
        IF m \in visiting THEN Err("circular")
        ELSE LET Import == [seen \in SUBSET Exported(reg) |-> [i \in Modules |->
                              IF i \notin DOMAIN reg THEN Err("missing")
                              ELSE LET s == Surface[<<i, visiting \cup {m}>>]
                                   IN  IF IsOk(s) THEN Ok(seen \cup s.value) ELSE s]]
                 imported == TryFold(Import, {}, reg[m].imports)
             IN  IF ~IsOk(imported) THEN imported
                 ELSE IF reg[m].exports \subseteq reg[m].provides \cup imported.value
                        THEN Ok(reg[m].exports)
                        ELSE Err("export")
  IN  Surface[<<module, {}>>]

GlobalModules(reg) == Listed({m \in DOMAIN reg : reg[m].global})

\* Slip: the global modules are forgotten.
ImportSources_NoGlobals(reg, m) ==
  IF \E i \in ToSet(reg[m].imports) : i \notin DOMAIN reg THEN Err("missing")
  ELSE Ok(reg[m].imports)

\* import_sources_by_id: the imports, then the global modules, none twice.
ImportSources(reg, m) ==
  IF \E i \in ToSet(reg[m].imports) : i \notin DOMAIN reg THEN Err("missing")
  ELSE LET Once == [s \in Seq(Modules) |-> [x \in Modules |->
                      Ok(IF x \in ToSet(s) THEN s ELSE Append(s, x))]]
           globals == Listed({g \in DOMAIN reg \ {m} : reg[g].global})
       IN  TryFold(Once, <<>>, reg[m].imports \o globals)

\* visible_exports_by_id: own exports, those of the imports, then those of the
\* global modules.
VisibleExports(reg, m) ==
  LET own == PublicSurface(reg, m)
      Add == [seen \in SUBSET Exported(reg) |-> [x \in DOMAIN reg |->
                LET s == PublicSurface(reg, x)
                IN  IF IsOk(s) THEN Ok(seen \cup s.value) ELSE s]]
  IN  IF IsOk(own) THEN TryFold(Add, own.value, reg[m].imports \o GlobalModules(reg)) ELSE own

-----------------------------------------------------------------------------
(* What these computations are for: every registered module after its       *)
(* imports, none twice; the sources of a module are its imports and the     *)
(* global modules; a surface is the exports.                                *)

OrderRight(reg) ==
  LET r == ResolveOrder(reg)
  IN  IsOk(r) =>
        /\ r.value \in Seq(DOMAIN reg) /\ DOMAIN reg \subseteq ToSet(r.value)
        /\ \A j, k \in DOMAIN r.value : r.value[j] = r.value[k] => j = k
        /\ \A j \in DOMAIN r.value : \A i \in ToSet(reg[r.value[j]].imports) :
             \E k \in DOMAIN r.value : r.value[k] = i /\ k < j

SourcesRight(reg) ==
  \A m \in DOMAIN reg : ToSet(reg[m].imports) \subseteq DOMAIN reg =>
    LET sources == ImportSources(reg, m).value
    IN  /\ sources \in Seq(Modules)
        /\ ToSet(sources) = ToSet(reg[m].imports) \cup {g \in DOMAIN reg \ {m} : reg[g].global}

SurfacesRight(reg) ==
  \A m \in DOMAIN reg :
    IsOk(PublicSurface(reg, m)) => PublicSurface(reg, m).value = reg[m].exports
=============================================================================
