------------------------------- MODULE Config -------------------------------
(***************************************************************************)
(* The configuration module (nivasa-config/src/lib.rs): .env files are     *)
(* parsed and merged in order, values may refer to variables, and the      *)
(* process environment is laid over the result; a root module with a       *)
(* schema checks what it loaded when it is built and again before          *)
(* bootstrap, while the service an application reads is built from a load  *)
(* of its own.  Lines and values are sequences of characters.              *)
(***************************************************************************)
EXTENDS Integers, Sequences, SequencesExt, FiniteSets

CONSTANTS
  EnvFiles,      \* what a .env file may hold: a set of sequences of lines
  Environments,  \* what the process environment may be: a set of functions
  Schemas,       \* [required: sequence of keys, defaults: function, rejects: set of values]
  NameStart, NameContinue,   \* characters of a variable's name
  Bytes,         \* the characters that are not ASCII, with their bytes read one by one
  DepthCap,      \* expand_env_value's 8
  MaxSets        \* bound on the changes of the process environment

VARIABLES
  options,   \* ConfigOptions: files to merge (0: not there), ignore_env_file, expand_variables
  disk,      \* the files
  environ,   \* the process environment
  sets,      \* how often it has changed, for MaxSets
  root,      \* the root module: its outcome and the values it holds for the replay
  service    \* ConfigService: the values it was made from, or NoService

configVars == <<options, disk, environ, sets, root, service>>

NoMap == << >>
NoService == [made |-> FALSE, values |-> NoMap]
NoRoot == [stage |-> "none", schema |-> 0, values |-> NoMap, issues |-> {}]

\* BTreeMap::extend: the later map wins.
Over(later, map) == [k \in (DOMAIN map) \cup (DOMAIN later) |->
                       IF k \in DOMAIN later THEN later[k] ELSE map[k]]

-----------------------------------------------------------------------------
(* A line of a .env file. *)

Blank(c) == c = " "
Trim(s) ==
  LET kept == {i \in DOMAIN s : ~Blank(s[i])}
  IN  IF kept = {} THEN <<>>
      ELSE SubSeq(s, CHOOSE i \in kept : \A j \in kept : i <= j,
                     CHOOSE i \in kept : \A j \in kept : i >= j)

Unquote(v) ==
  IF Len(v) >= 2 /\ v[1] = v[Len(v)] /\ v[1] \in {"'", "\""} THEN SubSeq(v, 2, Len(v) - 1) ELSE v

\* parse_env_line: no entry, or one.  "export" stands for the word and its space.
Entry(line) ==
  LET trimmed == Trim(line)
      plain == IF trimmed # <<>> /\ Head(trimmed) = "export" THEN Tail(trimmed) ELSE trimmed
      eq == SelectInSeq(plain, LAMBDA c : c = "=")
      key == Trim(SubSeq(plain, 1, eq - 1))
  IN  IF trimmed = <<>> \/ Head(trimmed) = "#" \/ eq = 0 \/ key = <<>> THEN NoMap
      ELSE [k \in {key} |-> Unquote(Trim(SubSeq(plain, eq + 1, Len(plain))))]

LoadEnvFile(lines) == FoldLeft(LAMBDA map, line : Over(Entry(line), map), NoMap, lines)

-----------------------------------------------------------------------------
(* Expansion. *)

Text(s) == [ref |-> FALSE, is |-> s]
Ref(name) == [ref |-> TRUE, is |-> name]

NextAt(v, i, Here(_)) ==
  LET at == {j \in i .. Len(v) : Here(v[j])}
  IN  IF at = {} THEN Len(v) + 1 ELSE CHOOSE j \in at : \A k \in at : j <= k

\* The loop of expand_env_value over the bytes of a value: its texts and references.
RECURSIVE PartsFrom(_, _)
PartsFrom(v, i) ==
  LET brace == NextAt(v, i + 2, LAMBDA c : c = "}")
      end == NextAt(v, i + 2, LAMBDA c : c \notin NameContinue)
  IN  IF i > Len(v) THEN <<>>
      ELSE IF v[i] # "$" THEN
        <<Text(IF v[i] \in DOMAIN Bytes THEN Bytes[v[i]] ELSE <<v[i]>>)>> \o PartsFrom(v, i + 1)
      ELSE IF i < Len(v) /\ v[i + 1] = "{" /\ brace <= Len(v) THEN
        <<Ref(SubSeq(v, i + 2, brace - 1))>> \o PartsFrom(v, brace + 1)
      ELSE IF i < Len(v) /\ v[i + 1] \in NameStart THEN
        <<Ref(SubSeq(v, i + 1, end - 1))>> \o PartsFrom(v, end)
      ELSE <<Text(<<"$">>)>> \o PartsFrom(v, i + 1)

Parts(v) == PartsFrom(v, 1)

\* Slip: the files before the process environment.
Lookup_FilesFirst(name, values) == Over(values, environ)[name]

\* lookup_env_value.
Lookup(name, values) == Over(environ, values)[name]

Known(name, values) == name \in (DOMAIN environ) \cup (DOMAIN values)

RECURSIVE ExpandValue(_, _, _)
ExpandValue(v, values, depth) ==
  IF depth > DepthCap THEN v
  ELSE FlattenSeq([i \in DOMAIN Parts(v) |->
         LET part == Parts(v)[i]
         IN  IF ~part.ref THEN part.is
             ELSE IF Known(part.is, values)
               THEN ExpandValue(Lookup(part.is, values), values, depth + 1)
             ELSE <<>>])

ExpandValues(values) == [k \in DOMAIN values |-> ExpandValue(values[k], values, 0)]

-----------------------------------------------------------------------------
(* Loading and checking. *)

\* The merged files, before expansion; options.paths names files, 0 one that is missing.
Merged == FoldLeft(LAMBDA map, f : Over(LoadEnvFile(disk[f]), map), NoMap, options.paths)

LoadFails == ~options.ignore /\ \E i \in DOMAIN options.paths : options.paths[i] = 0

\* ConfigModule::load_env: without files not even the process environment is read.
LoadEnv ==
  IF options.ignore \/ options.paths = <<>> THEN NoMap
  ELSE Over(environ, IF options.expand THEN ExpandValues(Merged) ELSE Merged)

\* validate_schema: defaults first, then the required keys, blank ones skipped, then the
\* schema's own check of the values.
Issues(values, schema) ==
  LET all == Over(values, schema.defaults)
      keys == {Trim(schema.required[i]) : i \in DOMAIN schema.required}
  IN  {[missing |-> TRUE, key |-> k] : k \in keys \ ((DOMAIN all) \cup {<<>>})}
        \cup {[missing |-> FALSE, key |-> k] : k \in {l \in DOMAIN all : all[l] \in schema.rejects}}

\* ConfigService: get_raw, get_or_throw (found, or MissingKey).
Readable(values, key) == key \in DOMAIN values

-----------------------------------------------------------------------------

BlankPath == 3

\* with_env_file_paths: paths that are blank are dropped.
EnvFilePaths(given) == SelectSeq(given, LAMBDA p : p # BlankPath)

ConfigInit ==
  /\ options \in [paths : {EnvFilePaths(g) : g \in {<<BlankPath>>, <<1>>, <<1, BlankPath, 2>>, <<2, 0>>}},
                  ignore : BOOLEAN, expand : BOOLEAN]
  /\ disk \in [{1, 2} -> EnvFiles]
  /\ environ \in Environments
  /\ sets = 0
  /\ root = NoRoot
  /\ service = NoService

\* The process changes its environment; nothing here is told.
Setenv ==
  /\ sets < MaxSets
  /\ sets' = sets + 1
  /\ environ' \in Environments \ {environ}
  /\ UNCHANGED <<options, disk, root, service>>

\* ConfigModule::for_root_with_schema: what was loaded is checked at once and kept
\* for the check before bootstrap; the defaults are not.
ForRootWithSchema(s) ==
  /\ root.stage = "none"
  /\ LET issues == Issues(LoadEnv, Schemas[s])
     IN  root' = IF LoadFails THEN [NoRoot EXCEPT !.stage = "load_error"]
                 ELSE [stage |-> IF issues = {} THEN "built" ELSE "invalid", schema |-> s,
                       values |-> IF issues = {} THEN LoadEnv ELSE NoMap, issues |-> issues]
  /\ UNCHANGED <<options, disk, environ, sets, service>>

\* run_pre_bootstrap, by the application: the kept values again.
PreBootstrap ==
  /\ root.stage = "built"
  /\ root' = [root EXCEPT !.stage = IF Issues(root.values, Schemas[root.schema]) = {}
                                     THEN "checked" ELSE "refused"]
  /\ UNCHANGED <<options, disk, environ, sets, service>>

\* The application loads for itself and builds its service from that.
MakeService ==
  /\ root.stage \in {"none", "checked"}
  /\ ~service.made
  /\ ~LoadFails
  /\ service' = [made |-> TRUE, values |-> LoadEnv]
  /\ UNCHANGED <<options, disk, environ, sets, root>>

ConfigNext ==
  \/ Setenv
  \/ \E s \in DOMAIN Schemas : ForRootWithSchema(s)
  \/ PreBootstrap
  \/ MakeService

-----------------------------------------------------------------------------

ReferencesOf(v) == {Parts(v)[i].is : i \in {j \in DOMAIN Parts(v) : Parts(v)[j].ref}}
RefersTo(name) == IF Known(name, Merged) THEN ReferencesOf(Lookup(name, Merged)) ELSE {}

\* The variables that a chain of n more references leads to.
RECURSIVE Reached(_, _)
Reached(names, n) ==
  IF n = 0 THEN names ELSE Reached(UNION {RefersTo(m) : m \in names}, n - 1)

\* The variables whose values an expansion of k inserts as they are written: one reference
\* further than the cap allows to look.
BeyondCap(k) == {m \in Reached(ReferencesOf(Merged[k]), DepthCap) : Known(m, Merged)}

Plain(v) == \A i \in DOMAIN v : v[i] # "$" /\ v[i] \notin DOMAIN Bytes

Longest == 4   \* what a text or a value without references comes to, at most
Refs == 2      \* references in one value, at most

\* Every reference that an expansion of k follows leads to text within the cap: no chain of
\* references is longer, and in particular none is a ring.
WithinCap(k) == \A m \in BeyondCap(k) : Plain(Lookup(m, Merged))

\* In what is loaded a reference stands for the loaded value of the variable it
\* names, and for nothing if there is none, although it was expanded from the files and
\* the process environment separately, before one was laid over the other.  Three exceptions:
\* a chain of references, a ring or not, that is longer than the cap: the value behind
\* it is inserted as it is written, its references left in it; and references or characters
\* that are not ASCII in the process environment, which are expanded only behind a
\* reference.  No value grows past its references to the power of the cap
\* (config lib.rs:443-465, 621-708).
ReferencesStand ==
  (options.expand /\ ~options.ignore /\ options.paths # <<>> /\ ~LoadFails) =>
    LET loaded == LoadEnv
    IN  \A k \in DOMAIN Merged \ DOMAIN environ :
          /\ Len(loaded[k]) <= Longest * Refs ^ (DepthCap + 1)
          /\ \A m \in BeyondCap(k) :
               \E pre, post \in 0 .. Len(loaded[k]) :
                 SubSeq(loaded[k], pre + 1, post) = Lookup(m, Merged)
          /\ LET parts == Parts(Merged[k])
                 stands(n) == IF n \in DOMAIN loaded THEN loaded[n] ELSE <<>>
             IN  (WithinCap(k) /\ \A n \in ReferencesOf(Merged[k]) \cap DOMAIN environ : Plain(environ[n]))
                 => loaded[k] = FlattenSeq([i \in DOMAIN parts |->
                                  IF parts[i].ref THEN stands(parts[i].is) ELSE parts[i].is])

\* The check before bootstrap never refuses what the first one let pass.  When it has passed, the
\* service, which loads for itself at another time, can read every required key, but for
\* those the schema gives a default (filled in for the check alone) and those that came from
\* the process environment only and have left it (config lib.rs:403-427, 527-548).
RequiredReadable ==
  /\ root.stage # "refused"
  /\ root.stage = "checked" /\ service.made =>
       LET schema == Schemas[root.schema]
       IN  \A i \in DOMAIN schema.required :
             LET k == Trim(schema.required[i])
             IN  \/ k \in {<<>>} \cup DOMAIN schema.defaults
                 \/ Readable(service.values, k)
                 \/ k \notin DOMAIN Merged /\ sets > 0

\* References are followed as far as the cap, and what was checked before bootstrap can be read
\* after it.
ConfigHolds == ReferencesStand /\ RequiredReadable
=============================================================================
