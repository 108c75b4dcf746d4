----------------------------- MODULE Generator -----------------------------
(***************************************************************************)
(* The command line tool's commands that write files                       *)
(* (nivasa-cli/src/main.rs): `new`, `generate <kind>` and the registration *)
(* of what was generated in a module file, whose #[module({...})] body is  *)
(* parsed, given the new item and written back.  A write to disk may fail. *)
(* Names and bodies are sequences of characters and tokens, paths are      *)
(* sequences of components below the root.                                 *)
(***************************************************************************)
EXTENDS Integers, Sequences, SequencesExt, FiniteSets, TLC

CONSTANTS
  Kinds,        \* module, controller, service, guard, interceptor, pipe, filter, middleware
  GivenNames,   \* what may be typed for a name: sequences of characters
  Lower,        \* lower case of the capital letters, a function
  Letters,      \* the characters kept as they are
  Targets,      \* paths typed for --module-file, relative to the working directory
  Cwd,          \* the working directory
  HandWritten,  \* what the module files hold at first: a function from paths to module files
  MaxCommands   \* bound on the commands run

VARIABLES
  tree,     \* the files
  dirs,     \* the directories made, for `new`
  log,      \* registrations that succeeded: [file, target, field, type]
  command   \* the last command: its number, its outcome and why

generatorVars == <<tree, dirs, log, command>>

NoTarget == <<>>
Opaque == [attr |-> "opaque"]   \* a file that is only written

-----------------------------------------------------------------------------
(* Names. *)

TrimChars(s, drop) ==
  LET kept == {i \in DOMAIN s : s[i] \notin drop}
  IN  IF kept = {} THEN <<>>
      ELSE SubSeq(s, CHOOSE i \in kept : \A j \in kept : i <= j,
                     CHOOSE i \in kept : \A j \in kept : i >= j)

\* normalize_generator_name; <<>> is refused.
Normalized(given) ==
  LET trimmed == TrimChars(given, {" "})
      lowered == [i \in DOMAIN trimmed |->
                    IF trimmed[i] \in DOMAIN Lower THEN Lower[trimmed[i]]
                    ELSE IF trimmed[i] \in Letters THEN trimmed[i] ELSE "_"]
  IN  TrimChars(lowered, {"_"})

Upper(c) == IF \E u \in DOMAIN Lower : Lower[u] = c THEN CHOOSE u \in DOMAIN Lower : Lower[u] = c ELSE c

\* to_pascal_case: every segment between underscores capitalised, empty ones dropped.
PascalCase(name) ==
  LET starts == [i \in DOMAIN name |-> IF i = 1 \/ name[i - 1] = "_" THEN Upper(name[i]) ELSE name[i]]
  IN  SelectSeq(starts, LAMBDA c : c # "_")

TypeName(name, kind) == Append(PascalCase(name), kind)

-----------------------------------------------------------------------------
(* Paths. *)

Canonical(path) ==
  FoldLeft(LAMBDA p, c : IF c = <<"..">> THEN SubSeq(p, 1, Len(p) - 1) ELSE Append(p, c), <<>>, path)

\* relative_path_string, of two absolute paths; a ".." of from is not a step to climb.
RelativePath(from, to) ==
  LET shared == Len(LongestCommonPrefix({from, to}))
      climbed == SelectSeq(SubSeq(from, shared + 1, Len(from)), LAMBDA c : c # <<"..">>)
  IN  [i \in 1 .. Len(climbed) |-> <<"..">>] \o SubSeq(to, shared + 1, Len(to))

-----------------------------------------------------------------------------
(* The body of #[module({...})]. *)

Openers == {<<"[">>, <<"{">>, <<"(">>}
Opening == (<<"]">> :> <<"[">>) @@ (<<"}">> :> <<"{">>) @@ (<<")">> :> <<"(">>)
Comma == <<",">>
Colon == <<":">>

\* The pieces of a body or of an array between the commas that no bracket encloses,
\* empty ones dropped; a closing bracket too many is ignored.
Split(tokens) ==
  LET Read(acc, t) ==
        IF t = Comma /\ \A o \in Openers : acc.depth[o] = 0
          THEN [acc EXCEPT !.pieces = Append(@, acc.piece), !.piece = <<>>]
        ELSE [acc EXCEPT !.piece = Append(@, t),
                         !.depth = [o \in Openers |->
                           IF o = t THEN @[o] + 1
                           ELSE IF t \in DOMAIN Opening /\ o = Opening[t] /\ @[o] > 0 THEN @[o] - 1
                           ELSE @[o]]]
      end == FoldLeft(Read, [depth |-> [o \in Openers |-> 0], piece |-> <<>>, pieces |-> <<>>], tokens)
  IN  SelectSeq(Append(end.pieces, end.piece), LAMBDA p : p # <<>>)

Punctuation == Openers \cup DOMAIN Opening \cup {Colon, Comma}

\* parse_module_fields, parse_array_items: what they refuse.
ReadableField(piece) == Len(piece) >= 2 /\ piece[1] \notin Punctuation /\ piece[2] = Colon
IsArray(value) == Len(value) >= 2 /\ value[1] = <<"[">> /\ value[Len(value)] = <<"]">>
Items(value) == Split(SubSeq(value, 2, Len(value) - 1))

\* render_array_items.
Array(items) == <<<<"[">>>> \o FlattenSeq([i \in DOMAIN items |-> Append(items[i], Comma)]) \o <<<<"]">>>>

\* Slip: the field gets the new item alone.
WithItem_Alone(piece, item) == SubSeq(piece, 1, 2) \o Array(<<<<item>>>>)

\* The field with the item, once.
WithItem(piece, item) ==
  LET items == Items(SubSeq(piece, 3, Len(piece)))
  IN  SubSeq(piece, 1, 2) \o Array(IF Contains(items, <<item>>) THEN items ELSE Append(items, <<item>>))

\* upsert_module_metadata, of a file that Upsertable accepts: the first field of the name, or a new one.
Upsert(body, field, item) ==
  LET pieces == Split(body)
      at == SelectInSeq(pieces, LAMBDA p : p[1] = field)
      updated == IF at = 0 THEN Append(pieces, <<field, Colon>> \o Array(<<<<item>>>>))
                 ELSE [pieces EXCEPT ![at] = WithItem(@, item)]
  IN  FlattenSeq([i \in DOMAIN updated |-> Append(updated[i], Comma)])

\* find_module_body finds one, and its fields can be read.
Upsertable(file, field) ==
  /\ file.attr = "module"
  /\ LET pieces == Split(file.body)
         at == SelectInSeq(pieces, LAMBDA p : p[1] = field)
     IN  /\ \A i \in DOMAIN pieces : ReadableField(pieces[i])
         /\ at # 0 => IsArray(SubSeq(pieces[at], 3, Len(pieces[at])))

-----------------------------------------------------------------------------
(* Writing. *)

ModLine(ident, path) == [line |-> "mod", ident |-> ident, path |-> path]
UseLine(ident, type) == [line |-> "use", ident |-> ident, type |-> type]

\* The templates: a module file has an empty body, the others are not read again.
Template(kind) ==
  IF kind = "module" THEN [attr |-> "module", lines |-> {}, body |-> <<>>] ELSE Opaque

\* ensure_import_block, then upsert_module_metadata.
WithRegistration(file, target, path, field, type) ==
  LET relative == RelativePath(SubSeq(target, 1, Len(target) - 1), path)
      ident == Last(path)
  IN  [file EXCEPT !.lines = @ \cup {ModLine(ident, relative), UseLine(ident, type)},
                   !.body = Upsert(@, field, type)]

Fields == [module |-> <<"imports">>, controller |-> <<"controllers">>, service |-> <<"providers">>]

Without(f, paths) == [p \in (DOMAIN f) \ paths |-> f[p]]

\* What a command came to.
Ends(outcome, why) == command' = [number |-> command.number + 1, outcome |-> outcome, why |-> why]

May == command.number < MaxCommands

GeneratorInit ==
  /\ tree = HandWritten
  /\ dirs = {}
  /\ log = {}
  /\ command = [number |-> 0, outcome |-> "none", why |-> "none"]

Refuse(why) == Ends("error", why) /\ UNCHANGED <<tree, log>>

\* scaffold_new_project: into a directory that is not there, file after file until
\* one cannot be written.
ProjectFiles ==
  LET under(dir, files) == [i \in DOMAIN files |-> <<<<dir>>, <<files[i]>>>>]
  IN  <<<<<<"Cargo.toml">>>>, <<<<".env">>>>, <<<<".gitignore">>>>>> \o under("src", <<"main", "app_module">>)
        \o under("statecharts", <<"application", "module", "provider", "request">>)

New(given) ==
  /\ May
  /\ LET name == TrimChars(given, {" "})
         dir == Append(Cwd, name)
         written(n) == [p \in {dir \o ProjectFiles[i] : i \in 1 .. n} |->
                          IF Last(p) = <<"app_module">> THEN Template("module") ELSE Opaque]
     IN  IF name = <<>> THEN Refuse("name") /\ UNCHANGED dirs
         ELSE IF dir \in dirs THEN Refuse("exists") /\ UNCHANGED dirs
         ELSE /\ dirs' = dirs \cup {dir}
              /\ \E n \in 0 .. Len(ProjectFiles) :
                   /\ tree' = written(n) @@ tree
                   /\ IF n = Len(ProjectFiles) THEN Ends("ok", "none") ELSE Ends("error", "disk")
              /\ UNCHANGED log

\* Slip: the file stays.
Unregistered_Kept(files, path) == files

\* What is left when registering failed.
Unregistered(files, path) == Without(files, {path})

\* register_generated_item, in the module file at target, of the file just written.
RegisterIn(files, path, target, field, type) ==
  LET at == Canonical(target)
      with == WithRegistration(files[at], target, path, field, type)
      torn == [attr |-> "torn"]
  IN  IF ~Upsertable(files[at], field)
        THEN tree' = Unregistered(files, path) /\ Ends("error", "module") /\ UNCHANGED log
      ELSE \/ /\ tree' = [files EXCEPT ![at] = with]
              /\ log' = log \cup {[file |-> path, target |-> target, field |-> field, type |-> type]}
              /\ Ends("ok", "none")
           \/ /\ tree' \in {Unregistered(files, path), Unregistered([files EXCEPT ![at] = torn], path)}
              /\ Ends("error", "disk")
              /\ UNCHANGED log

\* generate_module, generate_controller and the others: what is written where.
GeneratedFile(kind, name) == [path |-> Cwd \o <<name, Append(name, kind)>>, content |-> Template(kind)]

\* generate_named_file and the others write no file twice.
AlreadyThere(file) == file.path \in DOMAIN tree

\* generate_<kind>_command.  A target that is not there is only noticed when the file has
\* been written, and the file stays.
Generate(kind, given, target) ==
  /\ May
  /\ target = NoTarget \/ kind \in DOMAIN Fields
  /\ LET name == Normalized(given)
         file == GeneratedFile(kind, name)
         written == (file.path :> file.content) @@ tree
         at == Cwd \o target
     IN  IF name = <<>> THEN Refuse("name") /\ UNCHANGED dirs
         ELSE /\ dirs' = dirs \cup {Append(Cwd, name)}
              /\ IF AlreadyThere(file) THEN Refuse("exists")
                 ELSE \/ Refuse("disk")
                      \/ IF target = NoTarget
                           THEN tree' = written /\ Ends("ok", "none") /\ UNCHANGED log
                         ELSE IF Canonical(at) \notin DOMAIN written
                           THEN tree' = written /\ Ends("error", "target") /\ UNCHANGED log
                         ELSE RegisterIn(written, file.path, at, Fields[kind], TypeName(name, kind))

\* generate_resource: none of the files may be there; then one after the other.
Resource(given) ==
  /\ May
  /\ LET name == Normalized(given)
         dir == Append(Cwd, name)
         files == <<Append(dir, Append(name, "module")), Append(dir, Append(name, "controller")),
                    Append(dir, Append(name, "service")), dir \o <<<<"dto">>, Append(name, "create")>>,
                    dir \o <<<<"dto">>, Append(name, "update")>>>>
         written(n) == [p \in {files[i] : i \in 1 .. n} |->
                          Template(IF p = files[1] THEN "module" ELSE "other")]
     IN  IF name = <<>> THEN Refuse("name") /\ UNCHANGED dirs
         ELSE /\ dirs' = dirs \cup {dir, Append(dir, <<"dto">>)}
              /\ IF \E i \in DOMAIN files : files[i] \in DOMAIN tree THEN Refuse("exists")
                 ELSE \E n \in 0 .. Len(files) :
                        /\ tree' = written(n) @@ tree
                        /\ IF n = Len(files) THEN Ends("ok", "none") ELSE Ends("error", "disk")
                        /\ UNCHANGED log

GeneratorNext ==
  \E given \in GivenNames :
    \/ New(given)
    \/ Resource(given)
    \/ \E kind \in Kinds, target \in Targets \cup {NoTarget} : Generate(kind, given, target)

-----------------------------------------------------------------------------

Straight(target) == \A i \in DOMAIN target : target[i] # <<"..">>

\* Whatever is generated afterwards, and wherever, a registration that succeeded stands: the
\* module file declares a module at a path that leads from it to the generated file, imports
\* its type, and lists the type once in its field; a file torn by a write that failed
\* excepted, and a path typed with "..", whose relative path is wrong (cli main.rs:660-996).
RegistrationsStand ==
  \A r \in log :
    LET file == tree[Canonical(r.target)]
        from == SubSeq(r.target, 1, Len(r.target) - 1)
        pieces == Split(file.body)
        listed == {i \in DOMAIN pieces : pieces[i][1] = r.field}
    IN  file.attr # "torn" =>
          /\ \E l \in file.lines :
               /\ l.line = "mod" /\ l.ident = Last(r.file)
               /\ Straight(r.target) => Canonical(from \o l.path) = r.file
          /\ UseLine(Last(r.file), r.type) \in file.lines
          /\ \E i \in listed :
               LET items == Items(SubSeq(pieces[i], 3, Len(pieces[i])))
               IN  Cardinality({j \in DOMAIN items : items[j] = <<r.type>>}) = 1

\* A command that fails changes no file, unless the disk failed it, or the module file it
\* was to register in was not there: then what it generated stays, and the same
\* command with the right path is refused (cli main.rs:211-263, 643-653).
FailuresLeaveNoFile ==
  [][command'.outcome = "error" /\ command'.why \notin {"disk", "target"} => tree' = tree]_generatorVars
=============================================================================
