----------------------------- MODULE MCBuildTime -----------------------------
(* What runs before a request is served and shares no state: the walk over modules or providers, *)
(* the module registry, the controller macros with the application facade, configuration, and    *)
(* the command line generator.  `part` is the one a behaviour moves; the others stay where they   *)
(* started.                                                                                      *)
EXTENDS DependencyWalk, ModuleRegistry, Application, Config, Generator

CONSTANTS m1, m2, m3, T

VARIABLE part

BuildParts == {"walk", "registry", "application", "config", "generator"}

-----------------------------------------------------------------------------
(* Modules: rings of one, two and three, imports not registered (yet), re-exports over two steps; *)
(* a global module that exports nothing is left out.                                              *)

MCNames == <<m1, m2, m3>>
MCMetadata ==
  {md \in [imports  : {SetToSeq(S) : S \in {Z \in SUBSET {m1, m2, m3} : Cardinality(Z) <= 2}},
           provides : SUBSET {T},
           exports  : SUBSET {T},
           global   : BOOLEAN] : md.global => md.exports # {}}

-----------------------------------------------------------------------------
(* Controllers: attributes above the class and above its methods, alone, twice and conflicting. *)

A(name, args) == [name |-> name, args |-> args]
Get(at) == A("get", at)
Signature(name, async, params) == [name |-> name, async |-> async, receiver |-> TRUE, params |-> params]
Param(type, extractors, pipes) == [type |-> type, extractors |-> extractors, pipes |-> pipes]
Extractor(kind, named) == [kind |-> kind, named |-> named]
Method(signature, attrs) == [signature |-> signature, attrs |-> attrs]

MCControllerPaths == {<<"/", "users">>, <<"users">>, <<"/">>}
MCClassAttributes ==
  <<A("guard", <<"G", "H">>), A("pipe", <<"P">>), A("roles", <<<<"r", "s">>, <<>>>>), A("roles", <<<<>>>>),
    A("throttle", <<1, 60>>), A("throttle", <<5, 60>>), A("skip_throttle", <<>>),
    A("set_metadata", <<[key |-> <<"a", "b">>, value |-> <<"c">>]>>)>>
F == Signature("f", FALSE, <<>>)
G == Signature("g", FALSE, <<Param("NivasaRequest", <<>>, <<>>)>>)
H(extractors, pipes) == Signature("h", FALSE, <<Param("Dto", extractors, pipes)>>)
MCMethodTexts ==
  <<Method(F, <<Get(<<"/", "list">>)>>),
    Method(F, <<Get(<<"list", "/">>)>>),
    Method(F, <<A("skip_throttle", <<>>), A("post", <<"/", "list">>)>>),
    Method(G, <<Get(<<"/", "list">>), A("throttle", <<2, 30>>)>>),
    Method(G, <<Get(<<"/">>)>>),
    Method(G, <<A("guard", <<"G">>)>>),
    Method(G, <<>>),
    Method(Signature("g", TRUE, <<>>), <<Get(<<"/">>)>>),
    Method(H(<<Extractor("body", FALSE)>>, <<"P">>), <<A("get", <<"/">>), A("get", <<"/">>)>>),
    Method(H(<<Extractor("param", TRUE)>>, <<>>), <<A("put", <<"/">>)>>),
    Method(H(<<Extractor("ip", TRUE)>>, <<>>), <<A("put", <<"/">>)>>),
    Method(H(<<>>, <<"P">>), <<>>)>>
MCGlobalPrefixes == {<<>>, <<"/">>, <<"api", "/">>, <<"/", "api">>}

-----------------------------------------------------------------------------
(* Files that refer to one another, quote, comment and repeat; e stands for a letter of two bytes. *)

MCEnvFiles ==
  {<<<<"A", "=", "$", "B">>>>,
   <<<<"export", "A", " ", "=", " ", "'", "$", "{", "B", "}", "x", "'">>, <<"B", "=", "u">>>>,
   <<<<"#", "A", "=", "x">>, <<"B", "=", "$", "A", "$", "C">>, <<"C", "=", "e">>>>,
   <<<<"A", "=", "$", "{", "C">>, <<"=", "x">>, <<"B">>, <<"C", "=", "$", "-", "$">>>>,
   <<<<"A", "=", "$", "A", "$", "B">>>>,
   <<<<"C", "=", "$", "B">>, <<"C", "=", "\"", "$", "A">>, <<" ">>>>,
   <<<<"A", "=", "$", "B">>, <<"B", "=", "$", "C">>, <<"C", "=", "$", "D">>, <<"D", "=", "$", "F", "x">>>>,
   <<>>}
MCEnvironments ==
  {<<>>, <<"B">> :> <<"p">>, (<<"B">> :> <<"$", "C">>) @@ (<<"C">> :> <<"e", "q">>)}
MCSchemas ==
  <<[required |-> <<<<"A">>, <<" ">>, <<"B", " ">>, <<"A">>>>, defaults |-> <<>>, rejects |-> {<<"p">>}],
    [required |-> <<<<"A">>, <<"C">>>>, defaults |-> <<"A">> :> <<"p">>, rejects |-> {}]>>
MCNameStart == {"A", "B", "C", "D", "F", "_", "x", "u", "p", "q"}
MCNameContinue == MCNameStart \cup {"1"}
MCBytes == "e" :> <<"e1", "e2">>

-----------------------------------------------------------------------------
(* Commands: names that meet in one file name or type, paths that go up, modules edited by hand. *)

Tok(s) == [i \in DOMAIN s |-> <<s[i]>>]
MCGivenNames == {<<"a">>, <<"A", "-", "b">>, <<"-", " ">>}
MCLower == "A" :> "a" @@ "B" :> "b"
MCTargets ==
  {Tok(<<"src", "app">>), Tok(<<"src", "..", "src", "app">>), <<<<"a">>, <<"a", "module">>>>,
   Tok(<<"src", "lib">>)}
MCCwd == Tok(<<"w">>)
ModuleFile(body) == [attr |-> "module", lines |-> {}, body |-> Tok(body)]
MCHandWritten ==
  (Tok(<<"w", "src", "app">>) :>
     ModuleFile(<<"imports", ":", "[", "X", "(", "Y", ",", "Z", ")", ",", "]", ",", "exports", ":", "[", "]">>))
  @@ (Tok(<<"w", "src", "lib">>) :> ModuleFile(<<"providers", ":", "x", ",", "=">>))

-----------------------------------------------------------------------------
Only(name, Starts, Rests) == IF part = name THEN Starts ELSE Rests

\* A walk that is over: no graph is left to order.
NoWalk ==
  /\ strict = FALSE
  /\ nodes = {}
  /\ deps = [n \in {} |-> <<>>]
  /\ roots = <<>>
  /\ path = <<>>
  /\ next = [n \in {} |-> 1]
  /\ order = <<>>
  /\ outcome = "ok"

NoConfig ==
  /\ options = [paths |-> <<1>>, ignore |-> FALSE, expand |-> FALSE]
  /\ disk = [f \in {1, 2} |-> <<>>]
  /\ environ = <<>>
  /\ sets = 0
  /\ root = NoRoot
  /\ service = NoService

BuildInit ==
  /\ part \in BuildParts
  /\ Only("walk", Init, NoWalk)
  /\ RegistryInit
  /\ ApplicationInit
  /\ Only("config", ConfigInit, NoConfig)
  /\ GeneratorInit

BuildNext ==
  /\ UNCHANGED part
  /\ \/ part = "walk" /\ Next
          /\ UNCHANGED <<entries, textVars, appVars, configVars, generatorVars>>
     \/ part = "registry" /\ RegistryNext
          /\ UNCHANGED <<vars, textVars, appVars, configVars, generatorVars>>
     \/ part = "application" /\ ApplicationNext
          /\ UNCHANGED <<vars, entries, configVars, generatorVars>>
     \/ part = "config" /\ ConfigNext
          /\ UNCHANGED <<vars, entries, textVars, appVars, generatorVars>>
     \/ part = "generator" /\ GeneratorNext
          /\ UNCHANGED <<vars, entries, textVars, appVars, configVars>>

\* The walk is one synchronous call: it runs on as long as it can.
BuildSpec ==
  /\ BuildInit
  /\ [][BuildNext]_<<part, vars, entries, textVars, appVars, configVars, generatorVars>>
  /\ WF_vars(part = "walk" /\ Next)
=============================================================================
