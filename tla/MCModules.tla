------------------------------ MODULE MCModules ------------------------------
(* What modules are run with and that shares no state, side by side: the orchestrator of          *)
(* MCOrchestrator; one container under calls that do not overlap, with the Arcs it hands out; and *)
(* charts of three states, every nesting of them, with elements that close themselves and two     *)
(* transitions, with targets or without, directly in a state or in an <initial> or a <history> of *)
(* it.  `part` is the one a behaviour moves.                                                      *)
EXTENDS MCOrchestrator, ContainerArcs, Charts

MCChartIds == <<"a", "b", "c">>
MCInitialAttrs == {NoId, "c"}
Element(event, target) == [event |-> event, target |-> target]
MCTransitionElements == {Element("go", <<"b", "c">>), Element("halt", <<>>)}
MCWellNamed == {"go", "halt"}

-----------------------------------------------------------------------------
VARIABLE part

moduleVars == <<orchestratorVars, vars, arcs, apart, chartVars>>

\* The graph and the chart's `initial` are left open in their own part alone.
ModulesInit ==
  /\ part \in {"orchestrator", "container", "charts"}
  /\ OrchestratorInit
  /\ ArcsInit
  /\ ChartsInit
  /\ part # "orchestrator" => meta = CHOOSE g \in Graphs : TRUE
  /\ part # "charts" => parser.initial = NoId

ModulesNext ==
  /\ UNCHANGED part
  /\ \/ part = "orchestrator" /\ OrchestratorNext /\ UNCHANGED <<vars, arcs, apart, chartVars>>
     \/ part = "container" /\ ArcsNext /\ UNCHANGED <<orchestratorVars, chartVars>>
     \/ part = "charts" /\ ChartsNext /\ UNCHANGED <<orchestratorVars, vars, arcs, apart>>

ModulesSpec == ModulesInit /\ [][ModulesNext]_<<part, moduleVars>>
=============================================================================
