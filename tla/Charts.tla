------------------------------- MODULE Charts -------------------------------
(***************************************************************************)
(* How a statechart becomes an engine (crate nivasa-statechart).  A        *)
(* document is read element by element (parser.rs), validated              *)
(* (validator.rs), turned into Rust tables (codegen.rs) that rustc accepts *)
(* or not, as build.rs does for every chart, and run by the engine         *)
(* (engine.rs).                                                            *)
(*                                                                         *)
(* `source` is the document as its author nests it: what the schema        *)
(* (scxml-module-core.xsd) lets through is written one element at a time,  *)
(* and each transition is kept under the element it stands in, be it the   *)
(* state itself, its <initial> or a <history> of it.  Everything else is   *)
(* the program's.  Identifiers are used in the order of ChartIds: which    *)
(* name a state has makes no difference.                                   *)
(***************************************************************************)
EXTENDS Naturals, Sequences, SequencesExt, FiniteSets

CONSTANTS
  ChartIds,            \* the ids of states, a sequence
  InitialAttrs,        \* the `initial` attributes tried, NoId for none
  TransitionElements,  \* the <transition> elements tried
  WellNamed,           \* events that are dot-separated words
  NoId,                \* None
  MaxTransitions,      \* bound on the transitions of a document
  MaxRecent            \* MAX_RECENT_TRANSITIONS

ASSUME ChartsAssumption ==
  /\ ChartIds \in Seq(ToSet(ChartIds)) /\ NoId \notin ToSet(ChartIds)
  /\ \A i, j \in DOMAIN ChartIds : ChartIds[i] = ChartIds[j] => i = j
  /\ \A t \in TransitionElements : t.target \in Seq(ToSet(t.target))
  /\ MaxTransitions \in Nat /\ MaxRecent \in Nat \ {0}

VARIABLES
  source,   \* the document: open elements, and what is inside each state
  parser,   \* parent_stack, current_state_id, states, top_level_states, initial
  phase,    \* "reading", "rejected" (the build fails), "built", "crashed"
  engine    \* current_state, recent_transitions, and the kind of build

chartVars == <<source, parser, phase, engine>>

NoEngine == [current |-> NoId, recent |-> <<>>, debug |-> FALSE]

Unwritten(left) == [open |-> <<>>, inside |-> <<>>, left |-> left]

ChartsInit ==
  /\ source = Unwritten(MaxTransitions)
  /\ \E initial \in InitialAttrs :
       parser = [parent_stack |-> <<>>, current |-> NoId, states |-> <<>>,
                 top_level |-> <<>>, initial |-> initial]
  /\ phase = "reading"
  /\ engine = NoEngine

-----------------------------------------------------------------------------
(* The author: elements nest as the schema lets them. *)

Fresh == ChartIds[Cardinality(DOMAIN parser.states) + 1]

Enclosing == IF source.open = <<>> THEN "scxml" ELSE Last(source.open).kind

\* The innermost <state> or <parallel> that is open.
Owner == LET regions == {i \in DOMAIN source.open : source.open[i].kind \in {"state", "parallel"}}
         IN  IF regions = {} THEN NoId
             ELSE source.open[CHOOSE i \in regions : \A k \in regions : k <= i].id

MayOpen == /\ phase = "reading"
           /\ Cardinality(DOMAIN parser.states) < Len(ChartIds)
           /\ Enclosing \in {"scxml", "state", "parallel"}

Opens(kind, id, empty) ==
  IF empty THEN source.open ELSE Append(source.open, [kind |-> kind, id |-> id])

\* What stands in a new element: nothing yet.
Bare(kind) == [kind |-> kind, parent |-> Owner, transitions |-> <<>>, initial |-> <<>>, history |-> <<>>]

Writes(kind, empty) ==
  source' = [source EXCEPT !.open = Opens(kind, Fresh, empty),
                           !.inside = [s \in DOMAIN source.inside \cup {Fresh} |->
                                         IF s = Fresh THEN Bare(kind) ELSE source.inside[s]]]

-----------------------------------------------------------------------------
(* ScxmlDocument::from_str. *)

Parent == IF parser.parent_stack = <<>> THEN NoId ELSE Last(parser.parent_stack)

NewState(type, initial) ==
  [type |-> type, parent |-> Parent, children |-> <<>>, initial |-> initial,
   transitions |-> <<>>]

\* The enclosing state gets a child and is Compound if it was Atomic; a state that
\* nothing encloses is a top-level one.
Declare(id, state) ==
  LET states == [s \in DOMAIN parser.states \cup {id} |->
                   IF s = id THEN state
                   ELSE IF s # Parent THEN parser.states[s]
                   ELSE [parser.states[s] EXCEPT
                           !.children = Append(@, id),
                           !.type = IF @ = "Atomic" THEN "Compound" ELSE @]]
  IN  [parser EXCEPT !.states = states,
                     !.top_level = IF Parent = NoId THEN Append(@, id) ELSE @]

\* Slip: a self-closing element goes on the stack too.
Entering_Always(id, declared, empty) ==
  [declared EXCEPT !.parent_stack = Append(@, id), !.current = id]

\* Only an element that has an end tag goes on the stack.
Entering(id, declared, empty) ==
  IF empty THEN [declared EXCEPT !.current = Parent]
  ELSE [declared EXCEPT !.parent_stack = Append(@, id), !.current = id]

ReadState ==
  /\ MayOpen
  /\ \E initial \in InitialAttrs, empty \in BOOLEAN :
       /\ parser' = Entering(Fresh, Declare(Fresh, NewState("Atomic", initial)), empty)
       /\ Writes("state", empty)
  /\ UNCHANGED <<phase, engine>>

ReadParallel ==
  /\ MayOpen
  /\ \E empty \in BOOLEAN :
       /\ parser' = Entering(Fresh, Declare(Fresh, NewState("Parallel", NoId)), empty)
       /\ Writes("parallel", empty)
  /\ UNCHANGED <<phase, engine>>

\* A final state never becomes the current one: what is inside it is read as if it
\* were inside the state around it.
ReadFinal ==
  /\ MayOpen
  /\ Enclosing # "parallel"
  /\ parser' = Declare(Fresh, NewState("Final", NoId))
  /\ \E empty \in BOOLEAN : Writes("final", empty)
  /\ UNCHANGED <<phase, engine>>

\* The parser gives a transition to the current state, whatever element it stands in.
GivesCurrent(t) ==
  parser' = IF parser.current = NoId THEN parser
            ELSE [parser EXCEPT !.states[parser.current].transitions = Append(@, t)]

ReadTransition ==
  /\ phase = "reading"
  /\ Enclosing \in {"state", "parallel"}
  /\ source.left > 0
  /\ \E t \in TransitionElements :
       /\ GivesCurrent(t)
       /\ source' = [source EXCEPT !.inside[Owner].transitions = Append(@, t), !.left = @ - 1]
  /\ UNCHANGED <<phase, engine>>

\* <initial> and the one transition in it: the element itself has no arm in the parser.
ReadInitial ==
  /\ phase = "reading"
  /\ Enclosing = "state"
  /\ source.left > 0
  /\ \E t \in TransitionElements :
       /\ GivesCurrent(t)
       /\ source' = [source EXCEPT !.inside[Owner].initial = Append(@, t), !.left = @ - 1]
  /\ UNCHANGED <<phase, engine>>

\* <history> and the one transition in it; the element declares no state.
ReadHistory ==
  /\ phase = "reading"
  /\ Enclosing \in {"state", "parallel"}
  /\ source.left > 0
  /\ \E t \in TransitionElements :
       /\ GivesCurrent(t)
       /\ source' = [source EXCEPT !.inside[Owner].history = Append(@, t), !.left = @ - 1]
  /\ UNCHANGED <<phase, engine>>

\* The end tag of whatever is open; only <state> and <parallel> were on the stack.
ReadEnd ==
  /\ phase = "reading"
  /\ source.open # <<>>
  /\ source' = [source EXCEPT !.open = Front(@)]
  /\ parser' =
       IF Enclosing \in {"state", "parallel"}
         THEN LET stack == IF parser.parent_stack = <<>> THEN <<>> ELSE Front(parser.parent_stack)
              IN  [parser EXCEPT !.parent_stack = stack,
                                 !.current = IF stack = <<>> THEN NoId ELSE Last(stack)]
         ELSE parser
  /\ UNCHANGED <<phase, engine>>

-----------------------------------------------------------------------------
(* validator::validate. *)

States == parser.states
HasState(id) == id \in DOMAIN States
TransitionsOf(id) == ToSet(States[id].transitions)
TargetsOf(id) == UNION {ToSet(t.target) : t \in TransitionsOf(id)}

InitialId == IF parser.initial # NoId THEN parser.initial
             ELSE IF parser.top_level # <<>> THEN Head(parser.top_level) ELSE NoId

\* Slip: the initial state is taken for one of the children.
Follow_ChildrenOnly(id) == TargetsOf(id) \cup ToSet(States[id].children)

\* What compute_reachable follows from one state.
Follow(id) == TargetsOf(id) \cup ToSet(States[id].children) \cup ({States[id].initial} \ {NoId})

\* compute_reachable: the worklist never holds more than every state once more.
Reachable(id) ==
  LET grow[n \in 0 .. Cardinality(DOMAIN States)] ==
        IF n = 0 THEN {id}
        ELSE grow[n - 1] \cup UNION {Follow(s) : s \in grow[n - 1] \cap DOMAIN States}
  IN  grow[Cardinality(DOMAIN States)]

ErrorRules ==
  (IF IF parser.initial # NoId THEN HasState(parser.initial) ELSE parser.top_level # <<>>
     THEN {} ELSE {"MissingInitial"})
  \cup {"InvalidTarget" : s \in {x \in DOMAIN States : ~ \A t \in TargetsOf(x) : HasState(t)}}
  \cup {"InvalidEventName" : s \in {x \in DOMAIN States :
          \E t \in TransitionsOf(x) : t.event \notin WellNamed \cup {"*", NoId}}}

Unreachable ==
  LET reachable == Reachable(InitialId)
  IN  {s \in DOMAIN States : /\ s \notin reachable
                             /\ States[s].type # "Final"
                             /\ States[s].parent \notin reachable}

-----------------------------------------------------------------------------
(* codegen::generate_rust: an arm for every transition that has an event and a target, tried in *)
(* the order of the document; conditions are not generated.                                      *)

Arms(id) == {i \in DOMAIN States[id].transitions :
               /\ States[id].transitions[i].event # NoId
               /\ States[id].transitions[i].target # <<>>}

Transition(id, event) ==
  LET arms == {i \in Arms(id) : States[id].transitions[i].event = event}
  IN  IF arms = {} THEN NoId
      ELSE Head(States[id].transitions[CHOOSE i \in arms : \A k \in arms : i <= k].target)

ValidEvents(id) == {t.event : t \in TransitionsOf(id)} \ {NoId}

IsFinal(id) == States[id].type = "Final"

EventNames == UNION {ValidEvents(id) : id \in DOMAIN States}

\* The generated function calls itself for a state that names an initial child.
EnterInitialState(id) ==
  LET deeper[n \in 0 .. Cardinality(DOMAIN States)] ==
        IF n = 0 THEN id
        ELSE IF States[deeper[n - 1]].initial = NoId THEN deeper[n - 1]
        ELSE States[deeper[n - 1]].initial
  IN  deeper[Cardinality(DOMAIN States)]

\* A ring of initial children is followed until the stack overflows.
Overflows(id) == States[EnterInitialState(id)].initial # NoId

\* What rustc asks of the generated file: every name in it is a variant, `*` is no
\* variant, and is_final is matches!(state, _ if false => true), which does not
\* parse, when no state is final.
Compiles ==
  /\ \A s \in DOMAIN States : States[s].initial = NoId \/ HasState(States[s].initial)
  /\ EventNames \subseteq WellNamed
  /\ \E s \in DOMAIN States : IsFinal(s)

\* build.rs: the schema and the parser let the document through; a validation error
\* stops the build, warnings do not.
RunBuildScript ==
  /\ phase = "reading"
  /\ source.open = <<>>
  /\ phase' = IF ErrorRules = {} /\ Compiles THEN "built" ELSE "rejected"
  /\ UNCHANGED <<source, parser, engine>>

-----------------------------------------------------------------------------
(* StatechartEngine. *)

\* StatechartEngine::new with the document's initial state, as every caller does.
NewEngine ==
  /\ phase = "built"
  /\ engine.current = NoId
  /\ IF Overflows(InitialId)
       THEN phase' = "crashed" /\ UNCHANGED engine
       ELSE \E debug \in BOOLEAN :
              /\ engine' = [NoEngine EXCEPT !.current = EnterInitialState(InitialId), !.debug = debug]
              /\ UNCHANGED phase
  /\ UNCHANGED <<source, parser>>

\* record_transition: debug builds keep the last MaxRecent attempts.
Recorded(event, to) ==
  LET attempt == [from |-> engine.current, event |-> event, to |-> to]
      kept    == IF Len(engine.recent) >= MaxRecent THEN Tail(engine.recent) ELSE engine.recent
  IN  IF engine.debug THEN Append(kept, attempt) ELSE <<>>

SendEvent(event) ==
  LET target == Transition(engine.current, event)
      entered == EnterInitialState(target)
  IN  /\ phase = "built"
      /\ engine.current # NoId
      /\ \/ /\ target # NoId
            /\ ~Overflows(target)
            /\ engine' = [engine EXCEPT !.recent = Recorded(event, entered), !.current = entered]
            /\ UNCHANGED phase
         \/ /\ target # NoId
            /\ Overflows(target)
            /\ phase' = "crashed"
            /\ UNCHANGED engine
         \/ /\ target = NoId                     \* a panic in debug builds, an Err in others
            /\ engine' = [engine EXCEPT !.recent = Recorded(event, NoId)]
            /\ phase' = IF engine.debug THEN "crashed" ELSE phase
      /\ UNCHANGED <<source, parser>>

ChartsNext ==
  \/ ReadState \/ ReadParallel \/ ReadFinal
  \/ ReadTransition \/ ReadInitial \/ ReadHistory \/ ReadEnd
  \/ RunBuildScript
  \/ NewEngine
  \/ \E event \in EventNames : SendEvent(event)

ChartsSpec == ChartsInit /\ [][ChartsNext]_chartVars

-----------------------------------------------------------------------------

\* What the parser holds of state `id` is what its author nested there: the states inside it,
\* the kind that these make it, and the transitions that stand directly in it, in their order.
\* A state with an <initial> or a <history> is the exception: the parser has no arm for
\* either (parser.rs:339-345), so their transitions are mixed with the state's own, and the
\* property says only that none of these is lost.
KeptAsWritten(id) ==
  LET read == parser.states[id]
      text == source.inside[id]
      inner == {c \in DOMAIN source.inside : source.inside[c].parent = id}
  IN  /\ read.parent = text.parent
      /\ ToSet(read.children) = inner
      /\ read.type = CASE text.kind = "final" -> "Final"
                       [] text.kind = "parallel" -> "Parallel"
                       [] text.kind = "state" /\ inner # {} -> "Compound"
                       [] OTHER -> "Atomic"
      /\ text.initial = <<>> /\ text.history = <<>> => read.transitions = text.transitions
      /\ Len(read.transitions) = Len(text.transitions) + Len(text.initial) + Len(text.history)
      /\ ToSet(text.transitions) \subseteq ToSet(read.transitions)

\* However elements open, close themselves or nest, the parser holds the states that were
\* written and no others, each as it was written (parser.rs:158-190, 235-345).
DocumentKept ==
  /\ DOMAIN parser.states = DOMAIN source.inside
  /\ \A id \in DOMAIN source.inside : KeptAsWritten(id)

\* An engine is never in a state that the validator warned to be unreachable, nor in
\* a container whose `initial` attribute names a child (engine.rs:90-94, validator.rs:239-275).
NeverStrays ==
  engine.current # NoId =>
    /\ engine.current \in Reachable(InitialId) \ Unreachable
    /\ States[engine.current].initial = NoId

\* The history is a path that ends where the engine is: each attempt starts where
\* the one before it led, and a refused one is the last (engine.rs:492-500).
HistoryIsThePath ==
  LET h == engine.recent
  IN  /\ Len(h) <= MaxRecent
      /\ \A i \in 1 .. Len(h) - 1 : h[i].to # NoId /\ h[i].to = h[i + 1].from
      /\ h # <<>> => engine.current = IF Last(h).to = NoId THEN Last(h).from ELSE Last(h).to
      /\ \A i \in DOMAIN h : h[i].to # NoId => h[i].event \in ValidEvents(h[i].from)

\* The engine is where its history led it, among the states the build did not call unreachable
\* (engine.rs:90-94, 492-500).
EngineOnCourse == NeverStrays /\ HistoryIsThePath
=============================================================================
