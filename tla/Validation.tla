----------------------------- MODULE Validation -----------------------------
(***************************************************************************)
(* DTO validation (nivasa-macros validation.rs, nivasa-validation lib.rs): *)
(* a struct is declared field by field, #[derive(Dto)] or PartialDto       *)
(* accepts it or not, and its validate_with collects the errors of a value *)
(* under a set of active groups.                                           *)
(***************************************************************************)
EXTENDS Integers, Sequences, SequencesExt

CONSTANTS
  Inner,          \* the DTOs that fields may hold, by name: [derive, fields]
  Declarations,   \* fields: [name, type: a sequence of type names, outermost first, attributes]
  FieldValues,         \* what a field may hold, by its type
  Contexts,       \* sets of groups
  Mantissa,       \* the integers up to it are f64 values
  MaxFields

VARIABLES
  fields,         \* the fields declared so far
  derive,         \* "", the derive that accepted them, or "refused"
  subject,        \* the value that was validated: one of FieldValues for each field
  context,        \* the groups that were active
  errors          \* what was found: [path, rule]

validationVars == <<fields, derive, subject, context, errors>>

Elements == -1        \* the index of a step that enters no element
NoSubject == <<>>

-----------------------------------------------------------------------------
(* Types. *)

\* References are looked through.
Peeled(type) == SubSeq(type, SelectInSeq(type, LAMBDA t : t # "Ref"), Len(type))
Outer(type) == Head(Peeled(type))

StringLike(type) == Outer(type) \in {"String", "str"}
IntLike(type) == Outer(type) \in {"i32", "i64", "u8", "u64"}
NumberLike(type) == IntLike(type) \/ Outer(type) \in {"f32", "f64"}
OptionLike(type) == Outer(type) = "Option"
Listed(type) == Outer(type) \in {"Vec", "Slice"}

\* option_inner_type.
Optional(type) == Tail(Peeled(type))

-----------------------------------------------------------------------------
(* The derive. *)

Attributes(field, rule) == SelectSeq(field.attributes, LAMBDA a : a.rule = rule)
Carries(field, rule) == Attributes(field, rule) # <<>>

\* The type the rules of a field are about.
RuleType(mode, field) ==
  IF mode = "PartialDto" \/ Carries(field, "is_optional") THEN Optional(field.type) ELSE field.type

\* The ensure_* checks.
Fitting(rule, type) ==
  CASE rule \in {"is_string", "is_uuid", "is_enum", "is_url", "matches"} -> StringLike(type)
    [] rule = "is_boolean" -> Outer(type) = "bool"
    [] rule = "is_int" -> IntLike(type)
    [] rule \in {"is_number", "min", "max"} -> NumberLike(type)
    [] rule = "is_not_empty" -> StringLike(type) \/ Listed(type)
    [] rule \in {"array_min_size", "array_max_size"} -> Outer(type) = "Vec"
    [] OTHER -> TRUE

\* What rustc asks of the code that is emitted.  A nested value behind #[is_optional] is taken by
\* a reference to a reference, which has no validate_with.
Typed(field, rule, type) ==
  CASE rule = "is_email" -> StringLike(type)
    [] rule \in {"min_length", "max_length"} -> StringLike(type) \/ Listed(type)
    [] rule \in {"min", "max"} -> type = Peeled(type)
    [] rule = "validate_nested" -> ~Carries(field, "is_optional") /\ Last(field.type) \in DOMAIN Inner
    [] OTHER -> TRUE

\* validate_if names a string field of the struct.
SourceExists(declared, attribute) ==
  \E f \in ToSet(declared) :
    /\ f.name = attribute.source
    /\ StringLike(f.type) \/ (OptionLike(f.type) /\ StringLike(Optional(f.type)))

FieldAccepted(declared, mode, field) ==
  /\ (mode = "PartialDto" \/ Carries(field, "is_optional")) => OptionLike(field.type)
  /\ \A a \in ToSet(field.attributes) :
       /\ a.reads
       /\ a.rule = "groups" => a.groups # {}
       /\ a.rule = "validate_if" => SourceExists(declared, a)
       /\ Fitting(a.rule, RuleType(mode, field))
       /\ Typed(field, a.rule, RuleType(mode, field))

Accepted(declared, mode) == \A f \in ToSet(declared) : FieldAccepted(declared, mode, f)

-----------------------------------------------------------------------------
(* The rules.  A value is [is, passes: the rules about its text that hold, text, size, number, *)
(* items, fields]; a size is in bytes.                                                          *)

\* `as f64`, to the even neighbour of an odd number that is too large.
AsDouble(n) ==
  IF n \in -Mantissa..Mantissa \/ n % 2 = 0 THEN n ELSE IF n % 4 = 1 THEN n - 1 ELSE n + 1

Breaks(v, a) ==
  CASE a.rule \in {"is_email", "is_uuid", "is_enum", "is_url", "matches", "custom_validate"} ->
         a.rule \notin v.passes
    [] a.rule = "is_not_empty" -> v.size = 0
    [] a.rule \in {"min_length", "array_min_size"} -> v.size < a.bound
    [] a.rule \in {"max_length", "array_max_size"} -> v.size > a.bound
    [] a.rule = "min" -> AsDouble(v.number) < AsDouble(a.bound)
    [] a.rule = "max" -> AsDouble(v.number) > AsDouble(a.bound)
    [] OTHER -> FALSE

GroupsOf(field) ==
  UNION {a.groups : a \in ToSet(Attributes(field, "groups"))}

\* The groups guard: any of the groups of any of the attributes.
GroupActive(field, active) == GroupsOf(field) = {} \/ GroupsOf(field) \cap active # {}

\* The guards around a field's checks; None has no value to check.
InForce(field, object, active) ==
  /\ GroupActive(field, active)
  /\ \A a \in ToSet(Attributes(field, "validate_if")) :
       object[a.source].is = "text" /\ object[a.source].text = a.expected
  /\ object[field.name].is # "none"

-----------------------------------------------------------------------------
(* validate_with. *)

Step(name, index) == [name |-> name, index |-> index]

\* Slip: the elements of a list are not told apart.
Under_NoIndex(step, found) ==
  [i \in DOMAIN found |-> [found[i] EXCEPT !.path = <<Step(step.name, Elements)>> \o @]]

Under(step, found) == [i \in DOMAIN found |-> [found[i] EXCEPT !.path = <<step>> \o @]]

RECURSIVE ErrorsOf(_, _, _)

\* The errors of a nested value, or of each element of a list, under the field's name.
NestedErrors(field, v, active) ==
  LET dto == Inner[Last(field.type)]
  IN  IF v.is = "list"
      THEN FlattenSeq([i \in DOMAIN v.items |->
             Under(Step(field.name, i - 1), ErrorsOf(dto, v.items[i], active))])
      ELSE Under(Step(field.name, Elements), ErrorsOf(dto, v, active))

AttributeErrors(field, a, v, active) ==
  IF a.rule = "validate_nested" THEN NestedErrors(field, v, active)
  ELSE IF Breaks(v, a) THEN <<[path |-> <<Step(field.name, Elements)>>, rule |-> a.rule]>>
  ELSE <<>>

FieldErrors(field, object, active) ==
  IF ~InForce(field, object, active) THEN <<>>
  ELSE FlattenSeq([i \in DOMAIN field.attributes |->
         AttributeErrors(field, field.attributes[i], object[field.name], active)])

\* A Validate written by hand may complain of the whole value, under no field, and does not
\* look at the context.
ErrorsOf(dto, v, active) ==
  IF dto.derive = "manual"
  THEN IF "manual" \in v.passes THEN <<>> ELSE <<[path |-> <<>>, rule |-> "manual"]>>
  ELSE FlattenSeq([i \in DOMAIN dto.fields |-> FieldErrors(dto.fields[i], v.fields, active)])

-----------------------------------------------------------------------------

ValidationInit ==
  /\ fields = <<>>
  /\ derive = ""
  /\ subject = NoSubject
  /\ context = {}
  /\ errors = <<>>

DeclareField(field) ==
  /\ derive = ""
  /\ Len(fields) < MaxFields
  /\ \A f \in ToSet(fields) : f.name # field.name
  /\ fields' = Append(fields, field)
  /\ UNCHANGED <<derive, subject, context, errors>>

Derive(mode) ==
  /\ derive = ""
  /\ fields # <<>>
  /\ derive' = IF Accepted(fields, mode) THEN mode ELSE "refused"
  /\ UNCHANGED <<fields, subject, context, errors>>

FieldNames == {f.name : f \in ToSet(fields)}

\* validate() is validate_with an empty context.
ValidateWith(object, active) ==
  /\ derive \in {"Dto", "PartialDto"}
  /\ subject = NoSubject
  /\ subject' = object
  /\ context' = active
  /\ errors' = ErrorsOf([derive |-> derive, fields |-> fields], [fields |-> object], active)
  /\ UNCHANGED <<fields, derive>>

\* The values the struct can have.
Subjects ==
  LET Field(n) == fields[SelectInSeq(fields, LAMBDA f : f.name = n)]
  IN  {s \in [FieldNames -> UNION {FieldValues[f.type] : f \in ToSet(fields)}] :
         \A n \in FieldNames : s[n] \in FieldValues[Field(n).type]}

ValidationNext ==
  \/ \E f \in Declarations : DeclareField(f)
  \/ \E mode \in {"Dto", "PartialDto"} : Derive(mode)
  \/ \E s \in Subjects, active \in Contexts : ValidateWith(s, active)

-----------------------------------------------------------------------------
(* What there is to find, by following the paths of a value instead of its structure. *)

AllFields == ToSet(fields) \cup UNION {ToSet(Inner[d].fields) : d \in DOMAIN Inner}
Steps == {Step(f.name, i) : f \in AllFields, i \in Elements..2}
Paths == {<<s>> : s \in Steps} \cup {<<s, t>> : s \in Steps, t \in Steps}

\* A field nothing is asked of: it holds nothing, none of its groups is active, or a sibling it
\* depends on has another text.
Exempt(field, object) ==
  \/ object[field.name].is = "none"
  \/ GroupsOf(field) # {} /\ \A g \in GroupsOf(field) : g \notin context
  \/ \E a \in ToSet(field.attributes) :
       a.rule = "validate_if" /\ ~(object[a.source].is = "text" /\ object[a.source].text = a.expected)

\* Where a path is after one more step: at a value, of a DTO or not, if there is such a step.
Follow(at, step) ==
  LET holders == {f \in ToSet(at.dto.fields) : f.name = step.name}
      field == CHOOSE f \in holders : TRUE
      v == at.value.fields[step.name]
      nested == Last(field.type) \in DOMAIN Inner /\ Carries(field, "validate_nested")
  IN  IF at.dead \/ holders = {} \/ Exempt(field, at.value.fields)
      THEN [at EXCEPT !.dead = TRUE]
      ELSE [dead |-> step.index # Elements /\ (v.is # "list" \/ step.index >= Len(v.items) \/ ~nested),
            field |-> field,
            value |-> IF v.is = "list" /\ step.index \in 0..Len(v.items) - 1
                      THEN v.items[step.index + 1] ELSE v,
            whole |-> step.index = Elements,
            dto |-> IF nested /\ (v.is # "list" \/ step.index # Elements) THEN Inner[Last(field.type)]
                    ELSE [derive |-> "none", fields |-> <<>>]]

Reached(path) ==
  FoldLeft(Follow, [dead |-> FALSE, field |-> Head(fields), value |-> [fields |-> subject],
                    whole |-> TRUE, dto |-> [derive |-> derive, fields |-> fields]], path)

\* The rules that the value at a path breaks, by the numbers themselves.
Faults(path) ==
  LET at == Reached(path)
      Wrong(a) == CASE a.rule = "min" -> at.value.number < a.bound
                    [] a.rule = "max" -> at.value.number > a.bound
                    [] OTHER -> Breaks(at.value, a)
  IN  IF at.dead THEN {}
      ELSE {a \in ToSet(at.field.attributes) : at.whole /\ Wrong(a)}
           \cup {[rule |-> "manual", bound |-> 0] : d \in {at.dto.derive} \cap
                   (IF "manual" \in at.value.passes THEN {} ELSE {"manual"})}

\* Each error names, down to the element, a value that breaks the rule, in a field whose groups
\* and conditions are in force all along the path; and each such value has its error, unless
\* its number and the bound are the same double (validation.rs:106-416, 489-601).
ErrorsAreFaults ==
  (subject # NoSubject) =>
    /\ \A e \in ToSet(errors) : e.path \in Paths /\ \E a \in Faults(e.path) : a.rule = e.rule
    /\ \A p \in Paths : \A a \in Faults(p) :
         \/ [path |-> p, rule |-> a.rule] \in ToSet(errors)
         \/ a.rule \in {"min", "max"} /\ AsDouble(Reached(p).value.number) = AsDouble(a.bound)
=============================================================================
