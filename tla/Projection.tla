----------------------------- MODULE Projection -----------------------------
(***************************************************************************)
(* project (core/src/projection.rs): the payload a schema releases of what *)
(* a sender pushed, and what was dropped of it.  The outcome of a value is *)
(* what is kept of it, a sequence of one value or none, and the drops, a   *)
(* set.  A drop's path has keys and array indexes, relative to the value;  *)
(* the code writes it with dots and brackets.                              *)
(***************************************************************************)
EXTENDS Schema

Keep(value) == [kept |-> <<value>>, dropped |-> {}]
Drop(reason) == [kept |-> << >>, dropped |-> {[path |-> << >>, reason |-> reason]}]

UnknownKey == <<"unknown_key">>
TypeMismatch(spec, value) == <<"type_mismatch", spec.kind, value.kind>>

\* The drops inside the value at a key or an index.
Under(step, dropped) ==
    {[path |-> <<step>> \o drop.path, reason |-> drop.reason] : drop \in dropped}

AllDropped(outcomes) == UNION {Under(step, outcomes[step].dropped) : step \in DOMAIN outcomes}

\* What is left of an object whose values had these outcomes.
Released(outcomes) ==
    Object([key \in {k \in DOMAIN outcomes : outcomes[k].kept # << >>} |->
              Head(outcomes[key].kept)])

\* Mutant: a key that is not declared is kept if it is a scalar.
ProjectOpenObject(project, allow, fields) ==
    LET outcomes == [key \in DOMAIN fields |->
            IF key \in DOMAIN allow THEN project[<<allow[key], fields[key]>>]
            ELSE IF Accepts("scalar", fields[key]) THEN Keep(fields[key])
                                                    ELSE Drop(UnknownKey)]
    IN  [kept |-> <<Released(outcomes)>>, dropped |-> AllDropped(outcomes)]

\* One level of an object: a key the allow list does not have is dropped.
ProjectObject(project, allow, fields) ==
    LET outcomes == [key \in DOMAIN fields |->
            IF key \in DOMAIN allow THEN project[<<allow[key], fields[key]>>] ELSE Drop(UnknownKey)]
    IN  [kept |-> <<Released(outcomes)>>, dropped |-> AllDropped(outcomes)]

\* Mutant: an element that fits is kept as it was sent.
ProjectArrayUnexamined(project, spec, items) ==
    LET outcomes == [n \in DOMAIN items |-> project[<<spec, items[n]>>]]
    IN  [kept |-> <<Array(FlattenSeq([n \in DOMAIN items |->
                       IF outcomes[n].kept = << >> THEN << >> ELSE <<items[n]>>]))>>,
         dropped |-> AllDropped(outcomes)]

\* Mutant: a drop is reported at the place among those that were kept.
ProjectArrayKeptPlaces(project, spec, items) ==
    LET outcomes == [n \in DOMAIN items |-> project[<<spec, items[n]>>]]
        place(n) == 1 + Cardinality({m \in 1 .. n - 1 : outcomes[m].kept # << >>})
    IN  [kept |-> <<Array(FlattenSeq([n \in DOMAIN items |-> outcomes[n].kept]))>>,
         dropped |-> UNION {Under(place(n), outcomes[n].dropped) : n \in DOMAIN items}]

\* An element that does not fit is dropped on its own, and reported at its place
\* in what was received.
ProjectArray(project, spec, items) ==
    LET outcomes == [n \in DOMAIN items |-> project[<<spec, items[n]>>]]
    IN  [kept |-> <<Array(FlattenSeq([n \in DOMAIN items |-> outcomes[n].kept]))>>,
         dropped |-> AllDropped(outcomes)]

ProjectValue[p \in Specs \X Json] ==
    LET spec == p[1]  value == p[2] IN
    CASE spec.kind = "object" /\ value.kind = "object" ->
           ProjectObject(ProjectValue, spec.allow, value.fields)
      [] spec.kind = "array" /\ value.kind = "array" ->
           ProjectArray(ProjectValue, spec.items, value.items)
      [] spec.kind \in ScalarTypes /\ Accepts(spec.kind, value) -> Keep(value)
      [] OTHER -> Drop(TypeMismatch(spec, value))

\* What is left of a JSON value is a JSON value.
ASSUME ProjectionAssumption ==
    \A spec \in Specs, value \in Json : ProjectValue[<<spec, value>>].kept \in Seq(Json)

\* A payload is a document: anything but an object is refused by the caller.
Project(schema, payload) ==
    LET outcome == ProjectObject(ProjectValue, schema.fields, payload.fields)
    IN  [payload |-> Head(outcome.kept), dropped |-> outcome.dropped]

-----------------------------------------------------------------------------
(* Measures the properties use. *)

\* The size of a value: how many values it is made of, itself included.
Size[value \in Json] ==
    1 + SumFunction([step \in DOMAIN Parts(value) |-> Size[Parts(value)[step]]])

\* The value at a path.
At(path, value) ==
    FoldLeft(LAMBDA v, step : IF step \in DOMAIN Parts(v) THEN Parts(v)[step] ELSE Absent,
             value, path)

\* The steps paths are made of, and what is left of the paths through one step.
Steps == UNION {DOMAIN Parts(value) : value \in Json}
Through(step, paths) == {Tail(path) : path \in {p \in paths : p # << >> /\ Head(p) = step}}

\* A value without the parts at these paths.  The paths of its items are their
\* places before any is taken out.
Without[p \in Json \X SUBSET Seq(Steps)] ==
    LET value == p[1]  paths == p[2]
        rest(step) == Without[<<Parts(value)[step], Through(step, paths)>>]
    IN  CASE value.kind = "object" ->
               Object([key \in {k \in DOMAIN value.fields : <<k>> \notin paths} |-> rest(key)])
          [] value.kind = "array" ->
               Array(FlattenSeq([n \in DOMAIN value.items |->
                        IF <<n>> \in paths THEN << >> ELSE <<rest(n)>>]))
          [] OTHER -> value
=============================================================================
