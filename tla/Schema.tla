------------------------------- MODULE Schema -------------------------------
(***************************************************************************)
(* Collection schemas (core/src/schema.rs): what a collection releases, by *)
(* field, at every level of nesting, and what may be filtered on.          *)
(*                                                                         *)
(* A JSON value is a record: [kind, is] for a scalar, "is" being its text, *)
(* [kind |-> "object", fields] with a function from keys to values, and    *)
(* [kind |-> "array", items] with a sequence.  A field's specification has *)
(* the same shape: [kind, index], [kind, allow] and [kind, items].         *)
(***************************************************************************)
EXTENDS Naturals, Sequences, SequencesExt

CONSTANTS
    Json,       \* the JSON values documents are made of
    Specs,      \* the specifications of fields
    Depth,      \* how deep each JSON value is nested
    SpecDepth   \* how deep each specification is nested

Absent == [kind |-> "absent"]
Object(fields) == [kind |-> "object", fields |-> fields]
Array(items) == [kind |-> "array", items |-> items]

Composite == {"object", "array"}
ScalarTypes == {"string", "number", "boolean", "scalar"}

\* The values right inside a value, by key or index.
Parts(value) ==
    CASE value.kind = "object" -> value.fields
      [] value.kind = "array" -> value.items
      [] OTHER -> << >>

ASSUME JsonAssumption ==
    \A value \in Json :
        /\ CASE value.kind = "object" ->
                  value = Object([key \in DOMAIN value.fields |-> value.fields[key]])
             [] value.kind = "array" -> value.items \in Seq(Json) /\ value = Array(value.items)
             [] OTHER -> value = [kind |-> value.kind, is |-> value.is] /\ value.kind # "absent"
        /\ IsFiniteSet(DOMAIN Parts(value))
        /\ Depth[value] \in Nat
        /\ \A step \in DOMAIN Parts(value) :
             Parts(value)[step] \in Json /\ Depth[Parts(value)[step]] < Depth[value]

\* A schema file declares no indexed scalar of any type: "scalar" is what an entry of
\* allow: [a, b] expands to (FieldSpecRepr).
ASSUME SpecAssumption ==
    \A spec \in Specs :
        /\ SpecDepth[spec] \in Nat
        /\ \/ spec.kind \in ScalarTypes /\ spec.index \in BOOLEAN
              /\ (spec.index => spec.kind # "scalar")
           \/ spec.kind = "object" /\ \A key \in DOMAIN spec.allow :
                spec.allow[key] \in Specs /\ SpecDepth[spec.allow[key]] < SpecDepth[spec]
           \/ spec.kind = "array" /\ spec.items \in Specs
              /\ SpecDepth[spec.items] < SpecDepth[spec]

\* ScalarType::accepts.
Accepts(type, value) ==
    IF type = "scalar" THEN value.kind \notin Composite ELSE value.kind = type

\* There is no object without an allow list, at any depth: no wildcard.
WellFormed[spec \in Specs] ==
    CASE spec.kind = "object" ->
           DOMAIN spec.allow # {} /\ \A key \in DOMAIN spec.allow : WellFormed[spec.allow[key]]
      [] spec.kind = "array" -> WellFormed[spec.items]
      [] OTHER -> TRUE

Indexed(spec) == spec.kind \in ScalarTypes /\ spec.index

\* Whether the service starts with this schema.  Sort keys are held to the same
\* rule as filters; nothing else uses them, so they are left out.
Accepted(schema) ==
    /\ DOMAIN schema.fields # {}
    /\ \A key \in DOMAIN schema.fields : WellFormed[schema.fields[key]]
    /\ IsInjective(schema.filters)
    /\ \A field \in Range(schema.filters) :
         field \in DOMAIN schema.fields /\ Indexed(schema.fields[field])

\* Follows an id path into a payload.
Resolve(path, payload) ==
    FoldLeft(LAMBDA value, key :
               IF value.kind = "object" /\ key \in DOMAIN value.fields
                 THEN value.fields[key] ELSE Absent,
             payload, path)

-----------------------------------------------------------------------------
(* What a specification means, apart from how projection applies it. *)

\* The value is released by the specification, with all that is in it.
Releases[p \in Specs \X Json] ==
    LET spec == p[1]  value == p[2] IN
    CASE spec.kind = "object" ->
           /\ value.kind = "object"
           /\ \A key \in DOMAIN value.fields :
                key \in DOMAIN spec.allow /\ Releases[<<spec.allow[key], value.fields[key]>>]
      [] spec.kind = "array" ->
           /\ value.kind = "array"
           /\ \A n \in DOMAIN value.items : Releases[<<spec.items, value.items[n]>>]
      [] OTHER -> Accepts(spec.kind, value)

\* Whatever the first specification releases, the second does too.
Narrower[p \in Specs \X Specs] ==
    LET spec == p[1]  wide == p[2] IN
    CASE spec.kind = "object" ->
           /\ wide.kind = "object"
           /\ \A key \in DOMAIN spec.allow :
                key \in DOMAIN wide.allow /\ Narrower[<<spec.allow[key], wide.allow[key]>>]
      [] spec.kind = "array" -> wide.kind = "array" /\ Narrower[<<spec.items, wide.items>>]
      [] OTHER -> wide.kind \in {spec.kind, "scalar"}

\* A schema as the specification of its documents.
DocumentSpec(schema) == [kind |-> "object", allow |-> schema.fields]
=============================================================================
