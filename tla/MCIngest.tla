------------------------------ MODULE MCIngest ------------------------------
(***************************************************************************)
(* Instances of Ingest for TLC: documents with two keys, nested up to four *)
(* levels, and schemas that widen, narrow and retype each other.           *)
(***************************************************************************)
EXTENDS Ingest, TLC

CONSTANTS a, b   \* the keys

Str(text) == [kind |-> "string", is |-> text]
Num(text) == [kind |-> "number", is |-> text]
Null == [kind |-> "null", is |-> "null"]
Scalars == {Str("7"), Num("7"), Null}

A(value) == Object(a :> value)
AB(value, other) == Object((a :> value) @@ (b :> other))

\* Nested values: what may be below the key b.
Values ==
    Scalars
    \cup {AB(v, Num("7")) : v \in Scalars}
    \cup {Array(<<v, Str("7"), Num("7")>>) : v \in Scalars}
    \cup {Array(<<Str("7"), A(v), AB(v, Null)>>) : v \in Scalars}
    \cup {AB(Null, Array(<<A(v), v, Object(b :> v)>>)) : v \in Scalars}

Documents == {AB(v, w) : v \in {Str("7"), Num("0.5")}, w \in Values} \cup {A(v) : v \in Scalars}

Upsert(id, payload) == [op |-> "upsert", id |-> id, payload |-> payload]
Delete(id) == [op |-> "delete", id |-> id, payload |-> Absent]

\* One document with its id stated; ids taken from documents; a second record;
\* and batches in which one envelope is refused.
MCBatches ==
    {<<Upsert("7", d)>> : d \in Documents}
    \cup {<<Upsert(NoId, A(v))>> : v \in Scalars \cup {Num("0.5")}}
    \cup { <<Upsert("w", A(Str("7"))), Delete("7")>>,
           <<Delete("w"), Upsert("7", Str("7"))>>,
           <<Upsert("7", A(Null)), Upsert("7", Null)>>,
           <<Delete("7"), Delete(NoId)>>,
           <<Upsert("w", A(Null)), [Delete("7") EXCEPT !.payload = A(Null)]>>,
           <<Delete("7"), Delete("7"), Delete("7")>> }

Scalar(kind, index) == [kind |-> kind, index |-> index]
Allow(allow) == [kind |-> "object", allow |-> allow]
ArrayOf(spec) == [kind |-> "array", items |-> spec]
AnyScalar == Scalar("scalar", FALSE)

SchemaOf(specA, specB, filters) ==
    [id |-> <<a>>, fields |-> (a :> specA) @@ (b :> specB), filters |-> filters]

Name == Scalar("string", TRUE)

Narrow == [id |-> <<a>>, fields |-> (a :> Name), filters |-> <<a>>]
Tags == SchemaOf(Scalar("number", TRUE), ArrayOf(Scalar("string", FALSE)), <<a>>)
Flat == SchemaOf(Name, Allow(a :> AnyScalar), <<a>>)
Deep == SchemaOf(Name, Allow((a :> Scalar("number", FALSE)) @@
                             (b :> ArrayOf(Allow(b :> Scalar("number", FALSE))))), <<a>>)
Rows == SchemaOf(Scalar("string", FALSE), ArrayOf(Allow((a :> AnyScalar) @@ (b :> AnyScalar))),
                 << >>)
RowsOfNumbers == SchemaOf(Scalar("string", FALSE), ArrayOf(Allow(a :> Scalar("number", FALSE))),
                          << >>)
Wildcard == SchemaOf(Name, Allow(a :> Allow(<< >>)), << >>)
Unindexed == SchemaOf(Scalar("string", FALSE), Scalar("number", FALSE), <<a>>)

MCSchemas == {Narrow, Tags, Flat, Deep, Rows, RowsOfNumbers, Wildcard, Unindexed}

-----------------------------------------------------------------------------
(* What the documents and the schemas are made of. *)

\* What may be left of a value: some of its fields or items.
RECURSIVE Remains(_)
Remains(value) ==
    CASE value.kind = "object" ->
           UNION {{Object(fields) : fields \in
                     {f \in [keys -> UNION {Remains(value.fields[k]) : k \in keys}] :
                        \A k \in keys : f[k] \in Remains(value.fields[k])}} :
                  keys \in SUBSET DOMAIN value.fields}
      [] value.kind = "array" ->
           LET left == FoldLeft(LAMBDA seqs, item :
                          seqs \cup {Append(s, v) : s \in seqs, v \in Remains(item)},
                        {<< >>}, value.items)
           IN  {Array(items) : items \in left}
      [] OTHER -> {value}

RECURSIVE Subvalues(_)
Subvalues(value) ==
    {value} \cup UNION {Subvalues(Parts(value)[step]) : step \in DOMAIN Parts(value)}

JsonValues == UNION {Subvalues(value) : value \in
                   UNION {Remains(document) : document \in Documents \cup {A(Num("0.5")), Null}}}

RECURSIVE Subspecs(_)
Subspecs(spec) ==
    {spec} \cup
    CASE spec.kind = "object" -> UNION {Subspecs(spec.allow[key]) : key \in DOMAIN spec.allow}
      [] spec.kind = "array" -> Subspecs(spec.items)
      [] OTHER -> {}

SchemaSpecs == UNION {Subspecs(DocumentSpec(s)) : s \in MCSchemas}

RECURSIVE Nesting(_, _)
Nesting(Inside(_), x) ==
    IF Inside(x) = {x} THEN 0 ELSE 1 + Max({Nesting(Inside, y) : y \in Inside(x) \ {x}})

ValueDepth == [value \in JsonValues |-> Nesting(Subvalues, value)]
SchemaDepth == [spec \in SchemaSpecs |-> Nesting(Subspecs, spec)]

\* TLC evaluates the definition that stands for a constant wherever the constant
\* occurs, but these only once.
MCJson == JsonValues
MCSpecs == SchemaSpecs
MCDepth == ValueDepth
MCSpecDepth == SchemaDepth

MCQueries == [field : {a, b}, text : {"7", "w"}]
=============================================================================
