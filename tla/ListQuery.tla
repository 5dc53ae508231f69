----------------------------- MODULE ListQuery -----------------------------
(***************************************************************************)
(* What a request asks a listing or the change feed for: the parameters of *)
(* its query string (api/src/query.rs, ChangesQuery in api/src/public.rs,  *)
(* Filter::parse in core/src/filter.rs).  A query string is a sequence of  *)
(* parameters; what is not a number has the value NotANumber, what is not  *)
(* a parameter, or a filter[...] that is not a filter, the key "other".    *)
(* The widths of the integers are constants.                               *)
(***************************************************************************)
EXTENDS Paging

CONSTANTS
    DefaultLimit,  \* PageLimit::DEFAULT
    MaxLimit,      \* PageLimit::MAX
    MaxU16,        \* the largest limit that is a number
    MaxU64,        \* the largest cursor that is a number
    MaxI64,        \* the largest position the database can be asked for
    NotANumber,    \* the value of a parameter that is not a number
    Filterable     \* the pairs of a field and a value the schema lets one filter on

ASSUME WidthAssumption ==
    /\ DefaultLimit \in 1..MaxLimit /\ MaxLimit \in Nat
    /\ MaxU16 \in Nat /\ MaxU64 \in Nat /\ MaxI64 \in Nat
    /\ NotANumber \notin Nat

Fields == {pair[1] : pair \in Filterable}
Texts == {pair[2] : pair \in Filterable}

Param == [key : {"limit", "cursor", "since", "other"}, value : {NotANumber} \cup Nat]
           \cup [key : {"filter"}, field : Fields \cup {"undeclared"}, value : Texts]

Given(query, key) == {n \in DOMAIN query : query[n].key = key}

\* value.parse::<u16>(), ::<u64>().
Number(value, max) == value # NotANumber /\ value <= max

\* Mutant: of a repeated parameter the last one counts.
LastOneWins(query, key, max) == \A n \in Given(query, key) : Number(query[n].value, max)

\* At most once, and a number.
NumberOnce(query, key, max) ==
    /\ \A n \in Given(query, key) : Number(query[n].value, max)
    /\ \A n, m \in Given(query, key) : n = m

\* Fields the schema has as filters, values of their types, no field twice.
FiltersAccepted(query) ==
    /\ \A n \in Given(query, "filter") : <<query[n].field, query[n].value>> \in Filterable
    /\ \A n, m \in Given(query, "filter") : query[n].field = query[m].field => n = m

\* parse_list_params and Filter::parse: anything else is a 400.
ListingAccepts(query) ==
    /\ Given(query, "other") = {} /\ Given(query, "since") = {}
    /\ NumberOnce(query, "limit", MaxU16)
    /\ NumberOnce(query, "cursor", MaxU64)
    /\ FiltersAccepted(query)

\* ChangesQuery, with deny_unknown_fields.
FeedAccepts(query) ==
    /\ Given(query, "other") = {} /\ Given(query, "cursor") = {} /\ Given(query, "filter") = {}
    /\ NumberOnce(query, "limit", MaxU16)
    /\ NumberOnce(query, "since", MaxU64)

Value(query, key, default) ==
    IF Given(query, key) = {} THEN default
                              ELSE query[CHOOSE n \in Given(query, key) : TRUE].value

\* PageLimit::clamp, or PageLimit::default.
PageLimit(query) == Clamp(Value(query, "limit", DefaultLimit), MaxLimit)

FilterOf(query) == {<<query[n].field, query[n].value>> : n \in Given(query, "filter")}

\* cursor() in store/src/postgres.rs: a position has to fit a bigint.
Reaches(position) == position <= MaxI64
=============================================================================
