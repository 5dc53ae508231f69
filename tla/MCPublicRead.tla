---------------------------- MODULE MCPublicRead ----------------------------
(***************************************************************************)
(* Instances of PublicRead for TLC: two records, payloads that differ in   *)
(* size and in one field, and queries for every way of parsing one.        *)
(***************************************************************************)
EXTENDS PublicRead

CONSTANTS a, b, red, empty

Colours == {<<"colour", red>>}
Coloured == [p \in Payloads |-> IF p = red THEN {<<"colour", red>>} ELSE {}]
Sizes == [p \in Payloads |-> IF p = red THEN 2 ELSE 1]

Par(key, value) == [key |-> key, value |-> value]
Of(field, value) == [key |-> "filter", field |-> field, value |-> value]

ReadQueries ==
    { <<>>, <<Par("limit", 0)>>, <<Par("limit", 9)>>, <<Par("limit", 10)>>,
      <<Par("limit", 2), Par("limit", 1)>>, <<Par("limit", NotANumber)>>,
      <<Par("cursor", 1)>>, <<Par("cursor", 9)>>, <<Par("cursor", 2), Par("cursor", 1)>>,
      <<Par("since", 1), Par("limit", 1)>>, <<Par("since", 9)>>, <<Par("since", 10)>>,
      <<Of("colour", red)>>, <<Par("limit", 1), Of("colour", red)>>,
      <<Of("colour", red), Of("colour", red)>>, <<Of("undeclared", red)>>,
      <<Par("other", 1)>> }
=============================================================================
