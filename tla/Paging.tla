------------------------------- MODULE Paging -------------------------------
(***************************************************************************)
(* How a page of a listing or of the change feed is cut (page in           *)
(* store/src/postgres.rs).  S are the ids whose rows match the query,      *)
(* positions tell their order, so a page is a set of ids: the first ones.  *)
(***************************************************************************)
EXTENDS Integers, FiniteSets, FiniteSetsExt

\* PageLimit::clamp: at least one record a page, however few are asked for.
Clamp(requested, max) == IF requested = 0 THEN 1 ELSE IF requested > max THEN max ELSE requested

\* The ids of S up to i, in the order of the feed.
UpTo(rows, S, i) == {j \in S : rows[j].seq <= rows[i].seq}

\* ORDER BY seq LIMIT limit.
Fetched(rows, S, limit) == {i \in S : Cardinality(UpTo(rows, S, i)) <= limit}

\* The bytes of payload spent once i is on the page.
Spent(rows, size, S, i) == MapThenSumSet(LAMBDA j : size[rows[j].payload], UpTo(rows, S, i))

\* Whether i is the first record, or still within the byte budget.
Fits(rows, size, bytes, S, i) == UpTo(rows, S, i) = {i} \/ Spent(rows, size, S, i) <= bytes

\* The page ends before the first record that does not fit.
Cut(rows, size, bytes, S) ==
    {i \in S : \A j \in UpTo(rows, S, i) : Fits(rows, size, bytes, S, j)}

\* Mutant: no cursor is written as -1.
SignedCursor(rows, ids, fetched, limit) ==
    IF ids # fetched \/ Cardinality(fetched) = limit
      THEN Max({rows[i].seq : i \in ids})
      ELSE -1

\* The position to continue after, 0 (null) where the page was not full.
Cursor(rows, ids, fetched, limit) ==
    IF ids # fetched \/ Cardinality(fetched) = limit
      THEN Max({rows[i].seq : i \in ids})
      ELSE 0

PageOf(rows, size, S, limit, bytes) ==
    LET fetched == Fetched(rows, S, limit)
        ids == Cut(rows, size, bytes, fetched)
    IN  [ids |-> ids, next |-> Cursor(rows, ids, fetched, limit)]
=============================================================================
