---------------------------- MODULE PagingProofs ----------------------------
(***************************************************************************)
(* Proofs about Paging, for any rows, page limit and byte budget.          *)
(***************************************************************************)
EXTENDS Paging, FiniteSetTheorems, WellFoundedInduction, TLAPS

-----------------------------------------------------------------------------
(* Least and greatest members. *)

LEMMA LeastNatural ==
    ASSUME NEW T, T \subseteq Nat, T # {}
    PROVE  \E least \in T : \A n \in T : least <= n
<1> DEFINE Less == OpToRel(<, Nat)
<1>1. \A m, n \in Nat : m < n => <<m, n>> \in Less
  BY DEF OpToRel
<1>2. IsWellFoundedOn(Less, Nat)
  BY NatLessThanWellFounded
<1> HIDE DEF Less
<1>3. PICK least \in T : \A n \in T : <<n, least>> \notin Less
  BY <1>2, WFMin
<1>4. \A n \in T : ~(n < least)
  BY <1>1, <1>3, Zenon
<1> QED
  BY <1>4

\* Max is the greatest member of a set of numbers that has a bound.
LEMMA MaxIsGreatest ==
    ASSUME NEW T, T \subseteq Nat, T # {}, NEW bound \in Nat, \A n \in T : n <= bound
    PROVE  Max(T) \in T /\ \A n \in T : n <= Max(T)
<1> DEFINE Gaps == {g \in Nat : bound - g \in T}
<1>1. Gaps # {} /\ Gaps \subseteq Nat
  <2>1. PICK n \in T : TRUE
    OBVIOUS
  <2>2. bound - n \in Gaps
    BY <2>1
  <2> QED
    BY <2>2
<1>2. PICK gap \in Gaps : \A g \in Gaps : gap <= g
  BY <1>1, LeastNatural
<1>3. bound - gap \in T /\ \A n \in T : n <= bound - gap
  <2>1. \A n \in T : bound - n \in Gaps
    OBVIOUS
  <2> QED
    BY <1>2, <2>1
<1>4. \E x \in T : \A y \in T : x >= y
  BY <1>3
<1>5. Max(T) \in T /\ \A y \in T : Max(T) >= y
  BY <1>4 DEF Max
<1> QED
  BY <1>5

\* A member that no other exceeds is the greatest.
LEMMA GreatestIsMax ==
    ASSUME NEW T, T \subseteq Nat, NEW m \in T, \A n \in T : n <= m
    PROVE  Max(T) = m
<1>1. \E x \in T : \A n \in T : x >= n
  OBVIOUS
<1>2. Max(T) \in T /\ \A n \in T : Max(T) >= n
  BY <1>1 DEF Max
<1>3. Max(T) \in Nat /\ m \in Nat /\ Max(T) >= m /\ Max(T) <= m
  BY <1>2
<1> HIDE DEF Max
<1> QED
  BY <1>3

-----------------------------------------------------------------------------
(* Pages.  What matches is finite, and its positions are positive, distinct *)
(* and bounded by the last one drawn.                                       *)

Ordered(rows, S, bound) ==
    /\ IsFiniteSet(S)
    /\ \A i \in S : rows[i].seq \in Nat \ {0} /\ rows[i].seq <= bound
    /\ \A i, j \in S : rows[i].seq = rows[j].seq => i = j

\* Of any ids that match one is the first.
LEMMA FirstOf ==
    ASSUME NEW rows, NEW S, NEW bound \in Nat, Ordered(rows, S, bound),
           NEW T, T \subseteq S, T # {}
    PROVE  \E i \in T : \A j \in T : rows[i].seq <= rows[j].seq
<1> DEFINE Seqs == {rows[i].seq : i \in T}
<1>1. Seqs \subseteq Nat /\ Seqs # {}
  BY DEF Ordered
<1>2. PICK least \in Seqs : \A n \in Seqs : least <= n
  BY <1>1, LeastNatural
<1> QED
  BY <1>2

\* The greatest position is that of the last one.
LEMMA LastOf ==
    ASSUME NEW rows, NEW S, NEW bound \in Nat, Ordered(rows, S, bound),
           NEW T, T \subseteq S, T # {}
    PROVE  \E i \in T : /\ Max({rows[j].seq : j \in T}) = rows[i].seq
                        /\ \A j \in T : rows[j].seq <= rows[i].seq
<1> DEFINE Seqs == {rows[i].seq : i \in T}
<1>1. Seqs \subseteq Nat /\ Seqs # {} /\ \A n \in Seqs : n <= bound
  BY DEF Ordered
<1>2. Max(Seqs) \in Seqs /\ \A n \in Seqs : n <= Max(Seqs)
  BY <1>1, MaxIsGreatest
<1>3. PICK i \in T : Max(Seqs) = rows[i].seq
  BY <1>2
<1>4. \A j \in T : rows[j].seq <= rows[i].seq
  BY <1>2, <1>3
<1> QED
  BY <1>3, <1>4

LEMMA UpToFinite ==
    ASSUME NEW rows, NEW S, NEW bound \in Nat, Ordered(rows, S, bound), NEW i \in S
    PROVE  /\ IsFiniteSet(UpTo(rows, S, i))
           /\ Cardinality(UpTo(rows, S, i)) \in Nat
           /\ i \in UpTo(rows, S, i)
<1>1. UpTo(rows, S, i) \in SUBSET S
  BY DEF UpTo
<1>2. IsFiniteSet(UpTo(rows, S, i))
  BY <1>1, FS_Subset DEF Ordered
<1> QED
  BY <1>2, FS_CardinalityType DEF UpTo, Ordered

\* LIMIT takes the first ones.
LEMMA FetchedFirst ==
    ASSUME NEW rows, NEW S, NEW bound \in Nat, Ordered(rows, S, bound), NEW limit \in Nat,
           NEW i \in Fetched(rows, S, limit), NEW j \in S, rows[j].seq <= rows[i].seq
    PROVE  j \in Fetched(rows, S, limit)
<1>1. i \in S /\ Cardinality(UpTo(rows, S, i)) <= limit
  BY DEF Fetched
<1>2. UpTo(rows, S, j) \in SUBSET UpTo(rows, S, i)
  BY <1>1 DEF UpTo, Ordered
<1>3. Cardinality(UpTo(rows, S, j)) <= Cardinality(UpTo(rows, S, i))
  BY <1>1, <1>2, UpToFinite, FS_Subset
<1>4. Cardinality(UpTo(rows, S, j)) \in Nat /\ Cardinality(UpTo(rows, S, i)) \in Nat
  BY <1>1, UpToFinite
<1> QED
  BY <1>1, <1>3, <1>4 DEF Fetched

\* LIMIT takes no more than it says.
LEMMA FetchedCount ==
    ASSUME NEW rows, NEW S, NEW bound \in Nat, Ordered(rows, S, bound), NEW limit \in Nat
    PROVE  /\ Fetched(rows, S, limit) \subseteq S /\ IsFiniteSet(Fetched(rows, S, limit))
           /\ Cardinality(Fetched(rows, S, limit)) \in Nat
           /\ Cardinality(Fetched(rows, S, limit)) <= limit
<1> DEFINE F == Fetched(rows, S, limit)
<1>1. F \subseteq S /\ IsFiniteSet(F) /\ Cardinality(F) \in Nat
  <2>1. F \in SUBSET S
    BY DEF Fetched
  <2> QED
    BY <2>1, FS_Subset, FS_CardinalityType DEF Ordered
<1>2. CASE F = {}
  BY <1>1, <1>2, FS_EmptySet
<1>3. CASE F # {}
  <2>1. PICK last \in F : \A j \in F : rows[j].seq <= rows[last].seq
    BY <1>1, <1>3, LastOf
  <2>2. F \subseteq UpTo(rows, S, last)
    BY <1>1, <2>1 DEF UpTo
  <2>3. UpTo(rows, S, last) \subseteq F
    BY FetchedFirst DEF UpTo
  <2>4. Cardinality(F) <= limit
    BY <2>2, <2>3 DEF Fetched
  <2> QED
    BY <1>1, <2>4
<1> QED
  BY <1>2, <1>3

\* What is left out is left out by the limit.
LEMMA FetchedFull ==
    ASSUME NEW rows, NEW S, NEW bound \in Nat, Ordered(rows, S, bound),
           NEW limit \in Nat \ {0}, Fetched(rows, S, limit) # S
    PROVE  Cardinality(Fetched(rows, S, limit)) = limit
<1> DEFINE F == Fetched(rows, S, limit)
<1>1. /\ F \subseteq S /\ IsFiniteSet(F)
      /\ Cardinality(F) \in Nat /\ Cardinality(F) <= limit
  BY FetchedCount
<1>2. PICK i \in S \ F : \A j \in S \ F : rows[i].seq <= rows[j].seq
  <2>1. S \ F \subseteq S /\ S \ F # {}
    BY <1>1
  <2> QED
    BY <2>1, FirstOf
<1>3. \A j \in F : rows[j].seq < rows[i].seq
  <2>1. SUFFICES ASSUME NEW j \in F, ~(rows[j].seq < rows[i].seq) PROVE FALSE
    OBVIOUS
  <2>2. rows[i].seq <= rows[j].seq
    BY <1>1, <2>1 DEF Ordered
  <2> QED
    BY <2>2, FetchedFirst
<1>4. UpTo(rows, S, i) = F \cup {i}
  <2>1. ASSUME NEW j \in S, rows[j].seq <= rows[i].seq PROVE j \in F \cup {i}
    BY <1>2, <2>1 DEF Ordered
  <2>2. \A j \in F \cup {i} : j \in S /\ rows[j].seq <= rows[i].seq
    BY <1>1, <1>3 DEF Ordered
  <2> QED
    BY <2>1, <2>2 DEF UpTo
<1>5. Cardinality(UpTo(rows, S, i)) = Cardinality(F) + 1
  BY <1>1, <1>4, FS_AddElement
<1>6. ~(Cardinality(UpTo(rows, S, i)) <= limit)
  BY DEF Fetched
<1> QED
  BY <1>1, <1>5, <1>6

\* The byte budget, too, takes the first ones, and at least one.
LEMMA CutFirst ==
    ASSUME NEW rows, NEW S, NEW bound \in Nat, Ordered(rows, S, bound), NEW size, NEW bytes
    PROVE  /\ Cut(rows, size, bytes, S) \subseteq S
           /\ \A i \in Cut(rows, size, bytes, S), j \in S :
                rows[j].seq <= rows[i].seq => j \in Cut(rows, size, bytes, S)
           /\ S # {} => Cut(rows, size, bytes, S) # {}
<1>1. ASSUME NEW i \in Cut(rows, size, bytes, S), NEW j \in S, rows[j].seq <= rows[i].seq
      PROVE  j \in Cut(rows, size, bytes, S)
  <2>1. UpTo(rows, S, j) \subseteq UpTo(rows, S, i)
    BY <1>1 DEF UpTo, Cut, Ordered
  <2> QED
    BY <2>1 DEF Cut
<1>2. ASSUME S # {} PROVE Cut(rows, size, bytes, S) # {}
  <2>1. PICK i \in S : \A j \in S : rows[i].seq <= rows[j].seq
    BY <1>2, FirstOf
  <2>2. UpTo(rows, S, i) = {i}
    BY <2>1 DEF UpTo, Ordered
  <2>3. i \in Cut(rows, size, bytes, S)
    BY <2>2 DEF Cut, Fits
  <2> QED
    BY <2>3
<1> QED
  BY <1>1, <1>2 DEF Cut

\* A page has the first of what matches, no more than the limit; it is empty only
\* if nothing does; it offers no cursor only if it has everything; and the cursor
\* it offers is the position of its last record, so that the next page begins
\* where it ends.
\* Whatever the byte budget, also for a record that exceeds it by itself.
THEOREM PageLosesNothing ==
    ASSUME NEW rows, NEW S, NEW bound \in Nat, Ordered(rows, S, bound),
           NEW limit \in Nat \ {0}, NEW size, NEW bytes
    PROVE  LET page == PageOf(rows, size, S, limit, bytes) IN
           /\ page.ids \subseteq S
           /\ S # {} => page.ids # {}
           /\ page.next = 0 => page.ids = S
           /\ IsFiniteSet(page.ids) /\ Cardinality(page.ids) <= limit
           /\ page.next # 0 => /\ \E i \in page.ids : page.next = rows[i].seq
                               /\ \A i \in page.ids : rows[i].seq <= page.next
                               /\ \A i \in S \ page.ids : rows[i].seq > page.next
<1> DEFINE fetched == Fetched(rows, S, limit)
           ids == Cut(rows, size, bytes, fetched)
           next == Cursor(rows, ids, fetched, limit)
<1>1. fetched \subseteq S
  BY DEF Fetched
<1>2. Ordered(rows, fetched, bound)
  BY <1>1, FS_Subset DEF Ordered
<1>3. ids \subseteq fetched /\ (fetched # {} => ids # {})
  BY <1>2, CutFirst
<1>4. \A i \in ids, j \in S : rows[j].seq <= rows[i].seq => j \in ids
  BY <1>1, <1>2, <1>3, FetchedFirst, CutFirst
<1>5. IsFiniteSet(ids) /\ Cardinality(ids) <= limit
  <2>1. ids \in SUBSET fetched
    BY <1>3
  <2>2. IsFiniteSet(fetched) /\ Cardinality(fetched) \in Nat /\ Cardinality(fetched) <= limit
    BY FetchedCount
  <2>3. IsFiniteSet(ids) /\ Cardinality(ids) \in Nat /\ Cardinality(ids) <= Cardinality(fetched)
    BY <2>1, <2>2, FS_Subset, FS_CardinalityType
  <2> QED
    BY <2>2, <2>3
<1>6. S # {} => fetched # {}
  <2>1. CASE fetched = S
    BY <2>1
  <2>2. CASE fetched # S
    BY <2>2, FetchedFull, FS_EmptySet
  <2> QED
    BY <2>1, <2>2
<1>7. CASE ids # fetched \/ Cardinality(fetched) = limit
  <2>1. ids # {}
    BY <1>3, <1>7, FS_EmptySet
  <2>2. next = Max({rows[j].seq : j \in ids})
    BY <1>7 DEF Cursor
  <2>3. PICK last \in ids : /\ next = rows[last].seq
                            /\ \A j \in ids : rows[j].seq <= rows[last].seq
    BY <1>1, <1>3, <2>1, <2>2, LastOf
  <2>4. next \in Nat \ {0}
    BY <1>1, <1>3, <2>3 DEF Ordered
  <2>5. \A i \in S \ ids : rows[i].seq > next
    BY <1>1, <1>3, <1>4, <2>3 DEF Ordered
  <2> HIDE DEF ids, fetched, next
  <2> QED
    BY <1>1, <1>3, <1>6, <1>5, <2>3, <2>4, <2>5, <2>2 DEF PageOf, ids, fetched, next
<1>8. CASE ids = fetched /\ Cardinality(fetched) # limit
  <2>1. next = 0
    BY <1>8 DEF Cursor
  <2>2. ids = S
    BY <1>8, FetchedFull
  <2> QED
    BY <1>5, <2>1, <2>2 DEF PageOf
<1> QED
  BY <1>7, <1>8
=============================================================================
