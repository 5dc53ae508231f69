---------------------------- MODULE SenderProofs ----------------------------
(***************************************************************************)
(* Proofs about the digest walk and the sender that repairs with it.  A    *)
(* walk of the digests is exact, for any number of records, of connections *)
(* and of requests, any order of the ids and any page limit, whatever is   *)
(* written between its pages.  What a sender was last told is stored is    *)
(* what is served, for any number of records, connections, edits and       *)
(* faults, whether it repeats what failed, gives it up or deletes one      *)
(* record by itself: but for what a DELETE, or the COMMIT of a batch, may  *)
(* still do that it gave up before and that outlives its own answer.       *)
(***************************************************************************)
EXTENDS Sender, RecordStoreProofs, PagingProofs

-----------------------------------------------------------------------------
(* The pages are those of Paging, of rows in the order of the ids. *)

\* Of finitely many ids no rank is beyond some bound.
LEMMA RanksBounded ==
    \E bound \in Nat : \A i \in Ids : Rank[i] <= bound
<1> DEFINE Bounded(U) == \E bound \in Nat : \A i \in U : Rank[i] <= bound
           Sizes == {m \in Nat : \E U \in SUBSET Ids : Cardinality(U) = m /\ ~Bounded(U)}
<1>1. \A U \in SUBSET Ids : IsFiniteSet(U) /\ Cardinality(U) \in Nat
  BY TableAssumption, FS_Subset, FS_CardinalityType
<1>2. SUFFICES ASSUME Sizes # {} PROVE FALSE
  <2>1. Ids \in SUBSET Ids
    OBVIOUS
  <2> QED
    BY <1>1, <2>1
<1>3. PICK m \in Sizes : \A n \in Sizes : m <= n
  <2>1. Sizes \subseteq Nat
    OBVIOUS
  <2> HIDE DEF Sizes
  <2> QED
    BY <1>2, <2>1, LeastNatural
<1>4. PICK U \in SUBSET Ids : Cardinality(U) = m /\ ~Bounded(U)
  OBVIOUS
<1>5. PICK e \in U : TRUE
  BY <1>4
<1>6. Cardinality(U \ {e}) = m - 1 /\ U \ {e} \in SUBSET Ids
  <2>1. IsFiniteSet(U)
    BY <1>1
  <2>2. Cardinality(U \ {e}) = Cardinality(U) - 1
    BY <1>5, <2>1, FS_RemoveElement
  <2> QED
    BY <1>4, <2>2
<1>7. m - 1 \in Nat
  BY <1>1, <1>6
<1>8. PICK bound \in Nat : \A i \in U \ {e} : Rank[i] <= bound
  <2>1. m - 1 \notin Sizes
    BY <1>3, <1>7
  <2> QED
    BY <1>6, <1>7, <2>1
<1>9. Rank[e] \in Nat
  BY <1>4, <1>5, RankAssumption
<1>10. \A i \in U : Rank[i] <= IF Rank[e] > bound THEN Rank[e] ELSE bound
  BY <1>8, <1>9, RankAssumption
<1> QED
  BY <1>4, <1>8, <1>9, <1>10

RankRows == [i \in Ids |-> [seq |-> Rank[i]]]

LEMMA PagesAreFetched ==
    ASSUME NEW limit \in Nat
    PROVE  /\ DigestEntries(limit) = Fetched(RankRows, Ahead, limit)
           /\ \E bound \in Nat : Ordered(RankRows, Ahead, bound)
<1>1. Ahead \in SUBSET Ids /\ \A i \in Ids : WalkOrder(i) = RankRows[i].seq
  BY DEF Ahead, WalkOrder, RankRows
<1>2. DigestEntries(limit) = Fetched(RankRows, Ahead, limit)
  <2>1. \A i \in Ahead : {j \in Ahead : WalkOrder(j) <= WalkOrder(i)} = UpTo(RankRows, Ahead, i)
    BY <1>1 DEF UpTo
  <2> QED
    BY <2>1 DEF DigestEntries, Fetched
<1>3. IsFiniteSet(Ahead)
  BY <1>1, TableAssumption, FS_Subset
<1>4. PICK bound \in Nat : \A i \in Ids : Rank[i] <= bound
  BY RanksBounded
<1>5. Ordered(RankRows, Ahead, bound)
  BY <1>1, <1>3, <1>4, RankAssumption DEF Ordered, RankRows
<1> QED
  BY <1>2, <1>5

\* What a page has and the cursor it offers: the cursor is the last id of the
\* page and everything up to it is on the page, or there is none and the page has
\* everything.
LEMMA PageAndCursor ==
    ASSUME NEW limit \in Nat \ {0}
    PROVE  LET entries == DigestEntries(limit)
               next == DigestNext(entries, limit)
           IN  /\ entries \subseteq Ahead
               /\ next = 0 => entries = Ahead
               /\ next # 0 => /\ next \in Nat
                              /\ \A i \in Ahead : i \in entries <=> Rank[i] <= next
                              /\ \E i \in entries : Rank[i] = next
<1> DEFINE entries == DigestEntries(limit)
           next == DigestNext(entries, limit)
<1>1. PICK bound \in Nat : Ordered(RankRows, Ahead, bound)
  BY PagesAreFetched
<1>2. entries = Fetched(RankRows, Ahead, limit)
  BY PagesAreFetched
<1>3. /\ entries \subseteq Ahead /\ IsFiniteSet(entries)
      /\ Cardinality(entries) \in Nat /\ Cardinality(entries) <= limit
  BY <1>1, <1>2, FetchedCount
<1>4. \A i \in Ahead : i \in Ids /\ RankRows[i].seq = Rank[i] /\ Rank[i] \in Nat \ {0}
  BY RankAssumption DEF Ahead, RankRows
<1>5. CASE Cardinality(entries) = limit
  <2>1. entries # {}
    BY <1>5, FS_EmptySet
  <2>2. PICK last \in entries : /\ Max({RankRows[j].seq : j \in entries}) = RankRows[last].seq
                                /\ \A j \in entries : RankRows[j].seq <= RankRows[last].seq
    BY <1>1, <1>3, <2>1, LastOf
  <2>3. {RankRows[j].seq : j \in entries} = {WalkOrder(j) : j \in entries}
    BY <1>3, <1>4 DEF WalkOrder
  <2>4. next = Rank[last]
    BY <1>3, <1>4, <1>5, <2>2, <2>3 DEF DigestNext
  <2>5. \A i \in entries : Rank[i] <= next
    BY <1>3, <1>4, <2>2, <2>4
  <2>6. \A i \in Ahead : Rank[i] <= next => i \in entries
    BY <1>1, <1>2, <1>3, <1>4, <2>4, FetchedFirst
  <2>7. next \in Nat /\ next # 0
    BY <1>3, <1>4, <2>2, <2>4
  <2> QED
    BY <1>3, <2>4, <2>5, <2>6, <2>7
<1>6. CASE Cardinality(entries) # limit
  <2>1. entries = Ahead
    BY <1>1, <1>2, <1>6, FetchedFull
  <2>2. next = 0
    BY <1>6 DEF DigestNext
  <2> QED
    BY <1>3, <2>1, <2>2
<1> QED
  BY <1>5, <1>6

-----------------------------------------------------------------------------
(* The walk. *)

WalkShape ==
    /\ after \in Nat
    /\ found \in [Ids -> Values]
    /\ during \in [Ids -> SUBSET Values]
    /\ \A i \in Ids : Served(table[i]) \in Values

Listing == walk \in {"off", "on", "done"} /\ repeated \subseteq Ids

\* While the walk is on, what it passed it has as it was at some time since the walk
\* began, and of what lies ahead it has nothing.
PassedOrAhead ==
    walk = "on" =>
        /\ repeated = {}
        /\ \A i \in Ids : Served(table[i]) \in during[i]
        /\ \A i \in Ids : IF Rank[i] <= after THEN found[i] \in during[i]
                                              ELSE found[i] = Nothing

WalkInv == WalkShape /\ Listing /\ PassedOrAhead /\ WalkIsExact

\* The invariant has the types of the walk's variables.
LEMMA WalkTypes == WalkInv => WalkTypeOK
BY DEF WalkInv, WalkShape, Listing, WalkTypeOK

LEMMA ServedType ==
    ASSUME TypeOK PROVE \A i \in Ids : Served(table[i]) \in Values
BY DEF TypeOK, Rows, Served, Values

LEMMA WalkStart == TypeOK /\ WalkInit => WalkInv
BY ServedType DEF WalkInit, WalkInv, WalkShape, Listing, PassedOrAhead, WalkIsExact, Values

\* What is written is taken down, and changes nothing of what was read.
LEMMA WalkWatched ==
    ASSUME WalkInv, TypeOK', Watch PROVE WalkInv'
<1>1. \A i \in Ids : Served(table'[i]) \in Values
  BY DEF TypeOK, Rows, Served, Values
<1>2. /\ during' \in [Ids -> SUBSET Values]
      /\ \A i \in Ids : during[i] \subseteq during'[i]
      /\ walk = "on" => \A i \in Ids : Served(table'[i]) \in during'[i]
  BY <1>1 DEF Watch, WalkInv, WalkShape
<1>3. UNCHANGED <<walk, after, found, repeated>>
  BY DEF Watch
<1>4. WalkShape'
  BY <1>1, <1>2, <1>3 DEF WalkInv, WalkShape
<1>5. PassedOrAhead'
  BY <1>2, <1>3 DEF WalkInv, PassedOrAhead
<1>6. WalkIsExact'
  BY <1>2, <1>3 DEF WalkInv, WalkIsExact
<1> QED
  BY <1>3, <1>4, <1>5, <1>6 DEF WalkInv, Listing

LEMMA WalkStarted ==
    ASSUME WalkInv, StartWalk PROVE WalkInv'
<1>1. /\ walk' = "on" /\ after' = 0 /\ repeated' = {} /\ table' = table
      /\ found' = [i \in Ids |-> Nothing]
      /\ during' = [i \in Ids |-> {Served(table[i])}]
  BY DEF StartWalk, vars
<1>2. WalkShape'
  BY <1>1 DEF WalkInv, WalkShape, Values
<1>3. PassedOrAhead'
  BY <1>1, RankAssumption DEF PassedOrAhead
<1> QED
  BY <1>1, <1>2, <1>3 DEF WalkInv, Listing, WalkIsExact

LEMMA LimitIsPositive == Clamp(Limit, MaxLimit) \in Nat \ {0}
BY LimitAssumption DEF Clamp

LEMMA WalkRead ==
    ASSUME WalkInv, ReadDigests PROVE WalkInv'
<1> DEFINE limit == Clamp(Limit, MaxLimit)
           entries == DigestEntries(limit)
           next == DigestNext(entries, limit)
<1>1. limit \in Nat \ {0}
  BY LimitIsPositive
<1>2. /\ entries \subseteq Ahead
      /\ next = 0 => entries = Ahead
      /\ next # 0 => /\ next \in Nat /\ \A i \in Ahead : i \in entries <=> Rank[i] <= next
                     /\ \E i \in entries : Rank[i] = next
  BY <1>1, PageAndCursor
<1>3. /\ walk = "on" /\ table' = table /\ during' = during /\ after' = next
      /\ found' = [i \in Ids |-> IF i \in entries THEN table[i].payload ELSE found[i]]
      /\ repeated' = repeated \cup {i \in entries : found[i] # Nothing}
      /\ walk' = IF next = 0 THEN "done" ELSE "on"
  BY DEF ReadDigests, vars
<1> HIDE DEF limit, entries, next
<1>4. \A i \in Ids : i \in Ahead <=> Live(table[i]) /\ Rank[i] > after
  BY DEF Ahead, WalkOrder
<1>5. Ahead \subseteq Ids
  BY DEF Ahead
<1>6. repeated' = {}
  <2>1. \A i \in entries : found[i] = Nothing
    BY <1>2, <1>3, <1>4, <1>5, RankAssumption DEF WalkInv, WalkShape, PassedOrAhead
  <2> QED
    BY <1>3, <2>1 DEF WalkInv, PassedOrAhead
<1>7. ASSUME NEW i \in Ids, i \in entries \/ ~Live(table[i]) \/ Rank[i] <= after
      PROVE  found'[i] \in during[i]
  <2>1. CASE i \in entries
    BY <1>2, <1>3, <1>4, <2>1 DEF WalkInv, PassedOrAhead, Served
  <2>2. CASE i \notin entries /\ Rank[i] <= after
    BY <1>3, <2>2 DEF WalkInv, PassedOrAhead
  <2>3. CASE i \notin entries /\ ~(Rank[i] <= after)
    BY <1>3, <1>7, <2>3 DEF WalkInv, PassedOrAhead, Served
  <2> QED
    BY <2>1, <2>2, <2>3
<1>8. WalkShape'
  <2>1. \A i \in entries : i \in Ids /\ table[i].payload \in Values
    BY <1>2, <1>4, <1>5 DEF WalkInv, WalkShape, Served
  <2> QED
    BY <1>2, <1>3, <2>1 DEF WalkInv, WalkShape
<1>9. CASE next = 0
  <2>1. \A i \in Ids : found'[i] \in during[i]
    BY <1>2, <1>4, <1>7, <1>9, RankAssumption DEF WalkInv, WalkShape
  <2> QED
    BY <1>3, <1>6, <1>8, <1>9, <2>1 DEF WalkInv, Listing, PassedOrAhead, WalkIsExact
<1>10. CASE next # 0
  <2>1. ASSUME NEW i \in Ids, Rank[i] <= next PROVE found'[i] \in during[i]
    BY <1>2, <1>4, <1>7, <1>10, <2>1, RankAssumption DEF WalkInv, WalkShape
  <2>2. ASSUME NEW i \in Ids, ~(Rank[i] <= next) PROVE found'[i] = Nothing
    <3>1. i \notin entries
      BY <1>2, <1>10, <2>2
    <3>2. ~(Rank[i] <= after)
      <4>1. PICK e \in entries : Rank[e] = next
        BY <1>2, <1>10
      <4>2. Rank[e] > after
        BY <1>2, <1>4, <1>5, <4>1
      <4>3. after \in Nat /\ Rank[i] \in Nat /\ next \in Nat
        BY <1>2, <1>10, RankAssumption DEF WalkInv, WalkShape
      <4> QED
        BY <2>2, <4>1, <4>2, <4>3
    <3> QED
      BY <1>3, <3>1, <3>2 DEF WalkInv, PassedOrAhead
  <2> QED
    BY <1>3, <1>6, <1>8, <1>10, <2>1, <2>2 DEF WalkInv, Listing, PassedOrAhead, WalkIsExact
<1> QED
  BY <1>9, <1>10

LEMMA WalkInvariance == WalkSpec => [](IInv /\ WalkInv)
<1> DEFINE Step == (Next /\ Watch) \/ StartWalk \/ ReadDigests
<1>1. Init /\ WalkInit => IInv /\ WalkInv
  BY TypeInit, PositionInit, WalkStart DEF IInv, TypeInv
<1>2. IInv /\ WalkInv /\ [Step]_walkVars => IInv' /\ WalkInv'
  <2> SUFFICES ASSUME IInv, WalkInv, [Step]_walkVars PROVE IInv' /\ WalkInv'
    OBVIOUS
  <2>1. [Next]_vars
    BY DEF StartWalk, ReadDigests, walkVars
  <2>2. IInv'
    BY <2>1, TypeStep, PositionStep DEF IInv
  <2>3. TypeOK'
    BY <2>2 DEF IInv, TypeInv
  <2>4. CASE Next /\ Watch
    BY <2>2, <2>3, <2>4, WalkWatched
  <2>5. CASE StartWalk
    BY <2>2, <2>5, WalkStarted
  <2>6. CASE ReadDigests
    BY <2>2, <2>6, WalkRead
  <2>7. CASE UNCHANGED walkVars
    <3>1. UNCHANGED <<table, walk, after, found, repeated, during>>
      BY <2>7 DEF walkVars, walking, vars
    <3> QED
      BY <2>2, <3>1 DEF WalkInv, WalkShape, Listing, PassedOrAhead, WalkIsExact
  <2> QED
    BY <2>4, <2>5, <2>6, <2>7
<1> QED
  BY <1>1, <1>2, PTL DEF WalkSpec

\* A walk that is over listed every id at most once, with a payload it had while
\* the walk went on, and none as missing that was live all along: whatever
\* requests created, changed and removed between its pages.
THEOREM WalksAreExact == WalkSpec => []WalkIsExact
<1>1. WalkInv => WalkIsExact
  BY DEF WalkInv
<1> QED
  BY <1>1, WalkInvariance, PTL

-----------------------------------------------------------------------------
(* What the drafts and the requests of the store have to do with one another. *)

\* A DELETE asks for nothing but that a record be gone.
DeletesAlone ==
    \A w \in Writers : request[w].auto =>
        \A n \in DOMAIN request[w].ops : request[w].ops[n].kind = "delete"

\* What a transaction drafted one of its operations asked for.
DraftsAsked ==
    \A w \in Writers : \A i \in Ids : Exists(draft[w][i]) =>
        \E n \in DOMAIN outcomes[w] :
            request[w].ops[n].id = i /\ Served(draft[w][i]) = Effect(request[w].ops[n])

IdleIsClean == \A w \in Writers : pc[w] = "idle" => \A i \in Ids : ~Exists(draft[w][i])

DraftInv == DeletesAlone /\ DraftsAsked /\ IdleIsClean

\* Of the store, and proved of it.
StoreInv == IInv /\ OutcomeInv /\ WholeInv /\ EffectInv /\ DraftInv

-----------------------------------------------------------------------------
(* The invariant of the sender. *)

\* The request the sender waits for, at work.
Active(w) == w \in serving /\ pc[w] # "idle" /\ ~Abandoned(w)

\* What a connection may make of a record, as long as it is at work.
MayDo(v, i) ==
    IF request[v].auto THEN Asked(request[v].ops, i)
    ELSE IF Exists(draft[v][i]) THEN {Served(draft[v][i])} ELSE {}

\* What may be served of a record.
Possible(i) == {acked[i]} \cup doubts[i] \cup Asked(batch, i)

\* What is pushed has no id twice, and there is nothing while the digests are walked.
BatchShape ==
    /\ batch \in Seq(Ops) /\ single \in BOOLEAN
    /\ \A m, n \in DOMAIN batch : batch[m].id = batch[n].id => m = n
    /\ walk # "off" => batch = << >>
    /\ truth \in [Ids -> Values] /\ dirty \subseteq Ids
    /\ acked \in [Ids -> Values] /\ doubts \in [Ids -> SUBSET Values]

\* The sender waits for one request, with what it is pushing; any other in progress
\* is abandoned, and known to race with it if it may still take effect.
ServingShape ==
    /\ serving \subseteq Writers
    /\ racing \subseteq Writers \ serving
    /\ \A v, w \in serving : v = w
    /\ \A w \in serving : batch # << >> /\ request[w].ops = batch
    /\ \A w \in Writers : pc[w] # "idle" => Abandoned(w) \/ w \in serving
    /\ serving # {} => \A v \in Writers \ serving : StillAtWork(v) => v \in racing

\* A request that may still take effect does nothing that is not accounted for.
LateIsPossible ==
    \A v \in Writers : StillAtWork(v) => \A i \in Ids : MayDo(v, i) \subseteq Possible(i)

\* A delete that was carried out and wrote nothing found nothing, and only what
\* undoes it comes after.
MissedIsServed ==
    \A w \in Writers : Active(w) => \A n \in DOMAIN outcomes[w] :
        batch[n].kind = "delete" /\ ~Exists(draft[w][batch[n].id]) =>
            Served(table[batch[n].id]) \in {Nothing} \cup Undoing(batch[n])

\* Once it is acknowledged it is served, but for what undoes it; that is never a
\* batch that wrote before it.
DoneIsServed ==
    \A w \in serving : answer[w] = "ok" => \A n \in DOMAIN batch :
        /\ Served(table[batch[n].id]) \in {Effect(batch[n])} \cup Undoing(batch[n])
        /\ batch[n].kind = "upsert" =>
             \A v \in Writers : StillAtWork(v) /\ ~request[v].auto =>
                 ~Exists(draft[v][batch[n].id])

CommitInv ==
    /\ LateIsPossible
    /\ MissedIsServed
    /\ DoneIsServed
    /\ LatestAcknowledgedIsServed

SenderInv == BatchShape /\ ServingShape /\ CommitInv
-----------------------------------------------------------------------------
(* The drafts. *)

LEMMA StoreTypes ==
    ASSUME IInv
    PROVE  /\ TypeOK
           /\ \A w \in Writers : Len(outcomes[w]) \in Nat
           /\ \A w \in Writers : \A i \in Ids : draft[w][i] \in Rows
           /\ \A i \in Ids : table[i] \in Rows
BY DEF IInv, TypeInv, TypeOK

LEMMA DraftStart == Init => DraftInv
BY DEF Init, DraftInv, DeletesAlone, DraftsAsked, IdleIsClean, NoRequest, NoRow, Exists

\* The second half of a statement, and the one that has none.
Ends(w) ==
    \/ UpsertInserts(w) \/ UpsertReplaces(w) \/ UpsertUnchanged(w)
    \/ DeleteMisses(w) \/ DeleteTombstones(w) \/ DeleteRechecks(w) \/ DeleteOvertaken(w)

LEMMA EndsFrame ==
    ASSUME IInv, NEW w \in Writers, Ends(w)
    PROVE  /\ pc[w] # "idle" /\ MoreOps(w) /\ UNCHANGED <<table, request, answer>>
           /\ pc'[w] = IF request[w].auto THEN "commit" ELSE "ready"
           /\ \E o : outcomes'[w] = Append(outcomes[w], o)
           /\ \A v \in Writers \ {w} :
                pc'[v] = pc[v] /\ draft'[v] = draft[v] /\ outcomes'[v] = outcomes[v]
           /\ \A i \in Ids \ {Op(w).id} : draft'[w][i] = draft[w][i]
<1>1. pc[w] # "idle" /\ MoreOps(w) /\ UNCHANGED <<table, request, answer>>
  BY DEF Ends, UpsertInserts, UpsertReplaces, UpsertUnchanged, DeleteMisses, DeleteTombstones,
         DeleteRechecks, DeleteOvertaken, AtStatement, IInv, TypeInv, StatementInv, InStatement
<1>2. \E o : EndStatement(w, o)
  BY DEF Ends, UpsertInserts, UpsertReplaces, UpsertUnchanged, DeleteMisses, DeleteTombstones,
         DeleteRechecks, DeleteOvertaken
<1>3. /\ pc'[w] = IF request[w].auto THEN "commit" ELSE "ready"
      /\ \E o : outcomes'[w] = Append(outcomes[w], o)
      /\ \A v \in Writers \ {w} : pc'[v] = pc[v] /\ outcomes'[v] = outcomes[v]
  BY <1>2, StoreTypes DEF EndStatement, TypeOK
<1>4. draft' = draft \/ \E row : Write(w, row)
  BY DEF Ends, UpsertInserts, UpsertReplaces, UpsertUnchanged, DeleteMisses, DeleteTombstones,
         DeleteRechecks, DeleteOvertaken
<1>5. /\ \A v \in Writers \ {w} : draft'[v] = draft[v]
      /\ \A i \in Ids \ {Op(w).id} : draft'[w][i] = draft[w][i]
  BY <1>4, StoreTypes DEF Write, TypeOK
<1> QED
  BY <1>1, <1>3, <1>5

\* A statement that ends drafts what it was asked for, or an upsert of what is there
\* already, or a delete of nothing drafts nothing.
LEMMA StatementEffect ==
    ASSUME IInv, NEW w \in Writers, Ends(w)
    PROVE  \/ Exists(draft'[w][Op(w).id]) /\ Served(draft'[w][Op(w).id]) = Effect(Op(w))
           \/ /\ draft' = draft
              /\ Op(w).kind = "delete" /\ ~Exists(draft[w][Op(w).id]) =>
                   Served(table[Op(w).id]) = Nothing
<1>1. MoreOps(w) /\ Op(w).id \in Ids
  BY EndsFrame, OpType DEF IInv, TypeInv
<1>2. \A row : Write(w, row) => draft'[w][Op(w).id] = row
  BY <1>1, StoreTypes DEF Write, TypeOK
<1>3. InStatement(w) => Op(w).kind = pc[w] /\ taken[w] > 0
  BY DEF IInv, TypeInv, StatementInv
<1>4. lastSeq \in Nat
  BY StoreTypes DEF TypeOK
<1>5. CASE UpsertInserts(w) \/ UpsertReplaces(w)
  <2>1. PICK s \in {taken[w], lastSeq + 1} : Write(w, StoredRow(w, s))
    BY <1>5 DEF UpsertInserts, UpsertReplaces, NextVal
  <2>2. s > 0 /\ Op(w).kind = "upsert"
    BY <1>3, <1>4, <1>5 DEF UpsertInserts, UpsertReplaces, InStatement
  <2> QED
    BY <1>2, <2>1, <2>2 DEF StoredRow, Exists, Live, Served, Effect
<1>6. CASE UpsertUnchanged(w)
  BY <1>3, <1>6 DEF UpsertUnchanged, InStatement
<1>7. CASE DeleteMisses(w)
  BY <1>7 DEF DeleteMisses, Current, Served
<1>8. CASE DeleteTombstones(w) \/ DeleteRechecks(w)
  <2>1. PICK s \in {taken[w], lastSeq + 1} : Write(w, Tombstone(s))
    BY <1>8 DEF DeleteTombstones, DeleteRechecks, NextVal
  <2>2. s > 0 /\ Op(w).kind = "delete"
    BY <1>3, <1>4, <1>8 DEF DeleteTombstones, DeleteRechecks, InStatement
  <2> QED
    BY <1>2, <2>1, <2>2 DEF Tombstone, Exists, Live, Served, Effect
<1>9. CASE DeleteOvertaken(w)
  BY <1>9 DEF DeleteOvertaken, Served
<1> QED
  BY <1>5, <1>6, <1>7, <1>8, <1>9 DEF Ends

LEMMA DraftKept ==
    ASSUME DraftInv, UNCHANGED request,
           \A v \in Writers :
              \/ outcomes'[v] = outcomes[v] /\ draft'[v] = draft[v]
              \/ \A i \in Ids : ~Exists(draft'[v][i]),
           \A v \in Writers : pc'[v] = "idle" => pc[v] = "idle" \/ \A i \in Ids : ~Exists(draft'[v][i])
    PROVE  DraftInv'
<1>1. DeletesAlone'
  BY DEF DraftInv, DeletesAlone
<1>2. DraftsAsked'
  BY DEF DraftInv, DraftsAsked
<1>3. IdleIsClean'
  BY DEF DraftInv, IdleIsClean
<1> QED
  BY <1>1, <1>2, <1>3 DEF DraftInv

LEMMA DraftBegins ==
    ASSUME IInv, DraftInv, NEW w \in Writers, Begin(w) PROVE DraftInv'
<1>1. PICK r \in Requests : /\ pc[w] = "idle" /\ request' = [request EXCEPT ![w] = r]
                            /\ pc' = [pc EXCEPT ![w] = "ready"]
                            /\ outcomes' = [outcomes EXCEPT ![w] = << >>]
                            /\ UNCHANGED draft
  BY DEF Begin
<1>2. /\ request'[w] = r /\ pc'[w] = "ready"
      /\ \A v \in Writers \ {w} :
           request'[v] = request[v] /\ outcomes'[v] = outcomes[v] /\ pc'[v] = pc[v]
  BY <1>1, StoreTypes DEF TypeOK
<1>3. r.auto => \A n \in DOMAIN r.ops : r.ops[n].kind = "delete"
  BY RequestsAssumption DEF RequestType
<1>4. DeletesAlone'
  BY <1>2, <1>3 DEF DraftInv, DeletesAlone
<1>5. \A i \in Ids : ~Exists(draft[w][i])
  BY <1>1 DEF DraftInv, IdleIsClean
<1>6. DraftsAsked'
  BY <1>1, <1>2, <1>5 DEF DraftInv, DraftsAsked
<1>7. IdleIsClean'
  BY <1>1, <1>2 DEF DraftInv, IdleIsClean
<1> QED
  BY <1>4, <1>6, <1>7 DEF DraftInv

LEMMA DraftWritten ==
    ASSUME IInv, DraftInv, NEW w \in Writers, Ends(w) PROVE DraftInv'
<1> PICK last \in Nat : last = Len(outcomes[w]) + 1
  BY StoreTypes
<1> PICK id \in Ids : id = Op(w).id
  BY EndsFrame, OpType DEF IInv, TypeInv
<1>1. /\ UNCHANGED request /\ pc[w] # "idle" /\ pc'[w] # "idle"
      /\ \A v \in Writers \ {w} :
           pc'[v] = pc[v] /\ draft'[v] = draft[v] /\ outcomes'[v] = outcomes[v]
      /\ \A i \in Ids \ {id} : draft'[w][i] = draft[w][i]
  BY EndsFrame
<1>2. /\ last \in DOMAIN outcomes'[w]
      /\ \A n \in DOMAIN outcomes[w] : n \in DOMAIN outcomes'[w]
  <2>1. outcomes[w] \in Seq(Outcomes)
    BY StoreTypes DEF TypeOK
  <2>2. PICK o : outcomes'[w] = Append(outcomes[w], o)
    BY EndsFrame
  <2>3. DOMAIN outcomes[w] = 1 .. (last - 1) /\ DOMAIN outcomes'[w] = 1 .. last
    BY <2>1, <2>2
  <2> QED
    BY <2>3
<1>3. request[w].ops[last] = Op(w)
  BY DEF Op
<1>4. \/ draft'[w] = draft[w]
      \/ Exists(draft'[w][id]) /\ Served(draft'[w][id]) = Effect(request[w].ops[last])
  BY <1>3, StatementEffect
<1>5. DeletesAlone' /\ IdleIsClean'
  BY <1>1 DEF DraftInv, DeletesAlone, IdleIsClean
<1>6. ASSUME NEW i \in Ids, Exists(draft'[w][i])
      PROVE  \E n \in DOMAIN outcomes'[w] :
               request[w].ops[n].id = i /\ Served(draft'[w][i]) = Effect(request[w].ops[n])
  <2>1. CASE draft'[w][i] = draft[w][i]
    BY <1>2, <1>6, <2>1 DEF DraftInv, DraftsAsked
  <2>2. CASE draft'[w][i] # draft[w][i]
    BY <1>1, <1>2, <1>3, <1>4, <2>2
  <2> QED
    BY <2>1, <2>2
<1>7. DraftsAsked'
  BY <1>1, <1>6 DEF DraftInv, DraftsAsked
<1> QED
  BY <1>5, <1>7 DEF DraftInv

LEMMA DraftStep == IInv /\ DraftInv /\ [Next]_vars => DraftInv'
<1> SUFFICES ASSUME IInv, DraftInv, [Next]_vars PROVE DraftInv'
  OBVIOUS
<1>1. CASE UNCHANGED vars
  BY <1>1, DraftKept DEF vars
<1>2. ASSUME NEW w \in Writers,
             \/ Begin(w) \/ Advance(w) \/ RequestTimesOut(w)
             \/ StoreFails(w) \/ DeadlockDetected(w)
      PROVE  DraftInv'
  <2>1. CASE Begin(w)
    BY <2>1, DraftBegins
  <2>2. CASE Ends(w)
    BY <2>2, DraftWritten
  <2>3. CASE StartUpsert(w) \/ StartDelete(w) \/ SendCommit(w) \/ RequestTimesOut(w)
    <3>1. /\ UNCHANGED <<request, outcomes, draft>>
          /\ \A v \in Writers : pc'[v] = "idle" => pc[v] = "idle"
      BY <2>3, StoreTypes
         DEF StartUpsert, StartDelete, AtStatement, SendCommit, RequestTimesOut, TypeOK
    <3> QED
      BY <3>1, DraftKept
  <2>4. CASE Commit(w) \/ Rollback(w) \/ StoreFails(w) \/ DeadlockDetected(w)
    <3>1. Release(w) /\ UNCHANGED <<request, outcomes>>
      BY <2>4 DEF Commit, Rollback, StoreFails, DeadlockDetected, Abort
    <3>2. /\ \A i \in Ids : draft'[w][i] = NoRow
          /\ \A v \in Writers \ {w} : draft'[v] = draft[v] /\ pc'[v] = pc[v]
      BY <3>1, StoreTypes DEF Release, TypeOK
    <3>3. \A i \in Ids : ~Exists(draft'[w][i])
      BY <3>2 DEF NoRow, Exists
    <3> QED
      BY <3>1, <3>2, <3>3, DraftKept
  <2> QED
    BY <1>2, <2>1, <2>2, <2>3, <2>4 DEF Advance, Upsert, Delete, Ends
<1> QED
  BY <1>1, <1>2 DEF Next, Quiescent

-----------------------------------------------------------------------------
(* What follows of a state. *)

LEMMA RequestTypes ==
    ASSUME StoreInv, NEW w \in Writers
    PROVE  /\ request[w].ops \in Seq(Ops)
           /\ \A n \in DOMAIN outcomes[w] : n \in DOMAIN request[w].ops
<1>1. request[w].ops \in Seq(Ops)
  BY StoreTypes DEF StoreInv, TypeOK, RequestType
<1>2. /\ DOMAIN outcomes[w] = 1 .. Len(outcomes[w])
      /\ Len(outcomes[w]) \in Nat /\ Len(request[w].ops) \in Nat
      /\ Len(outcomes[w]) <= Len(request[w].ops)
  BY OutcomeTypes DEF StoreInv, IInv, OutcomeInv, OutcomesWithinRequest
<1>3. DOMAIN request[w].ops = 1 .. Len(request[w].ops)
  BY <1>1
<1> QED
  BY <1>1, <1>2, <1>3

\* What is asked for is what an operation has for effect.
LEMMA AskedIsEffect ==
    ASSUME NEW ops \in Seq(Ops)
    PROVE  /\ \A n \in DOMAIN ops : ops[n].id \in Ids /\ Effect(ops[n]) \in Asked(ops, ops[n].id)
           /\ \A i \in Ids : Asked(ops, i) \subseteq Values
           /\ \A i \in Ids : \A e \in Asked(ops, i) :
                \E n \in DOMAIN ops : ops[n].id = i /\ e = Effect(ops[n])
<1>1. \A op \in Ops : op.id \in Ids /\ op.payload \in Payloads
  BY EmptyDocAssumption DEF Ops
<1>2. \A n \in DOMAIN ops : ops[n] \in Ops
  OBVIOUS
<1>3. \A op \in Ops : Effect(op) \in Values
  BY <1>1 DEF Effect, Values
<1>4. Range(ops) = {ops[n] : n \in DOMAIN ops}
  BY DEF Range
<1> QED
  BY <1>1, <1>2, <1>3, <1>4 DEF Asked

LEMMA UndoingValues ==
    ASSUME StoreInv, ServingShape, NEW op \in Ops PROVE Undoing(op) \subseteq Values
<1>1. op.id \in Ids
  BY DEF Ops
<1>2. \A v \in racing : v \in Writers /\ Asked(request[v].ops, op.id) \subseteq Values
  BY <1>1, RequestTypes, AskedIsEffect DEF ServingShape
<1> QED
  BY <1>2 DEF Undoing

\* The operations of the batch, one for each id.
LEMMA BatchOps ==
    ASSUME BatchShape, NEW n \in DOMAIN batch
    PROVE  /\ batch[n] \in Ops /\ batch[n].id \in Ids
           /\ batch[n].kind \in {"upsert", "delete"}
           /\ batch[n].kind = "delete" => Effect(batch[n]) = Nothing
           /\ \A m \in DOMAIN batch : batch[m].id = batch[n].id => m = n
           /\ Asked(batch, batch[n].id) = {Effect(batch[n])}
<1>1. batch \in Seq(Ops) /\ \A m \in DOMAIN batch : batch[m].id = batch[n].id => m = n
  BY DEF BatchShape
<1>2. batch[n] \in Ops
  BY <1>1
<1>3. batch[n].id \in Ids /\ batch[n].kind \in {"upsert", "delete"}
  BY <1>2 DEF Ops
<1>4. Asked(batch, batch[n].id) = {Effect(batch[n])}
  BY <1>1, <1>3, AskedIsEffect
<1> QED
  BY <1>1, <1>2, <1>3, <1>4 DEF Effect

\* A draft is of an operation of its request; a DELETE's is a tombstone.
LEMMA DraftDoes ==
    ASSUME StoreInv, NEW v \in Writers, NEW i \in Ids, Exists(draft[v][i])
    PROVE  /\ Served(draft[v][i]) \in Asked(request[v].ops, i)
           /\ request[v].auto => Served(draft[v][i]) = Nothing
           /\ Served(draft[v][i]) \in MayDo(v, i)
<1>1. PICK n \in DOMAIN outcomes[v] :
         request[v].ops[n].id = i /\ Served(draft[v][i]) = Effect(request[v].ops[n])
  BY DEF StoreInv, DraftInv, DraftsAsked
<1>2. request[v].ops \in Seq(Ops) /\ n \in DOMAIN request[v].ops
  BY RequestTypes
<1>3. Served(draft[v][i]) \in Asked(request[v].ops, i)
  BY <1>1, <1>2, AskedIsEffect
<1>4. request[v].auto => Served(draft[v][i]) = Nothing
  BY <1>1, <1>2 DEF StoreInv, DraftInv, DeletesAlone, Effect
<1> QED
  BY <1>3, <1>4 DEF MayDo

\* A DELETE asks for nothing else.
LEMMA DeleteAsks ==
    ASSUME StoreInv, NEW v \in Writers, request[v].auto, NEW i \in Ids
    PROVE  Asked(request[v].ops, i) \subseteq {Nothing}
<1>1. \A n \in DOMAIN request[v].ops : Effect(request[v].ops[n]) = Nothing
  BY DEF StoreInv, DraftInv, DeletesAlone, Effect
<1> QED
  BY <1>1, RequestTypes, AskedIsEffect

\* A transaction has a draft only of what no other has locked.
LEMMA LockedIsSafe ==
    ASSUME StoreInv, NEW v \in Writers, NEW w \in Writers, v # w, NEW i \in Ids, Exists(draft[v][i])
    PROVE  ~Exists(draft[w][i]) /\ i \notin locks[w]
BY DEF StoreInv, IInv, PositionInv, LockInv

\* What races with the batch and writes after it undoes its operation, or does the same.
LEMMA RacerUndoes ==
    ASSUME StoreInv, BatchShape, ServingShape, NEW v \in racing, NEW n \in DOMAIN batch,
           Exists(draft[v][batch[n].id]), batch[n].kind = "upsert" => request[v].auto
    PROVE  Served(draft[v][batch[n].id]) \in {Effect(batch[n])} \cup Undoing(batch[n])
<1> DEFINE id == batch[n].id
<1>1. v \in Writers /\ id \in Ids
  BY BatchOps DEF ServingShape
<1>2. /\ Served(draft[v][id]) \in Asked(request[v].ops, id)
      /\ request[v].auto => Served(draft[v][id]) = Nothing
  BY <1>1, DraftDoes
<1>3. (request[v].auto <=> batch[n].kind = "upsert") =>
        Served(draft[v][id]) \in Undoing(batch[n])
  BY <1>2 DEF Undoing
<1>4. batch[n].kind # "upsert" /\ request[v].auto =>
        Served(draft[v][id]) = Effect(batch[n])
  BY <1>2, BatchOps
<1> QED
  BY <1>3, <1>4

-----------------------------------------------------------------------------
(* Steps that publish nothing. *)

LEMMA ServingKept ==
    ASSUME ServingShape, UNCHANGED <<request, batch, serving, racing>>,
           \A v \in Writers :
              /\ pc'[v] # "idle" => pc[v] # "idle" /\ (Abandoned(v) => Abandoned(v)')
              /\ StillAtWork(v)' => StillAtWork(v) \/ v \in serving
    PROVE  ServingShape'
BY DEF ServingShape

\* No row changes, and no request becomes active or able to take effect, or changes
\* what it has.
LEMMA CommitKept ==
    ASSUME CommitInv, UNCHANGED <<table, request, batch, acked, doubts, serving, racing>>,
           \A v \in Writers : StillAtWork(v)' =>
              /\ StillAtWork(v)
              /\ request[v].auto \/ draft'[v] = draft[v],
           \A w \in Writers : Active(w)' =>
              Active(w) /\ draft'[w] = draft[w] /\ outcomes'[w] = outcomes[w],
           \A w \in serving : answer'[w] = "ok" => answer[w] = "ok"
    PROVE  CommitInv'
<1>1. LateIsPossible'
  BY DEF CommitInv, LateIsPossible, MayDo, Possible, Asked
<1>2. \A op : Undoing(op)' = Undoing(op)
  BY DEF Undoing, Asked
<1>3. MissedIsServed'
  BY <1>2 DEF CommitInv, MissedIsServed
<1>4. DoneIsServed'
  BY <1>2 DEF CommitInv, DoneIsServed
<1>5. LatestAcknowledgedIsServed'
  BY DEF CommitInv, LatestAcknowledgedIsServed, Asked
<1> QED
  BY <1>1, <1>3, <1>4, <1>5 DEF CommitInv

\* A transaction ends without a commit.
LEMMA AbortedRequest ==
    ASSUME StoreInv, SenderInv, NEW w \in Writers, Abort(w), UNCHANGED sending
    PROVE  ServingShape' /\ CommitInv'
<1>1. /\ pc'[w] = "idle"
      /\ UNCHANGED <<table, request, outcomes, batch, acked, doubts, serving, racing>>
      /\ \A v \in Writers \ {w} :
           pc'[v] = pc[v] /\ draft'[v] = draft[v] /\ answer'[v] = answer[v]
      /\ answer'[w] # "ok"
  BY StoreTypes DEF StoreInv, Abort, Release, Abandoned, TypeOK, sending, told
<1>2. \A v \in Writers \ {w} : Abandoned(v)' <=> Abandoned(v)
  BY <1>1 DEF Abandoned
<1>3. \A v \in Writers : StillAtWork(v)' => v # w /\ StillAtWork(v)
  BY <1>1 DEF StillAtWork
<1>4. \A v \in Writers : Active(v)' => v # w /\ Active(v)
  BY <1>1, <1>2 DEF Active
<1>5. ServingShape'
  BY <1>1, <1>2, <1>3, ServingKept DEF SenderInv
<1>6. CommitInv'
  BY <1>1, <1>3, <1>4, CommitKept DEF SenderInv, ServingShape
<1> QED
  BY <1>5, <1>6

\* The sender is told that its request failed, which may still take effect.
LEMMA RequestIsLate ==
    ASSUME StoreInv, SenderInv, NEW w \in Writers, RequestTimesOut(w), UNCHANGED sending
    PROVE  ServingShape' /\ CommitInv'
<1>1. /\ answer'[w] = "unavailable"
      /\ \A v \in Writers \ {w} : answer'[v] = answer[v]
      /\ UNCHANGED <<table, pc, request, outcomes, draft, batch, acked, doubts, serving, racing>>
  BY StoreTypes DEF StoreInv, RequestTimesOut, TypeOK, sending, told
<1>2. Abandoned(w)' /\ \A v \in Writers \ {w} : Abandoned(v)' <=> Abandoned(v)
  BY <1>1 DEF Abandoned
<1>3. \A v \in Writers : StillAtWork(v)' <=> StillAtWork(v)
  BY <1>1 DEF StillAtWork
<1>4. \A v \in Writers : Active(v)' => Active(v)
  BY <1>1, <1>2 DEF Active
<1>5. ServingShape'
  BY <1>1, <1>2, <1>3, ServingKept DEF SenderInv
<1>6. CommitInv'
  BY <1>1, <1>3, <1>4, CommitKept DEF SenderInv, ServingShape
<1> QED
  BY <1>5, <1>6

\* Op(w) becomes the statement in progress.
LEMMA StatementStarts ==
    ASSUME StoreInv, SenderInv, NEW w \in Writers, StartUpsert(w) \/ StartDelete(w),
           UNCHANGED sending
    PROVE  ServingShape' /\ CommitInv'
<1>1. /\ pc[w] = "ready"
      /\ UNCHANGED <<table, request, outcomes, draft, answer, batch, acked, doubts, serving, racing>>
  BY DEF StartUpsert, StartDelete, AtStatement, sending, told
<1>2. /\ pc'[w] \in {"upsert", "delete"}
      /\ \A v \in Writers \ {w} : pc'[v] = pc[v]
  BY StoreTypes DEF StoreInv, StartUpsert, StartDelete, TypeOK
<1>3. \A v \in Writers : Abandoned(v)' <=> Abandoned(v)
  BY <1>1 DEF Abandoned
<1>4. \A v \in Writers : StillAtWork(v)' => StillAtWork(v)
  BY <1>1, <1>2 DEF StillAtWork
<1>5. \A v \in Writers : Active(v)' => Active(v)
  BY <1>1, <1>2, <1>3 DEF Active
<1>6. ServingShape'
  BY <1>1, <1>2, <1>3, <1>4, ServingKept DEF SenderInv
<1>7. CommitInv'
  BY <1>1, <1>4, <1>5, CommitKept DEF SenderInv
<1> QED
  BY <1>6, <1>7

\* A statement of an abandoned request ends: a batch will only roll back, and what a
\* DELETE may do is accounted for.
LEMMA HopelessStatement ==
    ASSUME StoreInv, SenderInv, NEW w \in Writers, Ends(w), Abandoned(w), UNCHANGED sending
    PROVE  ServingShape' /\ CommitInv'
<1>1. /\ pc[w] # "idle" /\ pc'[w] = IF request[w].auto THEN "commit" ELSE "ready"
      /\ UNCHANGED <<table, request, answer, batch, acked, doubts, serving, racing>>
      /\ \A v \in Writers \ {w} :
           pc'[v] = pc[v] /\ draft'[v] = draft[v] /\ outcomes'[v] = outcomes[v]
  BY EndsFrame DEF StoreInv, sending, told
<1>2. \A v \in Writers : Abandoned(v)' <=> Abandoned(v)
  BY <1>1 DEF Abandoned
<1>3. \A v \in Writers : StillAtWork(v)' =>
        StillAtWork(v) /\ (request[v].auto \/ draft'[v] = draft[v])
  BY <1>1 DEF StillAtWork
<1>4. \A v \in Writers : Active(v)' => v # w /\ Active(v)
  BY <1>1, <1>2 DEF Active
<1>5. ServingShape'
  BY <1>1, <1>2, <1>3, ServingKept DEF SenderInv
<1>6. CommitInv'
  BY <1>1, <1>3, <1>4, CommitKept DEF SenderInv
<1> QED
  BY <1>5, <1>6

-----------------------------------------------------------------------------
(* The request the sender waits for. *)

LEMMA ActiveIsServing ==
    ASSUME ServingShape, NEW w \in Writers, Active(w)
    PROVE  /\ w \in serving /\ request[w].ops = batch
           /\ \A v \in serving : v = w
           /\ \A v \in Writers : Active(v) => v = w
           /\ \A v \in Writers \ {w} : StillAtWork(v) => v \in racing
BY DEF ServingShape, Active

LEMMA ActiveStatement ==
    ASSUME StoreInv, SenderInv, NEW w \in Writers, Active(w), Ends(w), UNCHANGED sending
    PROVE  ServingShape' /\ CommitInv'
<1> PICK last \in Nat : last = Len(outcomes[w]) + 1
  BY StoreTypes DEF StoreInv
<1>1. /\ pc[w] # "idle" /\ MoreOps(w)
      /\ pc'[w] = IF request[w].auto THEN "commit" ELSE "ready"
      /\ UNCHANGED <<table, request, answer, batch, acked, doubts, serving, racing>>
      /\ \A v \in Writers \ {w} :
           pc'[v] = pc[v] /\ draft'[v] = draft[v] /\ outcomes'[v] = outcomes[v]
      /\ \A i \in Ids \ {Op(w).id} : draft'[w][i] = draft[w][i]
  BY EndsFrame DEF StoreInv, sending, told
<1>2. /\ request[w].ops = batch /\ \A v \in serving : v = w
      /\ \A v \in Writers : Active(v) => v = w
  BY ActiveIsServing DEF SenderInv
<1>3. last \in DOMAIN batch /\ batch[last] = Op(w)
  <2>1. batch \in Seq(Ops)
    BY DEF SenderInv, BatchShape
  <2> QED
    BY <1>1, <1>2, <2>1 DEF MoreOps, Op
<1>4. DOMAIN outcomes'[w] = DOMAIN outcomes[w] \cup {last}
  <2>1. outcomes[w] \in Seq(Outcomes) /\ Len(outcomes[w]) \in Nat
    BY StoreTypes DEF StoreInv, TypeOK
  <2>2. PICK o : outcomes'[w] = Append(outcomes[w], o)
    BY EndsFrame DEF StoreInv
  <2>3. DOMAIN outcomes[w] = 1 .. (last - 1) /\ DOMAIN outcomes'[w] = 1 .. last
    BY <2>1, <2>2
  <2> QED
    BY <2>3
<1>5. \A v \in Writers : Abandoned(v)' <=> Abandoned(v)
  BY <1>1 DEF Abandoned
<1>6. \A v \in Writers : StillAtWork(v)' =>
        StillAtWork(v) /\ (request[v].auto \/ draft'[v] = draft[v])
  BY <1>1 DEF StillAtWork
<1>7. \A v \in Writers : Active(v)' => v = w
  BY <1>1, <1>2, <1>5 DEF Active
<1>8. \A op : Undoing(op)' = Undoing(op)
  BY <1>1 DEF Undoing, Asked
<1>9. ServingShape'
  BY <1>1, <1>5, <1>6, ServingKept DEF SenderInv
<1>10. LateIsPossible'
  BY <1>1, <1>6 DEF SenderInv, CommitInv, LateIsPossible, MayDo, Possible, Asked
<1>11. ASSUME NEW n \in DOMAIN outcomes'[w], batch[n].kind = "delete",
              ~Exists(draft'[w][batch[n].id])
       PROVE  Served(table[batch[n].id]) \in {Nothing} \cup Undoing(batch[n])
  <2>1. CASE n = last
    <3>1. Op(w).id \in Ids
      BY <1>3, BatchOps DEF SenderInv
    <3>2. draft' = draft
      BY <1>3, <1>11, <2>1, StatementEffect DEF StoreInv
    <3> QED
      BY <1>3, <1>11, <2>1, <3>2, StatementEffect DEF StoreInv
  <2>2. CASE n # last
    <3>1. n \in DOMAIN outcomes[w]
      BY <1>4, <1>11, <2>2
    <3>2. n \in DOMAIN batch
      BY <1>2, <3>1, RequestTypes
    <3>3. batch[n].id \in Ids \ {Op(w).id}
      BY <1>3, <2>2, <3>2, BatchOps DEF SenderInv
    <3>4. ~Exists(draft[w][batch[n].id])
      BY <1>1, <1>11, <3>3
    <3> QED
      BY <1>11, <3>1, <3>4 DEF SenderInv, CommitInv, MissedIsServed
  <2> QED
    BY <2>1, <2>2
<1>12. MissedIsServed'
  BY <1>1, <1>7, <1>8, <1>11 DEF MissedIsServed
<1>13. DoneIsServed'
  <2>1. answer[w] # "ok"
    BY <1>1 DEF StoreInv, OutcomeInv, UnansweredInv
  <2> QED
    BY <1>1, <1>2, <2>1 DEF DoneIsServed
<1>14. LatestAcknowledgedIsServed'
  BY <1>1 DEF SenderInv, CommitInv, LatestAcknowledgedIsServed, Asked
<1> QED
  BY <1>9, <1>10, <1>12, <1>13, <1>14 DEF CommitInv

\* From now on it may take effect also if it is given up; the sender counts on it.
LEMMA CommitIsSent ==
    ASSUME StoreInv, SenderInv, NEW w \in Writers, SendCommit(w), UNCHANGED sending
    PROVE  ServingShape' /\ CommitInv'
<1>1. /\ pc[w] = "ready" /\ ~Abandoned(w) /\ pc'[w] = "commit"
      /\ \A v \in Writers \ {w} : pc'[v] = pc[v]
      /\ UNCHANGED <<table, request, outcomes, draft, answer, batch, acked, doubts, serving, racing>>
  BY StoreTypes DEF StoreInv, SendCommit, TypeOK, sending, told
<1>2. Active(w)
  BY <1>1 DEF Active, SenderInv, ServingShape
<1>3. request[w].ops = batch /\ w \in serving /\ \A v \in serving : v = w
  BY <1>2, ActiveIsServing DEF SenderInv
<1>4. \A v \in Writers : Abandoned(v)' <=> Abandoned(v)
  BY <1>1 DEF Abandoned
<1>5. \A v \in Writers : (StillAtWork(v)' => StillAtWork(v) \/ v = w) /\ (Active(v)' => Active(v))
  BY <1>1, <1>4 DEF StillAtWork, Active
<1>6. ServingShape'
  BY <1>1, <1>3, <1>4, <1>5, ServingKept DEF SenderInv
<1>7. \A i \in Ids : MayDo(w, i) \subseteq Possible(i)
  <2> SUFFICES ASSUME NEW i \in Ids PROVE MayDo(w, i) \subseteq Asked(batch, i)
    BY DEF Possible
  <2>1. CASE request[w].auto
    BY <1>3, <2>1 DEF MayDo
  <2>2. CASE ~request[w].auto
    BY <1>3, <2>2, DraftDoes DEF MayDo
  <2> QED
    BY <2>1, <2>2
<1>8. LateIsPossible'
  BY <1>1, <1>5, <1>7 DEF SenderInv, CommitInv, LateIsPossible, MayDo, Possible, Asked
<1>9. \A op : Undoing(op)' = Undoing(op)
  BY <1>1 DEF Undoing, Asked
<1>10. MissedIsServed'
  BY <1>1, <1>5, <1>9 DEF SenderInv, CommitInv, MissedIsServed
<1>11. DoneIsServed'
  <2>1. answer[w] # "ok"
    BY <1>1 DEF StoreInv, OutcomeInv, UnansweredInv
  <2> QED
    BY <1>1, <1>3, <2>1 DEF DoneIsServed
<1>12. LatestAcknowledgedIsServed'
  BY <1>1 DEF SenderInv, CommitInv, LatestAcknowledgedIsServed, Asked
<1> QED
  BY <1>6, <1>8, <1>10, <1>11, <1>12 DEF CommitInv

-----------------------------------------------------------------------------
(* Commits. *)

LEMMA CommitFrame ==
    ASSUME StoreInv, SenderInv, NEW v \in Writers, Commit(v), UNCHANGED sending
    PROVE  /\ pc[v] = "commit" /\ pc'[v] = "idle"
           /\ \A i \in Ids : table'[i] = IF Exists(draft[v][i]) THEN draft[v][i] ELSE table[i]
           /\ UNCHANGED <<request, outcomes, batch, acked, doubts, serving, racing>>
           /\ answer'[v] \in IF Abandoned(v) THEN {answer[v]} ELSE {"ok", "error"}
           /\ \A u \in Writers \ {v} :
                /\ pc'[u] = pc[u] /\ draft'[u] = draft[u]
                /\ answer'[u] = answer[u] /\ (Abandoned(u)' <=> Abandoned(u))
           /\ \A u \in Writers : StillAtWork(u)' => u # v /\ StillAtWork(u)
           /\ \A u \in Writers : Active(u)' => u # v /\ Active(u)
           /\ \A op : Undoing(op)' = Undoing(op)
<1>1. /\ pc[v] = "commit" /\ pc'[v] = "idle"
      /\ \A i \in Ids : table'[i] = IF Exists(draft[v][i]) THEN draft[v][i] ELSE table[i]
      /\ UNCHANGED <<request, outcomes, batch, acked, doubts, serving, racing>>
      /\ answer'[v] \in IF Abandoned(v) THEN {answer[v]} ELSE {"ok", "error"}
      /\ \A u \in Writers \ {v} :
           pc'[u] = pc[u] /\ draft'[u] = draft[u] /\ answer'[u] = answer[u]
  BY StoreTypes DEF StoreInv, Commit, Release, TypeOK, sending, told
<1>2. \A u \in Writers \ {v} : Abandoned(u)' <=> Abandoned(u)
  BY <1>1 DEF Abandoned
<1>3. \A u \in Writers : StillAtWork(u)' => u # v /\ StillAtWork(u)
  BY <1>1 DEF StillAtWork
<1>4. \A u \in Writers : Active(u)' => u # v /\ Active(u)
  BY <1>1, <1>2 DEF Active
<1>5. \A op : Undoing(op)' = Undoing(op)
  BY <1>1 DEF Undoing, Asked
<1> QED
  BY <1>1, <1>2, <1>3, <1>4, <1>5

\* Whoever commits, what it publishes was accounted for.
LEMMA PublishesThePossible ==
    ASSUME StoreInv, SenderInv, NEW v \in Writers, Commit(v), UNCHANGED sending
    PROVE  LateIsPossible' /\ LatestAcknowledgedIsServed'
<1> USE CommitFrame
<1>1. \A i \in Ids : Possible(i)' = Possible(i)
  BY DEF Possible, Asked
<1>2. \A u \in Writers : StillAtWork(u)' => \A i \in Ids : MayDo(u, i)' = MayDo(u, i)
  BY DEF MayDo, Asked
<1>3. LateIsPossible'
  BY <1>1, <1>2 DEF SenderInv, CommitInv, LateIsPossible
<1>4. StillAtWork(v)
  BY DEF StillAtWork
<1>5. ASSUME NEW i \in Ids PROVE Served(table'[i]) \in Possible(i)
  <2>1. CASE Exists(draft[v][i])
    BY <1>4, <2>1, DraftDoes DEF SenderInv, CommitInv, LateIsPossible
  <2>2. CASE ~Exists(draft[v][i])
    BY <2>2 DEF SenderInv, CommitInv, LatestAcknowledgedIsServed, Possible
  <2> QED
    BY <2>1, <2>2
<1>6. LatestAcknowledgedIsServed'
  BY <1>1, <1>5 DEF LatestAcknowledgedIsServed, Possible, Asked
<1> QED
  BY <1>3, <1>6

\* What the request the sender waits for has done, a racer undoes or leaves.
LEMMA RacerCommits ==
    ASSUME StoreInv, SenderInv, NEW v \in Writers, Commit(v), UNCHANGED sending,
           NEW n \in DOMAIN batch, v \in racing,
           Served(table[batch[n].id]) \in {Effect(batch[n])} \cup Undoing(batch[n]),
           batch[n].kind = "upsert" /\ Exists(draft[v][batch[n].id]) => request[v].auto
    PROVE  Served(table'[batch[n].id]) \in {Effect(batch[n])} \cup Undoing(batch[n])
<1>1. batch[n].id \in Ids
  BY BatchOps DEF SenderInv
<1>2. CASE Exists(draft[v][batch[n].id])
  <2>1. table'[batch[n].id] = draft[v][batch[n].id]
    BY <1>1, <1>2, CommitFrame
  <2> QED
    BY <1>2, <2>1, RacerUndoes DEF SenderInv
<1>3. CASE ~Exists(draft[v][batch[n].id])
  BY <1>1, <1>3, CommitFrame
<1> QED
  BY <1>2, <1>3

\* The request the sender waits for takes effect, whatever it is told of it.
LEMMA BatchTakesHold ==
    ASSUME StoreInv, SenderInv, NEW w \in Writers, Commit(w), Active(w), UNCHANGED sending,
           NEW n \in DOMAIN batch
    PROVE  /\ Served(table'[batch[n].id]) \in {Effect(batch[n])} \cup Undoing(batch[n])
           /\ batch[n].kind = "upsert" =>
                \A v \in Writers \ {w} : ~Exists(draft[v][batch[n].id])
<1> PICK op \in Ops : op = batch[n]
  BY BatchOps DEF SenderInv
<1> DEFINE row == table'[op.id]
<1>1. /\ op.id \in Ids /\ op.kind \in {"upsert", "delete"}
      /\ op.kind = "delete" => Effect(op) = Nothing
      /\ \A m \in DOMAIN batch : batch[m].id = op.id => m = n
  BY BatchOps DEF SenderInv
<1>2. request[w].ops = batch /\ pc[w] = "commit"
  BY ActiveIsServing, CommitFrame DEF SenderInv
<1>3. DOMAIN outcomes[w] = DOMAIN batch
  <2>1. Len(outcomes[w]) <= Len(batch) /\ ~(Len(outcomes[w]) < Len(batch))
    BY <1>2 DEF StoreInv, OutcomeInv, OutcomesWithinRequest, WholeInv, CommitComplete, MoreOps
  <2>2. /\ DOMAIN outcomes[w] = 1 .. Len(outcomes[w]) /\ DOMAIN batch = 1 .. Len(batch)
        /\ Len(outcomes[w]) \in Nat /\ Len(batch) \in Nat
    BY OutcomeTypes DEF StoreInv, IInv, SenderInv, BatchShape
  <2> QED
    BY <2>1, <2>2
<1>4. table'[op.id] = Own(w, op.id)
  BY <1>1, CommitFrame DEF Own
<1>5. Took(w, n)
  <2>1. \A m \in DOMAIN outcomes[w] : m > n => request[w].ops[m].id # request[w].ops[n].id
    <3>1. n \in Nat
      BY DEF SenderInv, BatchShape
    <3> QED
      BY <1>1, <1>2, <1>3, <3>1
  <2>2. n \in LastDone(w)
    BY <1>3, <2>1 DEF LastDone
  <2> QED
    BY <1>2, <2>2 DEF StoreInv, EffectInv
<1>6. CASE op.kind = "upsert"
  <2>1. op.id \in locks[w] /\ Live(Own(w, op.id)) /\ Own(w, op.id).payload = op.payload
    BY <1>2, <1>5, <1>6 DEF Took
  <2>2. Served(table'[op.id]) = Effect(op)
    BY <1>4, <1>6, <2>1 DEF Served, Effect
  <2>3. \A v \in Writers \ {w} : ~Exists(draft[v][op.id])
    BY <1>1, <2>1, LockedIsSafe
  <2> QED
    BY <2>2, <2>3
<1>7. CASE op.kind = "delete"
  <2>1. CASE Exists(draft[w][op.id])
    <3>1. PICK m \in DOMAIN outcomes[w] :
             request[w].ops[m].id = op.id /\ Served(draft[w][op.id]) = Effect(request[w].ops[m])
      BY <1>1, <2>1 DEF StoreInv, DraftInv, DraftsAsked
    <3>2. m = n
      BY <1>1, <1>2, <1>3, <3>1
    <3> QED
      BY <1>2, <1>4, <1>7, <2>1, <3>1, <3>2 DEF Own
  <2>2. CASE ~Exists(draft[w][op.id])
    <3>1. Served(table[op.id]) \in {Nothing} \cup Undoing(op)
      BY <1>3, <1>7, <2>2 DEF SenderInv, CommitInv, MissedIsServed
    <3> QED
      BY <1>1, <1>4, <1>7, <2>2, <3>1 DEF Own
  <2> QED
    BY <2>1, <2>2
<1> QED
  BY <1>1, <1>6, <1>7

LEMMA RequestCommits ==
    ASSUME StoreInv, SenderInv, NEW v \in Writers, Commit(v), UNCHANGED sending
    PROVE  ServingShape' /\ CommitInv'
<1> USE CommitFrame
<1>1. StillAtWork(v)
  BY DEF StillAtWork
<1>2. ServingShape'
  BY ServingKept DEF SenderInv
<1>3. LateIsPossible' /\ LatestAcknowledgedIsServed'
  BY PublishesThePossible
<1>4. ASSUME NEW w \in Writers, Active(w)', NEW n \in DOMAIN outcomes[w],
             batch[n].kind = "delete", ~Exists(draft[w][batch[n].id])
      PROVE  Served(table'[batch[n].id]) \in {Nothing} \cup Undoing(batch[n])
  <2>1. Active(w) /\ w # v
    BY <1>4
  <2>2. n \in DOMAIN batch
    BY <2>1, ActiveIsServing, RequestTypes DEF SenderInv
  <2>3. v \in racing
    BY <1>1, <2>1, ActiveIsServing DEF SenderInv
  <2>4. Effect(batch[n]) = Nothing
    BY <1>4, <2>2, BatchOps DEF SenderInv
  <2>5. Served(table[batch[n].id]) \in {Nothing} \cup Undoing(batch[n])
    BY <1>4, <2>1 DEF SenderInv, CommitInv, MissedIsServed
  <2>6. Served(table'[batch[n].id]) \in {Effect(batch[n])} \cup Undoing(batch[n])
    BY <1>4, <2>2, <2>3, <2>4, <2>5, RacerCommits
  <2> QED
    BY <2>4, <2>6
<1>5. MissedIsServed'
  <2> SUFFICES ASSUME NEW w \in Writers, Active(w)', NEW n \in DOMAIN outcomes'[w],
                      batch'[n].kind = "delete", ~Exists(draft'[w][batch'[n].id])
               PROVE  Served(table'[batch'[n].id]) \in {Nothing} \cup Undoing(batch[n])'
    BY DEF MissedIsServed
  <2>1. UNCHANGED <<request, outcomes, batch, racing>> /\ draft'[w] = draft[w]
    OBVIOUS
  <2>2. Undoing(batch[n])' = Undoing(batch[n])
    BY ONLY <2>1 DEF Undoing, Asked
  <2> QED
    BY <1>4, <2>1, <2>2
<1>6. ASSUME NEW w \in serving, answer'[w] = "ok", NEW n \in DOMAIN batch
      PROVE  /\ Served(table'[batch[n].id]) \in {Effect(batch[n])} \cup Undoing(batch[n])
             /\ batch[n].kind = "upsert" =>
                  \A u \in Writers : StillAtWork(u)' /\ ~request[u].auto =>
                      ~Exists(draft[u][batch[n].id])
  <2>1. CASE w = v
    <3>1. Active(v)
      <4>1. ~Abandoned(v)
        BY <1>6, <2>1 DEF Abandoned
      <4> QED
        BY <2>1, <4>1 DEF Active
    <3> QED
      BY <3>1, BatchTakesHold
  <2>2. CASE w # v
    <3>1. w \in Writers /\ v \notin serving /\ answer[w] = "ok"
      BY <1>6, <2>2 DEF SenderInv, ServingShape
    <3>2. v \in racing
      BY <1>1, <1>6, <3>1 DEF SenderInv, ServingShape
    <3>3. /\ Served(table[batch[n].id]) \in {Effect(batch[n])} \cup Undoing(batch[n])
          /\ batch[n].kind = "upsert" =>
               \A u \in Writers : StillAtWork(u) /\ ~request[u].auto =>
                   ~Exists(draft[u][batch[n].id])
      BY <1>6, <3>1 DEF SenderInv, CommitInv, DoneIsServed
    <3>4. Served(table'[batch[n].id]) \in {Effect(batch[n])} \cup Undoing(batch[n])
      BY <1>1, <3>2, <3>3, RacerCommits
    <3> QED
      BY <3>3, <3>4
  <2> QED
    BY <2>1, <2>2
<1>7. DoneIsServed'
  <2>1. \A u \in Writers : StillAtWork(u)' => draft'[u] = draft[u]
    OBVIOUS
  <2>2. UNCHANGED <<request, batch, serving, racing>>
    OBVIOUS
  <2>3. \A n \in DOMAIN batch : Undoing(batch[n])' = Undoing(batch[n])
    BY ONLY <2>2 DEF Undoing, Asked
  <2> QED
    BY ONLY <1>6, <2>1, <2>2, <2>3 DEF DoneIsServed
<1> QED
  BY <1>2, <1>3, <1>5, <1>7 DEF CommitInv

\* Whatever the store does of itself.
LEMMA StoreKeeps ==
    ASSUME StoreInv, SenderInv, NEW w \in Writers, UNCHANGED sending,
           Advance(w) \/ RequestTimesOut(w) \/ StoreFails(w) \/ DeadlockDetected(w)
    PROVE  ServingShape' /\ CommitInv'
<1>1. CASE StartUpsert(w) \/ StartDelete(w)
  BY <1>1, StatementStarts
<1>2. CASE Ends(w)
  <2>1. CASE Abandoned(w)
    BY <1>2, <2>1, HopelessStatement
  <2>2. CASE ~Abandoned(w)
    <3>1. Active(w)
      BY <1>2, <2>2, EndsFrame DEF Active, StoreInv, SenderInv, ServingShape
    <3> QED
      BY <1>2, <3>1, ActiveStatement
  <2> QED
    BY <2>1, <2>2
<1>3. CASE SendCommit(w)
  BY <1>3, CommitIsSent
<1>4. CASE Commit(w)
  BY <1>4, RequestCommits
<1>5. CASE Rollback(w) \/ StoreFails(w) \/ DeadlockDetected(w)
  BY <1>5, AbortedRequest DEF Rollback, StoreFails, DeadlockDetected
<1>6. CASE RequestTimesOut(w)
  BY <1>6, RequestIsLate
<1> QED
  BY <1>1, <1>2, <1>3, <1>4, <1>5, <1>6 DEF Advance, Upsert, Delete, Ends

-----------------------------------------------------------------------------
(* What the sender does. *)

LEMMA OpForType ==
    ASSUME BatchShape, NEW i \in Ids PROVE OpFor(i) \in Ops /\ OpFor(i).id = i
BY EmptyDocAssumption DEF BatchShape, OpFor, Ops, Values

\* A batch for some ids has one operation for each.
LEMMA BatchForShape ==
    ASSUME BatchShape, NEW S \in SUBSET Ids
    PROVE  LET ops == BatchFor(S) IN
           /\ ops \in Seq(Ops)
           /\ \A m, n \in DOMAIN ops : ops[m].id = ops[n].id => m = n
<1> DEFINE N == Cardinality(S)
           ids == SetToSeq(S)
<1>1. IsFiniteSet(S) /\ N \in Nat
  BY TableAssumption, FS_Subset, FS_CardinalityType
<1>2. \E f \in [1 .. N -> S] : IsInjective(f)
  <2>1. ExistsBijection(1 .. N, S)
    <3>1. PICK n \in Nat : ExistsBijection(1 .. n, S)
      BY <1>1, FS_NatBijection
    <3>2. n = N
      BY <1>1, <3>1, FS_CountingElements
    <3> QED
      BY <3>1, <3>2
  <2> QED
    BY <2>1 DEF ExistsBijection, Bijection, Injection
<1>3. ids \in [1 .. N -> S] /\ IsInjective(ids)
  BY <1>2 DEF SetToSeq
<1>4. \A m, n \in 1 .. N : ids[m] = ids[n] => m = n
  BY <1>3 DEF IsInjective
<1>5. \A i \in Ids : OpFor(i) \in Ops /\ OpFor(i).id = i
  BY OpForType
<1> HIDE DEF N, ids
<1>6. BatchFor(S) = [n \in 1 .. N |-> OpFor(ids[n])]
  BY <1>3 DEF BatchFor, ids
<1>7. \A n \in 1 .. N : ids[n] \in Ids
  BY <1>3
<1>8. BatchFor(S) \in Seq(Ops)
  BY <1>1, <1>5, <1>6, <1>7
<1> QED
  BY <1>4, <1>5, <1>6, <1>7, <1>8

LEMMA SenderStarts ==
    ASSUME SenderInit PROVE SenderInv
<1>1. /\ \A w \in Writers : pc[w] = "idle"
      /\ \A i \in Ids : Served(table[i]) = Nothing
      /\ walk = "off" /\ batch = << >> /\ single = FALSE /\ serving = {} /\ racing = {}
      /\ truth = First /\ dirty \subseteq Ids
      /\ acked = [i \in Ids |-> Nothing] /\ doubts = [i \in Ids |-> {}]
  BY DEF SenderInit, Init, WalkInit, Served, Live, Exists, NoRow
<1>2. BatchShape
  <2>1. batch \in Seq(Ops) /\ DOMAIN batch = {}
    BY <1>1
  <2>2. Nothing \in Values /\ truth \in [Ids -> Values]
    BY <1>1, VersionsAssumption DEF Values
  <2> QED
    BY <1>1, <2>1, <2>2 DEF BatchShape
<1>3. ServingShape
  BY <1>1 DEF ServingShape
<1>4. CommitInv
  BY <1>1 DEF CommitInv, LateIsPossible, MissedIsServed, DoneIsServed, StillAtWork, Active,
              LatestAcknowledgedIsServed
<1> QED
  BY <1>2, <1>3, <1>4 DEF SenderInv

\* A step that does not concern the store.
LEMMA StoreUntouched ==
    ASSUME ServingShape, CommitInv, UNCHANGED <<vars, batch, serving, racing, acked, doubts>>
    PROVE  ServingShape' /\ CommitInv'
<1>1. UNCHANGED <<table, pc, request, outcomes, draft, answer>>
  BY DEF vars
<1>2. \A w \in Writers :
        /\ Abandoned(w)' <=> Abandoned(w)
        /\ StillAtWork(w)' <=> StillAtWork(w)
  BY <1>1 DEF Abandoned, StillAtWork
<1>3. \A w \in Writers : Active(w)' <=> Active(w)
  BY <1>1, <1>2 DEF Active
<1>4. ServingShape'
  BY <1>1, <1>2, ServingKept
<1>5. CommitInv'
  BY <1>1, <1>2, <1>3, CommitKept
<1> QED
  BY <1>4, <1>5

\* There was nothing to push, and there is now: one more thing may be served.
LEMMA BatchIsMade ==
    ASSUME ServingShape, CommitInv, batch = << >>, UNCHANGED <<vars, serving, racing, acked, doubts>>
    PROVE  ServingShape' /\ CommitInv'
<1>1. UNCHANGED <<table, pc, request, outcomes, draft, answer>> /\ serving = {}
  BY DEF vars, ServingShape
<1>2. \A w \in Writers :
        /\ Abandoned(w)' <=> Abandoned(w)
        /\ StillAtWork(w)' <=> StillAtWork(w)
        /\ ~Active(w)'
  BY <1>1 DEF Abandoned, StillAtWork, Active
<1>3. ServingShape'
  BY <1>1, <1>2 DEF ServingShape
<1>4. \A i \in Ids : Asked(batch, i) = {}
  BY DEF Asked, Range
<1>5. LateIsPossible'
  BY <1>1, <1>2, <1>4 DEF CommitInv, LateIsPossible, MayDo, Possible, Asked
<1>6. MissedIsServed' /\ DoneIsServed'
  BY <1>1, <1>2 DEF MissedIsServed, DoneIsServed
<1>7. LatestAcknowledgedIsServed'
  BY <1>1, <1>4 DEF CommitInv, LatestAcknowledgedIsServed
<1> QED
  BY <1>3, <1>5, <1>6, <1>7 DEF CommitInv

LEMMA BatchIsSent ==
    ASSUME StoreInv, SenderInv, NEW w \in Writers, Send(w) PROVE ServingShape' /\ CommitInv'
<1>1. /\ batch # << >> /\ serving = {} /\ serving' = {w}
      /\ pc[w] = "idle" /\ pc'[w] = "ready"
      /\ request'[w] = [auto |-> single, ops |-> batch]
      /\ outcomes'[w] = << >> /\ answer'[w] = "none"
      /\ racing' = {v \in Writers : StillAtWork(v)}
      /\ UNCHANGED <<table, draft, batch, acked, doubts>>
      /\ \A v \in Writers \ {w} :
           /\ pc'[v] = pc[v] /\ request'[v] = request[v]
           /\ outcomes'[v] = outcomes[v] /\ answer'[v] = answer[v]
  BY StoreTypes DEF StoreInv, Send, Begin, TypeOK, told
<1>2. \A v \in Writers \ {w} : /\ Abandoned(v)' <=> Abandoned(v)
                               /\ StillAtWork(v)' <=> StillAtWork(v)
  BY <1>1 DEF Abandoned, StillAtWork
<1>3. ~StillAtWork(w)
  BY <1>1 DEF StillAtWork
<1>4. \A v \in Writers : Active(v)' => v = w
  BY <1>1 DEF Active
<1>5. ServingShape'
  BY <1>1, <1>2, <1>3 DEF SenderInv, ServingShape
<1>6. \A i \in Ids : Possible(i)' = Possible(i) /\ Asked(batch, i) \subseteq Possible(i)
  BY <1>1 DEF Possible, Asked
<1>7. ASSUME NEW v \in Writers, StillAtWork(v)', NEW i \in Ids
      PROVE  MayDo(v, i)' \subseteq Possible(i)
  <2>1. CASE v = w
    <3>1. request'[w].auto /\ request'[w].ops = batch
      BY <1>1, <1>7, <2>1 DEF StillAtWork
    <3>2. MayDo(w, i)' = Asked(batch, i)
      BY <3>1 DEF MayDo, Asked
    <3> QED
      BY <1>6, <2>1, <3>2
  <2>2. CASE v # w
    <3>1. MayDo(v, i)' = MayDo(v, i)
      BY <1>1, <2>2 DEF MayDo, Asked
    <3> QED
      BY <1>2, <1>7, <2>2, <3>1 DEF SenderInv, CommitInv, LateIsPossible
  <2> QED
    BY <2>1, <2>2
<1>8. LateIsPossible'
  BY <1>6, <1>7 DEF LateIsPossible
<1>9. MissedIsServed' /\ DoneIsServed'
  BY <1>1, <1>4 DEF MissedIsServed, DoneIsServed
<1>10. LatestAcknowledgedIsServed'
  BY <1>1 DEF SenderInv, CommitInv, LatestAcknowledgedIsServed, Asked
<1> QED
  BY <1>5, <1>8, <1>9, <1>10 DEF CommitInv

\* What was acknowledged is served, but for what is known to undo it.
LEMMA AcknowledgedHolds ==
    ASSUME StoreInv, SenderInv, NEW w \in serving, answer[w] = "ok", Acknowledged
    PROVE  /\ acked' \in [Ids -> Values] /\ doubts' \in [Ids -> SUBSET Values]
           /\ \A i \in Ids : Served(table[i]) \in {acked'[i]} \cup doubts'[i]
           /\ \A v \in Writers : StillAtWork(v) => \A i \in Ids :
                MayDo(v, i) \subseteq {acked'[i]} \cup doubts'[i]
<1> DEFINE op(i) == CHOOSE o \in Range(batch) : o.id = i
           known == {o.id : o \in Range(batch)}
<1>1. /\ acked' = [i \in Ids |-> IF i \in known THEN Effect(op(i)) ELSE acked[i]]
      /\ doubts' = [i \in Ids |-> IF i \in known THEN Undoing(op(i)) ELSE doubts[i]]
  BY DEF Acknowledged
<1>2. ASSUME NEW i \in known PROVE \E n \in DOMAIN batch : batch[n].id = i /\ op(i) = batch[n]
  <2>1. \E o \in Range(batch) : o.id = i
    OBVIOUS
  <2>2. op(i) \in Range(batch) /\ op(i).id = i
    BY <2>1
  <2> QED
    BY <2>2 DEF Range
<1>3. \A i \in Ids \ known : Asked(batch, i) = {}
  BY DEF Asked
<1> HIDE DEF op, known
<1>4. ASSUME NEW n \in DOMAIN batch
      PROVE  Effect(batch[n]) \in Values /\ Undoing(batch[n]) \in SUBSET Values
  <2>1. batch[n] \in Ops /\ batch[n].payload \in Payloads
    BY BatchOps, EmptyDocAssumption DEF SenderInv, Ops
  <2> QED
    BY <2>1, UndoingValues DEF Effect, Values, SenderInv
<1>5. acked' \in [Ids -> Values] /\ doubts' \in [Ids -> SUBSET Values]
  BY <1>1, <1>2, <1>4 DEF SenderInv, BatchShape
<1>6. ASSUME NEW i \in Ids PROVE Served(table[i]) \in {acked'[i]} \cup doubts'[i]
  <2>1. CASE i \in known
    <3>1. PICK n \in DOMAIN batch : batch[n].id = i /\ op(i) = batch[n]
      BY <1>2, <2>1
    <3>2. Served(table[i]) \in {Effect(batch[n])} \cup Undoing(batch[n])
      BY <3>1 DEF SenderInv, CommitInv, DoneIsServed
    <3> QED
      BY <1>1, <2>1, <3>1, <3>2
  <2>2. CASE i \notin known
    BY <1>1, <1>3, <2>2 DEF SenderInv, CommitInv, LatestAcknowledgedIsServed
  <2> QED
    BY <2>1, <2>2
<1>7. ASSUME NEW v \in Writers, StillAtWork(v), NEW i \in Ids
      PROVE  MayDo(v, i) \subseteq {acked'[i]} \cup doubts'[i]
  <2>1. CASE i \in known
    <3>1. PICK n \in DOMAIN batch : batch[n].id = i /\ op(i) = batch[n]
      BY <1>2, <2>1
    <3>2. v \in racing
      <4>1. w \in Writers /\ pc[w] = "idle"
        BY DEF SenderInv, ServingShape, StoreInv, OutcomeInv, UnansweredInv
      <4>2. v # w
        BY <1>7, <4>1 DEF StillAtWork
      <4> QED
        BY <1>7, <4>2 DEF SenderInv, ServingShape
    <3>3. CASE request[v].auto
      <4>1. MayDo(v, i) = Asked(request[v].ops, i)
        BY <3>3 DEF MayDo
      <4>2. CASE batch[n].kind = "upsert"
        BY <1>1, <2>1, <3>1, <3>2, <3>3, <4>1, <4>2 DEF Undoing
      <4>3. CASE batch[n].kind # "upsert"
        <5>1. Effect(batch[n]) = Nothing
          BY <4>3, BatchOps DEF SenderInv
        <5> QED
          BY <1>1, <2>1, <3>1, <3>3, <4>1, <5>1, DeleteAsks
      <4> QED
        BY <4>2, <4>3
    <3>4. CASE ~request[v].auto
      <4>1. CASE Exists(draft[v][i])
        <5>1. batch[n].kind # "upsert"
          BY <1>7, <3>1, <3>4, <4>1 DEF SenderInv, CommitInv, DoneIsServed
        <5>2. MayDo(v, i) = {Served(draft[v][i])}
          BY <3>4, <4>1 DEF MayDo
        <5>3. MayDo(v, i) \subseteq Asked(request[v].ops, i)
          BY <4>1, <5>2, DraftDoes
        <5> QED
          BY <1>1, <2>1, <3>1, <3>2, <3>4, <5>1, <5>3 DEF Undoing
      <4>2. CASE ~Exists(draft[v][i])
        BY <3>4, <4>2 DEF MayDo
      <4> QED
        BY <4>1, <4>2
    <3> QED
      BY <3>3, <3>4
  <2>2. CASE i \notin known
    BY <1>1, <1>3, <1>7, <2>2 DEF SenderInv, CommitInv, LateIsPossible, Possible
  <2> QED
    BY <2>1, <2>2
<1> QED
  BY <1>5, <1>6, <1>7

LEMMA AnswerIsTaken ==
    ASSUME StoreInv, SenderInv, NEW w \in Writers, TakeAnswer(w) PROVE SenderInv'
<1>1. /\ w \in serving /\ answer[w] # "none" /\ serving' = {} /\ racing' = {}
      /\ UNCHANGED <<vars, walk, truth>>
      /\ UNCHANGED <<table, pc, request, outcomes, draft, answer>>
  BY DEF TakeAnswer, walkVars, walking, vars
<1>2. serving = {w}
  BY <1>1 DEF SenderInv, ServingShape
<1>3. pc[w] # "idle" => Abandoned(w)
  BY <1>1 DEF StoreInv, OutcomeInv, UnansweredInv, Abandoned
<1>4. \A v \in Writers : (Abandoned(v)' <=> Abandoned(v)) /\ (StillAtWork(v)' <=> StillAtWork(v))
  BY <1>1 DEF Abandoned, StillAtWork
<1>5. ServingShape'
  BY <1>1, <1>2, <1>3, <1>4 DEF SenderInv, ServingShape
<1>6. MissedIsServed' /\ DoneIsServed'
  BY <1>1 DEF MissedIsServed, DoneIsServed, Active
<1>7. \A v \in Writers : \A i \in Ids : MayDo(v, i)' = MayDo(v, i)
  BY <1>1 DEF MayDo, Asked
<1>8. << >> \in Seq(Ops) /\ DOMAIN << >> = {}
  OBVIOUS
<1>9. batch \in Seq(Ops) /\ \A o \in Range(batch) : o.id \in Ids
  BY BatchOps DEF SenderInv, BatchShape, Range
<1>10. CASE answer[w] = "ok"
  <2>1. Acknowledged /\ batch' = << >> /\ single' = FALSE /\ dirty' = dirty
    BY <1>10 DEF TakeAnswer
  <2>2. /\ acked' \in [Ids -> Values] /\ doubts' \in [Ids -> SUBSET Values]
        /\ \A i \in Ids : Served(table[i]) \in {acked'[i]} \cup doubts'[i]
        /\ \A v \in Writers : StillAtWork(v) => \A i \in Ids :
             MayDo(v, i) \subseteq {acked'[i]} \cup doubts'[i]
    BY <1>1, <1>10, <2>1, AcknowledgedHolds
  <2>3. BatchShape'
    BY <1>1, <1>8, <2>1, <2>2 DEF SenderInv, BatchShape
  <2>4. LateIsPossible' /\ LatestAcknowledgedIsServed'
    BY <1>1, <1>4, <1>7, <2>2 DEF LateIsPossible, LatestAcknowledgedIsServed, Possible
  <2> QED
    BY <1>5, <1>6, <2>3, <2>4 DEF SenderInv, CommitInv
<1>11. CASE GivenUp /\ batch' = << >> /\ single' = FALSE
  <2>1. /\ acked' = acked /\ doubts' = [i \in Ids |-> doubts[i] \cup Asked(batch, i)]
        /\ dirty' \in {dirty, dirty \cup {o.id : o \in Range(batch)}}
    BY <1>11 DEF GivenUp
  <2>2. \A i \in Ids : Asked(batch, i) \subseteq Values
    BY <1>9, AskedIsEffect
  <2>3. doubts' \in [Ids -> SUBSET Values]
    BY <2>1, <2>2 DEF SenderInv, BatchShape
  <2>4. dirty' \subseteq Ids
    BY <1>9, <2>1 DEF SenderInv, BatchShape
  <2>5. BatchShape'
    BY <1>1, <1>8, <1>11, <2>1, <2>3, <2>4 DEF SenderInv, BatchShape
  <2>6. \A i \in Ids : Possible(i) \subseteq Possible(i)'
    BY <2>1 DEF Possible
  <2>7. LateIsPossible'
    BY <1>4, <1>7, <2>6 DEF SenderInv, CommitInv, LateIsPossible
  <2>8. \A i \in Ids : Served(table'[i]) \in Possible(i)'
    BY <1>1, <2>6 DEF SenderInv, CommitInv, LatestAcknowledgedIsServed, Possible
  <2>9. LatestAcknowledgedIsServed'
    BY <2>8 DEF LatestAcknowledgedIsServed, Possible
  <2> QED
    BY <1>5, <1>6, <2>5, <2>7, <2>9 DEF SenderInv, CommitInv
<1>12. CASE UNCHANGED <<dirty, batch, single, told>>
  <2>1. UNCHANGED <<dirty, batch, single, acked, doubts>>
    BY <1>12 DEF told
  <2>2. \A i \in Ids : Possible(i)' = Possible(i)
    BY <2>1 DEF Possible, Asked
  <2>3. BatchShape'
    BY <1>1, <2>1 DEF SenderInv, BatchShape
  <2>4. LateIsPossible'
    BY <1>4, <1>7, <2>2 DEF SenderInv, CommitInv, LateIsPossible
  <2>5. LatestAcknowledgedIsServed'
    BY <1>1, <2>1 DEF SenderInv, CommitInv, LatestAcknowledgedIsServed, Asked
  <2> QED
    BY <1>5, <1>6, <2>3, <2>4, <2>5 DEF SenderInv, CommitInv
<1> QED
  BY <1>10, <1>11, <1>12 DEF TakeAnswer

-----------------------------------------------------------------------------
(* Any step of the sender. *)

\* Whatever a sender does, the store does one of its own steps, if any.
LEMMA SenderUsesStore ==
    ASSUME [SenderNext]_senderVars PROVE [Next]_vars
BY DEF SenderNext, senderVars, walkVars, Edit, Push, PushDelete, Walk, StartWalk, ReadDigests,
       Repair, Send, TakeAnswer, StoreStep, Next

\* Push, PushDelete and Repair.
LEMMA BatchMade ==
    ASSUME SenderInv, Push \/ Repair \/ \E i \in Ids : PushDelete(i) PROVE SenderInv'
<1>1. /\ batch = << >> /\ UNCHANGED <<vars, serving, racing, truth, acked, doubts>>
      /\ dirty' \subseteq dirty /\ walk' = "off" /\ single' \in {single, TRUE}
  BY DEF Push, PushDelete, Repair, walkVars, walking, told, SenderInv, BatchShape
<1>2. \/ \E S \in SUBSET Ids : batch' = BatchFor(S)
      \/ \E i \in Ids : batch' = <<OpFor(i)>>
  <2>1. dirty \subseteq Ids /\ {i \in Ids : found[i] # truth[i]} \subseteq Ids
    BY DEF SenderInv, BatchShape
  <2> QED
    BY <2>1 DEF Push, PushDelete, Repair
<1>3. /\ batch' \in Seq(Ops)
      /\ \A m, n \in DOMAIN batch' : batch'[m].id = batch'[n].id => m = n
  <2>1. CASE \E S \in SUBSET Ids : batch' = BatchFor(S)
    BY <2>1, BatchForShape DEF SenderInv
  <2>2. CASE \E i \in Ids : batch' = <<OpFor(i)>>
    <3>1. PICK op \in Ops : batch' = <<op>>
      BY <2>2, OpForType DEF SenderInv
    <3> QED
      BY <3>1
  <2> QED
    BY <1>2, <2>1, <2>2
<1>4. BatchShape'
  BY <1>1, <1>3 DEF SenderInv, BatchShape
<1> QED
  BY <1>1, <1>4, BatchIsMade DEF SenderInv

LEMMA SenderStep ==
    ASSUME StoreInv, SenderInv, [SenderNext]_senderVars PROVE SenderInv'
<1>1. ASSUME NEW i \in Ids, Edit(i) PROVE SenderInv'
  <2>1. /\ UNCHANGED <<vars, walk, batch, single, serving, racing, acked, doubts>>
        /\ dirty' \subseteq dirty \cup {i}
    BY <1>1 DEF Edit, walkVars, walking, told
  <2>2. truth' \in [Ids -> Values]
    <3>1. PICK value \in Versions[i] \cup {Nothing} : truth' = [truth EXCEPT ![i] = value]
      BY <1>1 DEF Edit
    <3>2. value \in Values
      BY VersionsAssumption DEF Values
    <3> QED
      BY <3>1, <3>2 DEF SenderInv, BatchShape
  <2> QED
    BY <2>1, <2>2, StoreUntouched DEF SenderInv, BatchShape
<1>2. CASE Push \/ Repair \/ \E i \in Ids : PushDelete(i)
  BY <1>2, BatchMade
<1>3. CASE Walk
  <2>1. batch = << >> /\ UNCHANGED <<vars, truth, dirty, batch, single, serving, racing, acked, doubts>>
    BY <1>3 DEF Walk, StartWalk, ReadDigests, sending, told
  <2> QED
    BY <2>1, StoreUntouched DEF SenderInv, BatchShape
<1>4. ASSUME NEW w \in Writers, Send(w) PROVE SenderInv'
  <2>1. UNCHANGED <<walk, truth, dirty, batch, single, acked, doubts>>
    BY <1>4 DEF Send, walking, told
  <2> QED
    BY <1>4, <2>1, BatchIsSent DEF SenderInv, BatchShape
<1>5. ASSUME NEW w \in Writers, TakeAnswer(w) PROVE SenderInv'
  BY <1>5, AnswerIsTaken
<1>6. ASSUME NEW w \in Writers, StoreStep(w) PROVE SenderInv'
  <2>1. /\ Advance(w) \/ RequestTimesOut(w) \/ StoreFails(w) \/ DeadlockDetected(w)
        /\ UNCHANGED sending /\ walk' = walk
    BY <1>6 DEF StoreStep, Watch
  <2>2. ServingShape' /\ CommitInv'
    BY <2>1, StoreKeeps
  <2> QED
    BY <2>1, <2>2 DEF SenderInv, BatchShape, sending, told
<1>7. CASE UNCHANGED senderVars
  <2>1. UNCHANGED <<vars, walk, truth, dirty, batch, single, serving, racing, acked, doubts>>
    BY <1>7 DEF senderVars, walkVars, walking, sending, told
  <2> QED
    BY <2>1, StoreUntouched DEF SenderInv, BatchShape
<1> QED
  BY <1>1, <1>2, <1>3, <1>4, <1>5, <1>6, <1>7 DEF SenderNext

LEMMA SenderInvariance == SenderSpec => [](StoreInv /\ SenderInv)
<1>1. SenderInit => StoreInv /\ SenderInv
  BY TypeInit, PositionInit, OutcomeInit, WholeInit, EffectInit, DraftStart, SenderStarts
     DEF SenderInit, StoreInv, IInv
<1>2. StoreInv /\ SenderInv /\ [SenderNext]_senderVars => StoreInv' /\ SenderInv'
  <2> SUFFICES ASSUME StoreInv, SenderInv, [SenderNext]_senderVars
               PROVE  StoreInv' /\ SenderInv'
    OBVIOUS
  <2>1. [Next]_vars
    BY SenderUsesStore
  <2>2. StoreInv'
    BY <2>1, TypeStep, PositionStep, OutcomeStep, WholeStep, EffectStep, DraftStep
       DEF StoreInv, IInv
  <2> QED
    BY <2>2, SenderStep
<1> QED
  BY <1>1, <1>2, PTL DEF SenderSpec

\* What the sender was last told is stored of a record is what is served of it, but
\* for what it is pushing, what it gave up since, and what a DELETE (after an upsert)
\* or the COMMIT of a batch (after a delete) does that it gave up before and that was
\* still at work when it sent what was acknowledged.
THEOREM AcknowledgedIsServed == SenderSpec => []LatestAcknowledgedIsServed
<1>1. SenderInv => LatestAcknowledgedIsServed
  BY DEF SenderInv, CommitInv
<1> QED
  BY <1>1, SenderInvariance, PTL

Counted == edits \in Nat /\ faults \in Nat

\* What the sender found in its walk keeps its type while it repairs and pushes, and
\* the exactness of the walk does not suffer.
LEMMA SenderWalks ==
    ASSUME StoreInv, TypeOK', WalkInv, Counted, [SenderNext]_senderVars
    PROVE  WalkInv' /\ Counted'
<1>1. ASSUME UNCHANGED <<table, walking>> PROVE WalkInv'
  BY <1>1 DEF walking, WalkInv, WalkShape, Listing, PassedOrAhead, WalkIsExact
<1>2. CASE Push \/ \E i \in Ids : Edit(i) \/ PushDelete(i)
  BY <1>1, <1>2 DEF Edit, Push, PushDelete, walkVars, vars, Counted
<1>3. CASE Walk
  BY <1>3, WalkStarted, WalkRead DEF Walk, sending, Counted
<1>4. CASE Repair
  <2>1. /\ UNCHANGED <<table, after, repeated, edits, faults>> /\ walk' = "off"
        /\ found' = [i \in Ids |-> Nothing] /\ during' = [i \in Ids |-> {}]
    BY <1>4 DEF Repair, vars
  <2> QED
    BY <2>1 DEF WalkInv, WalkShape, Listing, PassedOrAhead, WalkIsExact, Values, Counted
<1>5. ASSUME NEW w \in Writers, Send(w) PROVE WalkInv' /\ Counted'
  BY <1>1, <1>5 DEF Send, Begin, Counted
<1>6. ASSUME NEW w \in Writers, TakeAnswer(w) PROVE WalkInv' /\ Counted'
  BY <1>1, <1>6 DEF TakeAnswer, walkVars, vars, Counted
<1>7. ASSUME NEW w \in Writers, StoreStep(w) PROVE WalkInv' /\ Counted'
  BY <1>7, WalkWatched DEF StoreStep, sending, Counted
<1>8. CASE UNCHANGED senderVars
  BY <1>1, <1>8 DEF senderVars, walkVars, vars, sending, Counted
<1> QED
  BY <1>2, <1>3, <1>4, <1>5, <1>6, <1>7, <1>8 DEF SenderNext

\* Every variable of the sender has its type, those of its walk too.
THEOREM SenderTypeCorrect == SenderSpec => []SenderTypeOK
<1>1. SenderInit => WalkInv /\ Counted
  BY TypeInit, WalkStart DEF SenderInit, TypeInv, Counted
<1>2. StoreInv /\ StoreInv' /\ WalkInv /\ Counted /\ [SenderNext]_senderVars
        => WalkInv' /\ Counted'
  BY SenderWalks DEF StoreInv, IInv, TypeInv
<1>3. StoreInv /\ SenderInv /\ WalkInv /\ Counted => SenderTypeOK
  <2> SUFFICES ASSUME StoreInv, SenderInv, WalkInv, Counted PROVE SenderTypeOK
    OBVIOUS
  <2>1. serving \subseteq Writers /\ Cardinality(serving) <= 1
    <3>1. CASE serving = {}
      BY <3>1, FS_EmptySet
    <3>2. CASE serving # {}
      <4>1. PICK w \in serving : serving = {w}
        BY <3>2 DEF SenderInv, ServingShape
      <4>2. Cardinality({w}) = 1
        BY FS_Singleton
      <4> QED
        BY <4>1, <4>2 DEF SenderInv, ServingShape
    <3> QED
      BY <3>1, <3>2
  <2>2. WalkTypeOK
    BY WalkTypes
  <2> QED
    BY <2>1, <2>2 DEF SenderTypeOK, SenderInv, BatchShape, ServingShape, Counted
<1> QED
  BY <1>1, <1>2, <1>3, SenderInvariance, PTL DEF SenderSpec
=============================================================================
