----------------------------- MODULE FeedProofs -----------------------------
(***************************************************************************)
(* Proofs about FeedConsumer: what a cursor means, for any number of       *)
(* connections, and that nothing is skipped when there is one.             *)
(***************************************************************************)
EXTENDS FeedConsumer, RecordStoreProofs, PagingProofs

-----------------------------------------------------------------------------
(* One connection publishes positions in their order. *)

OneWriter == \A w, v \in Writers : w = v

\* What a transaction holds is ahead of all that was published.
OrderInv ==
    \A w \in Writers, p \in published :
        /\ taken[w] > 0 => taken[w] > p
        /\ \A i \in Ids : Exists(draft[w][i]) => draft[w][i].seq > p

\* Rows change to positions above every published one.
RowsInOrder ==
    [][\A i \in Ids, p \in published : table'[i] # table[i] => table'[i].seq > p]_vars

\* A step that publishes nothing and whose drafts and values are old ones or
\* were drawn just now.
LEMMA OrderKept ==
    ASSUME IInv, OrderInv, published' = published,
           \A v \in Writers :
              /\ taken'[v] \in {0, taken[v], lastSeq + 1}
              /\ \A i \in Ids : \/ ~Exists(draft'[v][i])
                                \/ draft'[v][i].seq \in {draft[v][i].seq, lastSeq + 1}
                                \/ taken[v] > 0 /\ draft'[v][i].seq = taken[v]
    PROVE  OrderInv'
<1> USE Numbers DEF IInv
<1>1. \A p \in published : p < lastSeq + 1
  BY DEF PositionInv, Drawn
<1>2. ASSUME NEW v \in Writers, NEW p \in published
      PROVE  /\ taken'[v] > 0 => taken'[v] > p
             /\ \A i \in Ids : Exists(draft'[v][i]) => draft'[v][i].seq > p
  <2>1. taken'[v] > 0 => taken'[v] > p
    BY <1>1 DEF OrderInv
  <2>2. ASSUME NEW i \in Ids, Exists(draft'[v][i]) PROVE draft'[v][i].seq > p
    <3>1. CASE draft'[v][i].seq = draft[v][i].seq
      BY <2>2, <3>1 DEF OrderInv, Exists
    <3>2. CASE draft'[v][i].seq = lastSeq + 1
      BY <1>1, <3>2
    <3>3. CASE taken[v] > 0 /\ draft'[v][i].seq = taken[v]
      BY <3>3 DEF OrderInv
    <3> QED
      BY <2>2, <3>1, <3>2, <3>3
  <2> QED
    BY <2>1, <2>2
<1> QED
  BY <1>2 DEF OrderInv

\* A statement that writes: what it writes was drawn by it.
LEMMA WritingOrder ==
    ASSUME IInv, OrderInv, NEW w \in Writers,
           \/ UpsertInserts(w) \/ UpsertReplaces(w)
           \/ DeleteTombstones(w) \/ DeleteRechecks(w)
    PROVE  OrderInv'
<1> USE DEF IInv, TypeInv
<1>1. MoreOps(w) /\ taken[w] > 0 /\ taken[w] \in Nat
  BY Numbers DEF StatementInv, InStatement, UpsertInserts, UpsertReplaces, DeleteTombstones,
     DeleteRechecks
<1>2. Op(w).id \in Ids
  BY <1>1, OpType
<1>3. PICK row : Write(w, row) /\ row.seq \in {taken[w], lastSeq + 1}
  BY DEF UpsertInserts, UpsertReplaces, DeleteTombstones, DeleteRechecks, NextVal, StoredRow,
     Tombstone
<1>4. \A v \in Writers, i \in Ids :
        draft'[v][i] = IF v = w /\ i = Op(w).id THEN row ELSE draft[v][i]
  BY <1>2, <1>3 DEF Write, TypeOK
<1>5. /\ published' = published
      /\ \A v \in Writers : taken'[v] \in {0, taken[v]}
  BY DEF UpsertInserts, UpsertReplaces, DeleteTombstones, DeleteRechecks, EndStatement, TypeOK
<1>6. \A v \in Writers, i \in Ids :
        \/ draft'[v][i].seq \in {draft[v][i].seq, lastSeq + 1}
        \/ taken[v] > 0 /\ draft'[v][i].seq = taken[v]
  BY <1>1, <1>3, <1>4
<1> QED
  BY <1>5, <1>6, OrderKept

LEMMA OrderStep ==
    ASSUME OneWriter, IInv, OrderInv, [Next]_vars
    PROVE  OrderInv'
<1> USE DEF IInv, TypeInv
<1>1. CASE UNCHANGED vars
  BY <1>1 DEF vars, OrderInv
<1>2. ASSUME NEW w \in Writers,
             \/ Begin(w) \/ Advance(w) \/ RequestTimesOut(w)
             \/ StoreFails(w) \/ DeadlockDetected(w)
      PROVE  OrderInv'
  <2>1. CASE Begin(w) \/ SendCommit(w) \/ RequestTimesOut(w)
    BY <2>1 DEF Begin, SendCommit, RequestTimesOut, OrderInv
  <2>2. CASE StartUpsert(w) \/ StartDelete(w)
    <3>1. /\ UNCHANGED <<published, draft>>
          /\ \A v \in Writers : taken'[v] \in {taken[v], lastSeq + 1}
      BY <2>2 DEF StartUpsert, StartDelete, NextVal, TypeOK
    <3> QED
      BY <3>1, OrderKept
  <2>3. CASE UpsertInserts(w) \/ UpsertReplaces(w) \/ DeleteTombstones(w) \/ DeleteRechecks(w)
    BY <2>3, WritingOrder
  <2>4. CASE UpsertUnchanged(w) \/ DeleteOvertaken(w) \/ DeleteMisses(w)
    <3>1. /\ UNCHANGED <<published, draft>>
          /\ \A v \in Writers : taken'[v] \in {0, taken[v]}
      BY <2>4 DEF UpsertUnchanged, DeleteOvertaken, DeleteMisses, EndStatement, TypeOK
    <3> QED
      BY <3>1, OrderKept
  <2>5. CASE Commit(w) \/ Rollback(w) \/ StoreFails(w) \/ DeadlockDetected(w)
    <3>1. Release(w)
      BY <2>5 DEF Commit, Rollback, StoreFails, DeadlockDetected, Abort
    <3>2. \A v \in Writers : taken'[v] = 0 /\ \A i \in Ids : ~Exists(draft'[v][i])
      BY <3>1 DEF OneWriter, Release, TypeOK, NoRow, Exists
    <3> QED
      BY <3>2 DEF OrderInv
  <2> QED
    BY <1>2, <2>1, <2>2, <2>3, <2>4, <2>5 DEF Advance, Upsert, Delete
<1> QED
  BY <1>1, <1>2 DEF Next, Quiescent

\* What one connection publishes is ahead of everything published before.
LEMMA ChangesAhead ==
    ASSUME IInv, OrderInv, [Next]_vars, NEW i \in Ids, table'[i] # table[i]
    PROVE  table'[i].seq > table[i].seq /\ \A p \in published : table'[i].seq > p
BY OnlyCommitsPublish DEF Commit, IInv, PositionInv, DraftsFresh, OrderInv

\* With one connection positions are published in their order: what the
\* validators and cursors of the public API take for granted.
THEOREM OneWriterPublishesInOrder ==
    ASSUME OneWriter PROVE Spec => RowsInOrder
<1> DEFINE Ahead == \A i \in Ids, p \in published : table'[i] # table[i] => table'[i].seq > p
<1>1. Init => OrderInv
  BY DEF Init, OrderInv
<1>2. IInv /\ OrderInv /\ [Next]_vars => OrderInv'
  BY OrderStep
<1>3. IInv /\ OrderInv /\ [Next]_vars => [Ahead]_vars
  BY ChangesAhead
<1> HIDE DEF Ahead
<1>4. Spec => [][Ahead]_vars
  BY <1>1, <1>2, <1>3, Invariance, PTL DEF Spec
<1> QED
  BY <1>4 DEF RowsInOrder, Ahead

-----------------------------------------------------------------------------
(* Cursors, for any number of connections.                                  *)

\* A position some row has had, or the beginning.
Known(n) == n = 0 \/ n \in published

\* Every position published was taken by a row that is still there, or above.
TableReaches == \A p \in published : \E i \in Ids : table[i].seq >= p

CursorInv ==
    /\ ConsumerTypeOK
    /\ TableReaches
    /\ Known(at)
    /\ position # -1 => Known(position) /\ at <= position
    /\ resume # -1 => Known(resume)
    /\ view = "changes" => resume # -1

StoreInv == IInv /\ CursorInv

\* max_seq is a position a row has, and none is above it.
LEMMA MaxSeqIsReached ==
    ASSUME IInv
    PROVE  /\ ReadMaxSeq \in Nat /\ Known(ReadMaxSeq)
           /\ \A i \in Ids : table[i].seq <= ReadMaxSeq
<1> USE Numbers DEF IInv
<1> DEFINE T == {0} \cup {table[i].seq : i \in Ids}
<1>1. T \subseteq Nat /\ T # {} /\ \A n \in T : n <= lastSeq
  <2>1. \A i \in Ids : table[i].seq <= lastSeq
    BY DEF PositionInv, Drawn, Exists
  <2> QED
    BY <2>1
<1>2. ReadMaxSeq \in T /\ \A n \in T : n <= ReadMaxSeq
  BY <1>1, MaxIsGreatest DEF ReadMaxSeq
<1> QED
  BY <1>1, <1>2 DEF Known, PositionInv, Drawn, Exists

\* A page of either view is the first of what it is taken from.
LEMMA PageFacts ==
    ASSUME StoreInv
    PROVE  /\ ThePage.ids \subseteq Matching
           /\ ThePage.next = 0 => ThePage.ids = Matching
           /\ ThePage.next # 0 =>
                /\ ThePage.next \in published
                /\ ThePage.next \in Nat /\ ThePage.next > at
                /\ \A i \in Matching \ ThePage.ids : table[i].seq > ThePage.next
<1> USE Numbers DEF StoreInv, IInv
<1>1. Matching \subseteq Ids /\ at \in Nat
  BY DEF Matching, CursorInv, ConsumerTypeOK
<1>2. Ordered(table, Matching, lastSeq)
  <2>1. IsFiniteSet(Matching)
    BY <1>1, TableAssumption, FS_Subset
  <2>2. \A i \in Matching : table[i].seq \in Nat \ {0} /\ table[i].seq <= lastSeq
    BY <1>1 DEF Matching, PositionInv, Drawn, Exists
  <2>3. \A i, j \in Matching : table[i].seq = table[j].seq => i = j
    BY <1>1, <2>2 DEF PositionInv, CommittedDistinct, Exists
  <2> QED
    BY <2>1, <2>2, <2>3 DEF Ordered
<1>3. Clamp(Limit, MaxLimit) \in Nat \ {0}
  BY BudgetAssumption DEF Clamp
<1>4. /\ ThePage.ids \subseteq Matching
      /\ ThePage.next = 0 => ThePage.ids = Matching
      /\ ThePage.next # 0 =>
           /\ \E i \in ThePage.ids : ThePage.next = table[i].seq
           /\ \A i \in Matching \ ThePage.ids : table[i].seq > ThePage.next
  <2>1. lastSeq \in Nat
    OBVIOUS
  <2> QED
    BY <1>2, <1>3, <2>1, PageLosesNothing DEF ThePage
<1>5. \A i \in Matching : table[i].seq \in published /\ table[i].seq > at
  BY <1>1 DEF Matching, PositionInv, Drawn, Exists
<1> QED
  BY <1>4, <1>5

LEMMA CursorInit == Init /\ ConsumerInit => CursorInv
BY EmptyDocAssumption
DEF Init, ConsumerInit, CursorInv, ConsumerTypeOK, TableReaches, Known, NoRow, Rows

\* The store moves on: positions are only added.
LEMMA CursorStore ==
    ASSUME StoreInv, [Next]_vars, UNCHANGED consumer
    PROVE  CursorInv'
<1> USE Numbers DEF StoreInv, IInv
<1>1. published \subseteq published'
  BY OnlyCommitsPublish DEF Commit
<1>2. TableReaches'
  <2>1. CASE UNCHANGED <<table, published>>
    BY <2>1 DEF CursorInv, TableReaches
  <2>2. ASSUME NEW w \in Writers, Commit(w) PROVE TableReaches'
    <3>1. \A i \in Ids : table'[i] = IF Exists(draft[w][i]) THEN draft[w][i] ELSE table[i]
      BY <2>2 DEF Commit
    <3>2. \A i \in Ids : table'[i].seq \in Nat /\ table'[i].seq >= table[i].seq
      BY <3>1 DEF PositionInv, DraftsFresh
    <3>3. ASSUME NEW p \in published' PROVE \E i \in Ids : table'[i].seq >= p
      <4>1. CASE p \in published
        BY <3>2, <4>1 DEF CursorInv, TableReaches
      <4>2. CASE p \notin published
        <5>1. PICK i \in Ids : Exists(draft[w][i]) /\ p = draft[w][i].seq
          BY <2>2, <4>2 DEF Commit
        <5> QED
          BY <3>1, <5>1
      <4> QED
        BY <4>1, <4>2
    <3> QED
      BY <3>3 DEF TableReaches
  <2> QED
    BY <2>1, <2>2, OnlyCommitsPublish
<1> QED
  BY <1>1, <1>2 DEF CursorInv, ConsumerTypeOK, Known, consumer

LEMMA CursorStep ==
    ASSUME StoreInv, ConsumerStep
    PROVE  CursorInv' /\ (view = "changes" => at' >= at)
<1> USE Numbers DEF StoreInv, IInv, CursorInv, ConsumerTypeOK
<1>1. UNCHANGED vars
  BY DEF ConsumerStep, Ask, ReadListing, ReadChanges
<1>2. table' = table /\ published' = published
  BY <1>1 DEF vars
<1>3. TableReaches' /\ \A n : Known(n)' <=> Known(n)
  BY <1>2 DEF TableReaches, Known
<1>4. ASSUME NEW page, Apply(page) PROVE replica' \in [Ids -> Rows]
  BY <1>4 DEF Apply, TypeInv, TypeOK
<1>5. CASE Ask
  <2>1. ReadMaxSeq \in Nat /\ Known(ReadMaxSeq) /\ at <= ReadMaxSeq
    <3>1. \A i \in Ids : table[i].seq <= ReadMaxSeq
      BY MaxSeqIsReached
    <3> QED
      BY <3>1, MaxSeqIsReached DEF Known, TableReaches
  <2> QED
    BY <1>2, <1>3, <1>5, <2>1 DEF Ask, Known
<1>6. CASE ReadListing
  <2>1. ThePage.next # 0 => ThePage.next \in published
    BY PageFacts
  <2>2. /\ replica' \in [Ids -> Rows]
        /\ position' = -1 /\ validator' = validator
        /\ view = "list" /\ position # -1
        /\ resume' = IF resume = -1 THEN position ELSE resume
        /\ IF ThePage.next # 0 THEN at' = ThePage.next /\ view' = view
                               ELSE at' = resume' /\ view' = "changes"
    BY <1>4, <1>6 DEF ReadListing
  <2>3. resume' \in Nat /\ Known(resume')
    BY <2>2
  <2>4. at' \in Nat /\ Known(at')
    BY <1>3, <2>1, <2>2, <2>3 DEF Known
  <2> QED
    BY <1>2, <1>3, <2>2, <2>3, <2>4 DEF Known
<1>7. CASE ReadChanges
  <2>1. ThePage.next # 0 => ThePage.next \in published /\ ThePage.next > at
    BY PageFacts
  <2>2. LET last == Max({at} \cup {table[i].seq : i \in ThePage.ids}) IN
        last \in Nat /\ Known(last) /\ last >= at
    <3> DEFINE T == {at} \cup {table[i].seq : i \in ThePage.ids}
    <3>1. \A i \in ThePage.ids : table[i].seq \in published
      BY PageFacts DEF Matching, PositionInv, Drawn, Exists
    <3>2. T \subseteq Nat /\ T # {} /\ at \in T /\ \A n \in T : n <= lastSeq
      BY <3>1 DEF Known, PositionInv, Drawn
    <3>3. Max(T) \in T /\ \A n \in T : n <= Max(T)
      BY <3>2, MaxIsGreatest
    <3> QED
      BY <3>1, <3>2, <3>3 DEF Known
  <2>3. at' \in Nat /\ Known(at') /\ at' >= at
    BY <1>7, <2>1, <2>2 DEF ReadChanges, Known
  <2>4. /\ replica' \in [Ids -> Rows]
        /\ position' = -1 /\ UNCHANGED <<view, validator, resume>>
    BY <1>4, <1>7 DEF ReadChanges
  <2> QED
    BY <1>2, <1>3, <2>3, <2>4 DEF Known
<1> QED
  BY <1>5, <1>6, <1>7 DEF ConsumerStep

LEMMA CursorInvariance == ConsumerSpec => []StoreInv
<1>1. Init /\ ConsumerInit => StoreInv
  BY TypeInit, PositionInit, CursorInit DEF IInv, StoreInv
<1>2. StoreInv /\ [(Next /\ UNCHANGED consumer) \/ ConsumerStep]_allVars => StoreInv'
  <2> SUFFICES ASSUME StoreInv, [(Next /\ UNCHANGED consumer) \/ ConsumerStep]_allVars
               PROVE  StoreInv'
    OBVIOUS
  <2>1. [Next]_vars
    BY DEF ConsumerStep, Ask, ReadListing, ReadChanges, allVars
  <2>2. IInv'
    BY <2>1, TypeStep, PositionStep DEF IInv, StoreInv
  <2>3. CursorInv'
    BY <2>1, CursorStore, CursorStep DEF allVars
  <2> QED
    BY <2>2, <2>3 DEF StoreInv
<1> QED
  BY <1>1, <1>2, PTL DEF ConsumerSpec

\* The consumer's state keeps its type, whatever the connections write.
THEOREM ConsumerTypeCorrect == ConsumerSpec => []ConsumerTypeOK
<1>1. StoreInv => ConsumerTypeOK
  BY DEF StoreInv, CursorInv
<1> QED
  BY <1>1, CursorInvariance, PTL

\* The feed's cursor never goes back, from whichever response it was taken:
\* next_cursor, the position of the last change or max_seq.
THEOREM CursorGoesForward == ConsumerSpec => CursorMovesForward
<1> DEFINE Forward == view = "changes" => at' >= at
<1>1. StoreInv /\ [(Next /\ UNCHANGED consumer) \/ ConsumerStep]_allVars => [Forward]_allVars
  <2> SUFFICES ASSUME StoreInv, (Next /\ UNCHANGED consumer) \/ ConsumerStep PROVE Forward
    OBVIOUS
  <2>1. CASE UNCHANGED consumer
    BY <2>1 DEF consumer, StoreInv, CursorInv, ConsumerTypeOK
  <2>2. CASE ConsumerStep
    BY <2>2, CursorStep
  <2> QED
    BY <2>1, <2>2
<1> HIDE DEF Forward
<1>2. ConsumerSpec => [][Forward]_allVars
  BY <1>1, CursorInvariance, PTL DEF ConsumerSpec
<1> QED
  BY <1>2 DEF CursorMovesForward, Forward

-----------------------------------------------------------------------------
(* With one connection nothing is skipped.                                  *)

\* While the listing is walked: what was read is what is stored, or the row has
\* moved on to where the feed will find it.
ReadOrAhead ==
    view = "list" => \A i \in Ids : Exists(replica[i]) =>
        resume # -1 /\ (replica[i] = table[i] \/ table[i].seq > resume)

\* The live rows up to the cursor of the walk were read.
WalkedSoFar ==
    view = "list" => \A i \in Ids : Live(table[i]) /\ table[i].seq <= at => replica[i] = table[i]

ReplicaInv ==
    /\ OrderInv
    /\ ReadOrAhead
    /\ WalkedSoFar
    /\ NothingBehindCursor

\* A write changes only rows that end up ahead of every cursor.
LEMMA ReplicaStore ==
    ASSUME OneWriter, StoreInv, ReplicaInv, [Next]_vars, UNCHANGED consumer
    PROVE  ReplicaInv'
<1> USE DEF StoreInv, CursorInv, ConsumerTypeOK, ReplicaInv
<1>1. OrderInv'
  BY OrderStep
<1>2. UNCHANGED <<view, at, resume, replica>>
  BY DEF consumer
<1>7. \A i \in Ids : table[i].seq \in Nat /\ table'[i].seq \in Nat
  BY Numbers, TypeStep DEF IInv, TypeInv, TypeOK, Rows
<1>3. ASSUME NEW i \in Ids, table'[i] # table[i], NEW n \in Nat, Known(n)
      PROVE  table'[i].seq > n
  <2>1. table'[i].seq > table[i].seq /\ \A p \in published : table'[i].seq > p
    BY <1>3, ChangesAhead
  <2> QED
    BY <1>3, <1>7, <2>1 DEF Known
<1>4. ReadOrAhead'
  BY <1>2, <1>3 DEF ReadOrAhead
<1>5. WalkedSoFar'
  <2> SUFFICES ASSUME view = "list", NEW i \in Ids, Live(table[i])', table'[i].seq <= at
               PROVE  replica[i] = table'[i]
    BY <1>2 DEF WalkedSoFar
  <2>1. table'[i] = table[i]
    BY <1>3, <1>7
  <2> QED
    BY <2>1 DEF WalkedSoFar, Live, Exists
<1>6. NothingBehindCursor'
  <2> SUFFICES ASSUME view = "changes", NEW i \in Ids, table'[i].seq <= at
               PROVE  Replicated(i)'
    BY <1>2 DEF NothingBehindCursor
  <2>1. table'[i] = table[i]
    BY <1>3, <1>7
  <2> QED
    BY <1>2, <2>1 DEF NothingBehindCursor, Replicated, Live, Exists
<1> QED
  BY <1>1, <1>4, <1>5, <1>6

\* A page brings the replica up to its end.
LEMMA ReplicaStep ==
    ASSUME StoreInv, ReplicaInv, ConsumerStep
    PROVE  ReplicaInv'
<1> USE DEF ReplicaInv
<1>1. /\ UNCHANGED <<table, published, draft, taken>>
      /\ at \in Nat /\ position \in Nat \cup {-1} /\ resume \in Nat \cup {-1}
      /\ \A i \in Ids : table[i].seq \in Nat
  BY Numbers DEF ConsumerStep, Ask, ReadListing, ReadChanges, vars, IInv,
                 StoreInv, CursorInv, ConsumerTypeOK
<1>2. OrderInv'
  BY <1>1 DEF OrderInv
<1>6. /\ ThePage.ids \subseteq Matching
      /\ ThePage.next = 0 => ThePage.ids = Matching
      /\ ThePage.next # 0 => /\ ThePage.next \in Nat
                             /\ \A i \in Matching \ ThePage.ids : table[i].seq > ThePage.next
  BY PageFacts
<1>3. CASE Ask
  BY <1>1, <1>2, <1>3 DEF Ask, ReadOrAhead, WalkedSoFar, NothingBehindCursor, Replicated
<1>4. CASE ReadListing
  <2>1. \A i \in Ids : replica'[i] = IF i \in ThePage.ids THEN table[i] ELSE replica[i]
    BY <1>4 DEF ReadListing, Apply
  <2>6. /\ view = "list" /\ resume' \in Nat
        /\ resume # -1 => resume' = resume
        /\ ThePage.next # 0 => at' = ThePage.next /\ view' = "list"
        /\ ThePage.next = 0 => at' = resume' /\ view' = "changes"
    BY <1>1, <1>4 DEF ReadListing
  <2>2. Matching = {i \in Ids : table[i].seq > at /\ ~table[i].deleted}
    BY <2>6 DEF Matching
  <2>3. ReadOrAhead'
    BY <1>1, <2>1, <2>6 DEF ReadOrAhead
  <2>4. CASE ThePage.next # 0
    <3>1. view' = "list" /\ at' = ThePage.next
      BY <2>4, <2>6
    <3>2. WalkedSoFar'
      <4> SUFFICES ASSUME NEW i \in Ids, Live(table[i]), table[i].seq <= at'
                   PROVE  replica'[i] = table[i]
        BY <1>1 DEF WalkedSoFar
      <4>1. CASE table[i].seq <= at
        BY <2>1, <2>6, <4>1 DEF WalkedSoFar
      <4>2. CASE table[i].seq > at
        <5>1. i \in Matching
          BY <2>2, <4>2 DEF Live
        <5>2. i \in ThePage.ids
          BY <2>4, <3>1, <5>1, <1>1, <1>6
        <5> QED
          BY <2>1, <5>2
      <4> QED
        BY <1>1, <4>1, <4>2
    <3> QED
      BY <1>2, <2>3, <3>1, <3>2 DEF NothingBehindCursor
  <2>5. CASE ThePage.next = 0
    <3>1. view' = "changes" /\ at' = resume' /\ resume' \in Nat
      BY <2>5, <2>6
    <3>2. ThePage.ids = Matching
      BY <2>5, <1>6
    <3>3. ASSUME NEW i \in Ids, table[i].seq <= at' PROVE Replicated(i)'
      <4>1. CASE Live(table[i])
        <5>1. replica'[i] = table[i]
          BY <1>1, <2>1, <2>2, <2>6, <3>2, <4>1 DEF WalkedSoFar, Live
        <5> QED
          BY <1>1, <5>1 DEF Replicated
      <4>2. CASE ~Live(table[i])
        <5>1. i \notin ThePage.ids
          BY <1>1, <2>2, <3>2, <4>2 DEF Live, Exists
        <5>2. Exists(replica[i]) => replica[i] = table[i]
          BY <1>1, <2>6, <3>1, <3>3 DEF ReadOrAhead
        <5> QED
          BY <1>1, <2>1, <4>2, <5>1, <5>2 DEF Replicated, Live
      <4> QED
        BY <4>1, <4>2
    <3> QED
      BY <1>1, <1>2, <3>1, <3>3 DEF NothingBehindCursor, ReadOrAhead, WalkedSoFar
  <2> QED
    BY <2>4, <2>5
<1>5. CASE ReadChanges
  <2>1. /\ \A i \in Ids : replica'[i] = IF i \in ThePage.ids THEN table[i] ELSE replica[i]
        /\ view = "changes" /\ view' = "changes"
    BY <1>5 DEF ReadChanges, Apply
  <2>2. Matching = {i \in Ids : table[i].seq > at}
    BY <2>1 DEF Matching
  <2>3. ASSUME NEW i \in Ids, table[i].seq <= at' PROVE Replicated(i)'
    <3>1. CASE i \in ThePage.ids
      BY <1>1, <2>1, <3>1 DEF Replicated
    <3>2. CASE i \notin ThePage.ids
      <4>1. table[i].seq <= at
        <5>1. SUFFICES ASSUME table[i].seq > at PROVE FALSE
          BY <1>1
        <5>2. i \in Matching
          BY <2>2, <5>1
        <5>3. ThePage.next # 0 /\ table[i].seq > ThePage.next
          BY <3>2, <5>2, <1>6
        <5> QED
          BY <1>1, <1>5, <1>6, <2>3, <5>3 DEF ReadChanges
      <4> QED
        BY <1>1, <2>1, <3>2, <4>1 DEF NothingBehindCursor, Replicated
    <3> QED
      BY <3>1, <3>2
  <2> QED
    BY <1>1, <1>2, <2>1, <2>3 DEF NothingBehindCursor, ReadOrAhead, WalkedSoFar
<1> QED
  BY <1>3, <1>4, <1>5 DEF ConsumerStep

\* Where one connection writes, a consumer has whatever lies at or before its
\* position in the feed: through the hand-over from the listing, pages cut by
\* count or bytes, 304s and cursors taken from max_seq.  With two connections
\* this fails.
THEOREM NothingIsSkipped ==
    ASSUME OneWriter PROVE ConsumerSpec => []NothingBehindCursor
<1>1. Init /\ ConsumerInit => ReplicaInv
  BY DEF Init, ConsumerInit, ReplicaInv, OrderInv, ReadOrAhead, WalkedSoFar,
         NothingBehindCursor, NoRow, Exists, Live
<1>2. StoreInv /\ ReplicaInv /\ [(Next /\ UNCHANGED consumer) \/ ConsumerStep]_allVars
        => ReplicaInv'
  <2> SUFFICES ASSUME StoreInv, ReplicaInv,
                      [(Next /\ UNCHANGED consumer) \/ ConsumerStep]_allVars
               PROVE  ReplicaInv'
    OBVIOUS
  <2>1. CASE ConsumerStep
    BY <2>1, ReplicaStep
  <2>2. CASE [Next]_vars /\ UNCHANGED consumer
    BY <2>2, ReplicaStore
  <2> QED
    BY <2>1, <2>2 DEF allVars
<1>3. ReplicaInv => NothingBehindCursor
  BY DEF ReplicaInv
<1> QED
  BY <1>1, <1>2, <1>3, CursorInvariance, PTL DEF ConsumerSpec
=============================================================================
