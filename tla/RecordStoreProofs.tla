------------------------- MODULE RecordStoreProofs -------------------------
(***************************************************************************)
(* Proofs about RecordStore, for every set of ids, payloads, writers and   *)
(* requests: types, row locks and feed positions; what a sender was told   *)
(* is stored stays stored; a batch is published as a whole or not at all,  *)
(* and has had the effect it asked for when it is acknowledged; the store  *)
(* implements AtomicStore.                                                 *)
(***************************************************************************)
EXTENDS RecordStore, TLAPS

\* A statement in progress is the next operation of its request, and it holds
\* the value it drew: what the guards of the statement's second half rely on.
StatementInv ==
    \A w \in Writers :
        /\ InStatement(w) => MoreOps(w) /\ Op(w).kind = pc[w] /\ taken[w] > 0
        /\ ~InStatement(w) => taken[w] = 0

TypeInv == TypeOK /\ StatementInv

-----------------------------------------------------------------------------
(* Lemmas about the parts of a step. *)

\* The operation a writer has before it is one the API can send.
LEMMA OpType ==
    ASSUME TypeOK, NEW w \in Writers, MoreOps(w)
    PROVE  Op(w) \in Ops /\ Op(w).id \in Ids /\ Op(w).payload \in Payloads
<1>1. request[w].ops \in Seq(Ops) /\ outcomes[w] \in Seq(Outcomes)
  BY DEF TypeOK, RequestType
<1>2. Len(outcomes[w]) + 1 \in 1 .. Len(request[w].ops)
  BY <1>1 DEF MoreOps
<1>3. Op(w) \in Ops
  BY <1>1, <1>2 DEF Op
<1> QED
  BY <1>3, EmptyDocAssumption DEF Ops

\* A row the model writes is a row.
LEMMA RowTypes ==
    ASSUME NEW w \in Writers, NEW s \in Nat, Op(w).payload \in Payloads
    PROVE  StoredRow(w, s) \in Rows /\ Tombstone(s) \in Rows /\ NoRow \in Rows
BY EmptyDocAssumption DEF StoredRow, Tombstone, NoRow, Rows

\* The end of a statement keeps the types of what it changes, and leaves the
\* writer outside a statement.
LEMMA EndStatementType ==
    ASSUME TypeInv, NEW w \in Writers, NEW o \in Outcomes,
           EndStatement(w, o), request' = request
    PROVE  /\ pc' \in [Writers -> {"idle", "ready", "upsert", "delete", "commit"}]
           /\ outcomes' \in [Writers -> Seq(Outcomes)]
           /\ taken' \in [Writers -> Nat]
           /\ seen' \in [Writers -> Nat]
           /\ StatementInv'
<1>1. outcomes[w] \in Seq(Outcomes)
  BY DEF TypeInv, TypeOK
<1>2. Append(outcomes[w], o) \in Seq(Outcomes)
  BY <1>1
<1>3. /\ pc' \in [Writers -> {"idle", "ready", "upsert", "delete", "commit"}]
      /\ outcomes' \in [Writers -> Seq(Outcomes)]
      /\ taken' \in [Writers -> Nat]
      /\ seen' \in [Writers -> Nat]
  BY <1>2 DEF TypeInv, TypeOK, EndStatement
<1>4. ASSUME NEW v \in Writers
      PROVE  /\ InStatement(v)' => MoreOps(v)' /\ Op(v).kind' = pc'[v] /\ taken'[v] > 0
             /\ ~InStatement(v)' => taken'[v] = 0
  <2>1. CASE v = w
    BY <2>1 DEF TypeInv, TypeOK, EndStatement, InStatement
  <2>2. CASE v # w
    <3>1. pc'[v] = pc[v] /\ outcomes'[v] = outcomes[v] /\ taken'[v] = taken[v]
      BY <2>2 DEF TypeInv, TypeOK, EndStatement
    <3> QED
      BY <3>1 DEF TypeInv, StatementInv, InStatement, MoreOps, Op
  <2> QED
    BY <2>1, <2>2
<1> QED
  BY <1>3, <1>4 DEF StatementInv

\* So does the end of a transaction.
LEMMA ReleaseType ==
    ASSUME TypeInv, NEW w \in Writers, Release(w), UNCHANGED <<request, outcomes>>
    PROVE  /\ pc' \in [Writers -> {"idle", "ready", "upsert", "delete", "commit"}]
           /\ draft' \in [Writers -> [Ids -> Rows]]
           /\ locks' \in [Writers -> SUBSET Ids]
           /\ taken' \in [Writers -> Nat]
           /\ seen' \in [Writers -> Nat]
           /\ StatementInv'
<1>1. NoRow \in Rows
  BY EmptyDocAssumption DEF NoRow, Rows
<1>2. /\ pc' \in [Writers -> {"idle", "ready", "upsert", "delete", "commit"}]
      /\ draft' \in [Writers -> [Ids -> Rows]]
      /\ locks' \in [Writers -> SUBSET Ids]
      /\ taken' \in [Writers -> Nat]
      /\ seen' \in [Writers -> Nat]
  BY <1>1 DEF TypeInv, TypeOK, Release
<1>3. ASSUME NEW v \in Writers
      PROVE  /\ InStatement(v)' => MoreOps(v)' /\ Op(v).kind' = pc'[v] /\ taken'[v] > 0
             /\ ~InStatement(v)' => taken'[v] = 0
  <2>1. CASE v = w
    BY <2>1 DEF TypeInv, TypeOK, Release, InStatement
  <2>2. CASE v # w
    <3>1. pc'[v] = pc[v] /\ taken'[v] = taken[v]
      BY <2>2 DEF TypeInv, TypeOK, Release
    <3> QED
      BY <3>1 DEF TypeInv, StatementInv, InStatement, MoreOps, Op
  <2> QED
    BY <2>1, <2>2
<1> QED
  BY <1>2, <1>3 DEF StatementInv

\* A write puts a row of the right type in the draft, and only there.
LEMMA WriteType ==
    ASSUME TypeOK, NEW w \in Writers, MoreOps(w), NEW row \in Rows, Write(w, row)
    PROVE  draft' \in [Writers -> [Ids -> Rows]]
<1>1. Op(w).id \in Ids
  BY OpType
<1> QED
  BY <1>1 DEF TypeOK, Write

LEMMA LockType ==
    ASSUME TypeOK, NEW w \in Writers, MoreOps(w), Lock(w)
    PROVE  locks' \in [Writers -> SUBSET Ids]
<1>1. Op(w).id \in Ids
  BY OpType
<1> QED
  BY <1>1 DEF TypeOK, Lock

-----------------------------------------------------------------------------
(* Type correctness, one step per action. *)

LEMMA TypeInit == Init => TypeInv
<1> SUFFICES ASSUME Init PROVE TypeInv
  OBVIOUS
<1>1. NoRow \in Rows /\ NoRequest \in RequestType
  BY EmptyDocAssumption DEF NoRow, Rows, NoRequest, RequestType
<1>2. TypeOK
  BY <1>1 DEF Init, TypeOK, Answers
<1>3. StatementInv
  BY DEF Init, StatementInv, InStatement
<1> QED
  BY <1>2, <1>3 DEF TypeInv

LEMMA BeginType ==
    ASSUME TypeInv, NEW w \in Writers, Begin(w)
    PROVE  TypeInv'
<1> PICK r \in Requests :
      /\ pc[w] = "idle"
      /\ started' = started + 1
      /\ pc' = [pc EXCEPT ![w] = "ready"]
      /\ request' = [request EXCEPT ![w] = r]
      /\ outcomes' = [outcomes EXCEPT ![w] = << >>]
      /\ answer' = [answer EXCEPT ![w] = "none"]
      /\ UNCHANGED <<table, lastSeq, published, draft, locks, taken, seen>>
  BY DEF Begin
<1>1. r \in RequestType
  BY RequestsAssumption
<1>2. TypeOK'
  BY <1>1 DEF TypeInv, TypeOK, Answers
<1>3. ASSUME NEW v \in Writers
      PROVE  /\ InStatement(v)' => MoreOps(v)' /\ Op(v).kind' = pc'[v] /\ taken'[v] > 0
             /\ ~InStatement(v)' => taken'[v] = 0
  <2>1. CASE v = w
    BY <2>1 DEF TypeInv, TypeOK, StatementInv, InStatement
  <2>2. CASE v # w
    <3>1. pc'[v] = pc[v] /\ outcomes'[v] = outcomes[v] /\ request'[v] = request[v]
      BY <2>2 DEF TypeInv, TypeOK
    <3> QED
      BY <3>1 DEF TypeInv, StatementInv, InStatement, MoreOps, Op
  <2> QED
    BY <2>1, <2>2
<1> QED
  BY <1>2, <1>3 DEF TypeInv, StatementInv

\* The first half of a statement, an upsert's or a delete's.
LEMMA StartType ==
    ASSUME TypeInv, NEW w \in Writers, StartUpsert(w) \/ StartDelete(w)
    PROVE  TypeInv'
<1>1. /\ MoreOps(w)
      /\ lastSeq' = lastSeq + 1
      /\ taken' = [taken EXCEPT ![w] = lastSeq + 1]
      /\ Op(w).kind \in {"upsert", "delete"}
      /\ pc' = [pc EXCEPT ![w] = Op(w).kind]
      /\ UNCHANGED <<table, published, request, outcomes, draft, locks, answer, started>>
  BY DEF StartUpsert, StartDelete, AtStatement, NextVal
<1>2. table[Op(w).id].seq \in Nat
  BY <1>1, OpType DEF TypeInv, TypeOK, Rows
<1>3. seen' \in [Writers -> Nat]
  BY <1>2 DEF StartUpsert, StartDelete, TypeInv, TypeOK
<1>4. TypeOK'
  <2>1. pc' \in [Writers -> {"idle", "ready", "upsert", "delete", "commit"}]
    BY <1>1 DEF TypeInv, TypeOK
  <2>2. lastSeq' \in Nat /\ taken' \in [Writers -> Nat]
    BY <1>1 DEF TypeInv, TypeOK
  <2> QED
    BY <1>1, <1>3, <2>1, <2>2 DEF TypeInv, TypeOK
<1>5. ASSUME NEW v \in Writers
      PROVE  /\ InStatement(v)' => MoreOps(v)' /\ Op(v).kind' = pc'[v] /\ taken'[v] > 0
             /\ ~InStatement(v)' => taken'[v] = 0
  <2>1. CASE v = w
    BY <1>1, <2>1 DEF TypeInv, TypeOK, InStatement, MoreOps, Op
  <2>2. CASE v # w
    <3>1. pc'[v] = pc[v] /\ taken'[v] = taken[v]
      BY <1>1, <2>2 DEF TypeInv, TypeOK
    <3> QED
      BY <1>1, <3>1 DEF TypeInv, StatementInv, InStatement, MoreOps, Op
  <2> QED
    BY <2>1, <2>2
<1> QED
  BY <1>4, <1>5 DEF TypeInv, StatementInv

\* The second half that writes a row, at the value drawn first or at a new one.
LEMMA WritingType ==
    ASSUME TypeInv, NEW w \in Writers,
           \/ UpsertInserts(w) \/ UpsertReplaces(w)
           \/ DeleteTombstones(w) \/ DeleteRechecks(w)
    PROVE  TypeInv'
<1>1. MoreOps(w) /\ taken[w] \in Nat \ {0} /\ lastSeq + 1 \in Nat \ {0}
  BY DEF TypeInv, TypeOK, StatementInv, InStatement, UpsertInserts, UpsertReplaces,
         DeleteTombstones, DeleteRechecks
<1>2. PICK s \in {taken[w], lastSeq + 1} :
        \E result \in {"stored", "tombstoned"} :
        \E row \in {StoredRow(w, s), Tombstone(s)} :
            Lock(w) /\ Write(w, row) /\ EndStatement(w, [result |-> result, seq |-> s])
  BY DEF UpsertInserts, UpsertReplaces, DeleteTombstones, DeleteRechecks, NextVal
<1>3. /\ lastSeq' \in {lastSeq, lastSeq + 1}
      /\ UNCHANGED <<table, published, request, answer, started>>
  BY DEF UpsertInserts, UpsertReplaces, DeleteTombstones, DeleteRechecks, NextVal
<1>4. PICK o \in Outcomes, row \in Rows : Lock(w) /\ Write(w, row) /\ EndStatement(w, o)
  <2>1. \A result \in {"stored", "tombstoned"} : [result |-> result, seq |-> s] \in Outcomes
    BY <1>1 DEF Outcomes
  <2>2. StoredRow(w, s) \in Rows /\ Tombstone(s) \in Rows
    BY <1>1, OpType, RowTypes DEF TypeInv
  <2> QED
    BY <1>2, <2>1, <2>2
<1>5. locks' \in [Writers -> SUBSET Ids] /\ draft' \in [Writers -> [Ids -> Rows]]
  BY <1>1, <1>4, LockType, WriteType DEF TypeInv
<1>6. TypeOK'
  BY <1>3, <1>4, <1>5, EndStatementType DEF TypeInv, TypeOK
<1> QED
  BY <1>3, <1>4, <1>6, EndStatementType DEF TypeInv

\* The second half that leaves the row as it is, and a delete that finds none.
LEMMA LeavingType ==
    ASSUME TypeInv, NEW w \in Writers,
           UpsertUnchanged(w) \/ DeleteOvertaken(w) \/ DeleteMisses(w)
    PROVE  TypeInv'
<1>1. MoreOps(w)
  BY DEF TypeInv, StatementInv, InStatement, UpsertUnchanged, DeleteOvertaken,
         DeleteMisses, AtStatement
<1>2. /\ EndStatement(w, Unchanged)
      /\ Lock(w) \/ UNCHANGED locks
      /\ UNCHANGED <<table, lastSeq, published, request, draft, answer, started>>
  BY DEF UpsertUnchanged, DeleteOvertaken, DeleteMisses
<1>3. Unchanged \in Outcomes
  BY DEF Unchanged, Outcomes
<1>4. locks' \in [Writers -> SUBSET Ids]
  BY <1>1, <1>2, LockType DEF TypeInv, TypeOK
<1>5. TypeOK'
  BY <1>2, <1>3, <1>4, EndStatementType DEF TypeInv, TypeOK
<1> QED
  BY <1>2, <1>3, <1>5, EndStatementType DEF TypeInv

\* Steps of the handler alone.
LEMMA HandlerType ==
    ASSUME TypeInv, NEW w \in Writers, SendCommit(w) \/ RequestTimesOut(w)
    PROVE  TypeInv'
<1>1. TypeOK'
  BY DEF SendCommit, RequestTimesOut, TypeInv, TypeOK, Answers
<1>2. StatementInv'
  BY DEF SendCommit, RequestTimesOut, TypeInv, TypeOK, StatementInv, InStatement, MoreOps, Op
<1> QED
  BY <1>1, <1>2 DEF TypeInv

LEMMA CommitType ==
    ASSUME TypeInv, NEW w \in Writers, Commit(w)
    PROVE  TypeInv'
<1>1. table' \in [Ids -> Rows]
  BY DEF Commit, TypeInv, TypeOK
<1>2. published' \subseteq (Nat \ {0})
  <2>1. \A i \in Ids : draft[w][i].seq \in Nat
    BY DEF TypeInv, TypeOK, Rows
  <2>2. published' = published \cup {draft[w][i].seq : i \in {j \in Ids : draft[w][j].seq > 0}}
    BY DEF Commit, Exists
  <2>3. ASSUME NEW i \in Ids, draft[w][i].seq > 0 PROVE draft[w][i].seq \in Nat \ {0}
    BY <2>1, <2>3
  <2> QED
    BY <2>2, <2>3 DEF TypeInv, TypeOK
<1>3. answer' \in [Writers -> Answers]
  BY DEF Commit, TypeInv, TypeOK, Answers
<1>4. Release(w) /\ UNCHANGED <<lastSeq, request, outcomes, started>>
  BY DEF Commit
<1>5. TypeOK'
  BY <1>1, <1>2, <1>3, <1>4, ReleaseType DEF TypeInv, TypeOK
<1> QED
  BY <1>4, <1>5, ReleaseType DEF TypeInv

LEMMA AbortType ==
    ASSUME TypeInv, NEW w \in Writers, Abort(w)
    PROVE  TypeInv'
<1>1. answer' \in [Writers -> Answers]
  BY DEF Abort, TypeInv, TypeOK, Answers
<1>2. Release(w) /\ UNCHANGED <<table, lastSeq, published, request, outcomes, started>>
  BY DEF Abort
<1>3. TypeOK'
  BY <1>1, <1>2, ReleaseType DEF TypeInv, TypeOK
<1> QED
  BY <1>2, <1>3, ReleaseType DEF TypeInv

LEMMA StutterType ==
    ASSUME TypeInv, UNCHANGED vars
    PROVE  TypeInv'
BY DEF vars, TypeInv, TypeOK, StatementInv, InStatement, MoreOps, Op

LEMMA TypeStep == TypeInv /\ [Next]_vars => TypeInv'
<1> SUFFICES ASSUME TypeInv, [Next]_vars PROVE TypeInv'
  OBVIOUS
<1>1. CASE UNCHANGED vars
  BY <1>1, StutterType
<1>2. ASSUME NEW w \in Writers,
             \/ Begin(w) \/ Advance(w) \/ RequestTimesOut(w)
             \/ StoreFails(w) \/ DeadlockDetected(w)
      PROVE  TypeInv'
  <2>1. CASE Begin(w)
    BY <2>1, BeginType
  <2>2. CASE StartUpsert(w) \/ StartDelete(w)
    BY <2>2, StartType
  <2>3. CASE UpsertInserts(w) \/ UpsertReplaces(w) \/ DeleteTombstones(w) \/ DeleteRechecks(w)
    BY <2>3, WritingType
  <2>4. CASE UpsertUnchanged(w) \/ DeleteOvertaken(w) \/ DeleteMisses(w)
    BY <2>4, LeavingType
  <2>5. CASE SendCommit(w) \/ RequestTimesOut(w)
    BY <2>5, HandlerType
  <2>6. CASE Commit(w)
    BY <2>6, CommitType
  <2>7. CASE Rollback(w) \/ StoreFails(w) \/ DeadlockDetected(w)
    BY <2>7, AbortType DEF Rollback, StoreFails, DeadlockDetected
  <2> QED
    BY <1>2, <2>1, <2>2, <2>3, <2>4, <2>5, <2>6, <2>7 DEF Advance, Upsert, Delete
<1> QED
  BY <1>1, <1>2 DEF Next, Quiescent

\* Every variable always has its type.
THEOREM TypeCorrect == Spec => []TypeOK
<1>1. Init => TypeInv
  BY TypeInit
<1>2. TypeInv /\ [Next]_vars => TypeInv'
  BY TypeStep
<1>3. TypeInv => TypeOK
  BY DEF TypeInv
<1> QED
  BY <1>1, <1>2, <1>3, PTL DEF Spec

-----------------------------------------------------------------------------
(* Row locks and feed positions: the inductive invariant.                  *)

\* A row lock has one holder, and what a transaction wrote it has locked.
LockInv ==
    /\ \A w, v \in Writers : \A i \in Ids : i \in locks[w] /\ i \in locks[v] => w = v
    /\ \A w \in Writers : \A i \in Ids : Exists(draft[w][i]) => i \in locks[w]

\* Nothing has a position that nextval has not returned.
Drawn ==
    /\ \A n \in published : n <= lastSeq
    /\ \A i \in Ids : Exists(table[i]) => table[i].seq \in published

CommittedDistinct ==
    \A i, j \in Ids : i # j /\ Exists(table[i]) => table[i].seq # table[j].seq

\* What a transaction has written moves its row forward, at a new position.
DraftsFresh ==
    \A w \in Writers : \A i \in Ids : Exists(draft[w][i]) =>
        /\ draft[w][i].seq <= lastSeq
        /\ draft[w][i].seq \notin published
        /\ draft[w][i].seq > table[i].seq

DraftsDistinct ==
    \A w, v \in Writers : \A i, j \in Ids :
        Exists(draft[w][i]) /\ draft[w][i].seq = draft[v][j].seq => w = v /\ i = j

\* What a statement has drawn is nobody else's.
TakenFresh ==
    \A w \in Writers : taken[w] > 0 =>
        /\ taken[w] <= lastSeq
        /\ taken[w] \notin published
        /\ \A v \in Writers : \A i \in Ids : taken[w] # draft[v][i].seq
        /\ \A v \in Writers : v # w => taken[w] # taken[v]

\* A delete drew its position after the row version it found was written.
SeenOlder == \A w \in Writers : pc[w] = "delete" => seen[w] < taken[w]

TombstonesEmpty ==
    /\ \A i \in Ids : table[i].deleted => table[i].payload = EmptyDoc
    /\ \A w \in Writers : \A i \in Ids :
         draft[w][i].deleted => draft[w][i].payload = EmptyDoc

PositionInv ==
    /\ LockInv
    /\ Drawn
    /\ CommittedDistinct
    /\ DraftsFresh
    /\ DraftsDistinct
    /\ TakenFresh
    /\ SeenOlder
    /\ TombstonesEmpty

IInv == TypeInv /\ PositionInv

LEMMA PositionInit == Init => PositionInv
BY DEF Init, PositionInv, LockInv, Drawn, CommittedDistinct, DraftsFresh, DraftsDistinct,
       TakenFresh, SeenOlder, TombstonesEmpty, NoRow, Exists

\* The numbers the invariant compares are numbers.
LEMMA Numbers ==
    ASSUME TypeInv
    PROVE  /\ lastSeq \in Nat
           /\ \A i \in Ids : table[i].seq \in Nat
           /\ \A w \in Writers : \A i \in Ids : draft[w][i].seq \in Nat
           /\ \A w \in Writers : taken[w] \in Nat /\ seen[w] \in Nat
           /\ \A n \in published : n \in Nat
BY DEF TypeInv, TypeOK, Rows

\* A step that touches no row, lock or position.
LEMMA HandlerPosition ==
    ASSUME IInv, UNCHANGED <<table, lastSeq, published, draft, locks, taken, seen>>,
           \A w \in Writers : pc'[w] = "delete" => pc[w] = "delete"
    PROVE  PositionInv'
BY DEF IInv, PositionInv, LockInv, Drawn, CommittedDistinct, DraftsFresh, DraftsDistinct,
       TakenFresh, SeenOlder, TombstonesEmpty, Exists

\* A statement starts: the value it draws is above all the others.
LEMMA StartPosition ==
    ASSUME IInv, NEW w \in Writers, StartUpsert(w) \/ StartDelete(w)
    PROVE  PositionInv'
<1> USE Numbers DEF IInv
<1>1. /\ MoreOps(w)
      /\ lastSeq' = lastSeq + 1
      /\ taken' = [taken EXCEPT ![w] = lastSeq + 1]
      /\ UNCHANGED <<table, published, draft, locks>>
  BY DEF StartUpsert, StartDelete, AtStatement, NextVal
<1>2. table[Op(w).id].seq \in Nat /\ table[Op(w).id].seq <= lastSeq
  <2>1. Op(w).id \in Ids
    BY <1>1, OpType DEF TypeInv
  <2> QED
    BY <2>1 DEF PositionInv, Drawn, Exists
<1>3. /\ \A v \in Writers \ {w} : pc'[v] = pc[v] /\ seen'[v] = seen[v] /\ taken'[v] = taken[v]
      /\ taken'[w] = lastSeq + 1
      /\ pc'[w] = "delete" => seen'[w] = table[Op(w).id].seq
  BY <1>1 DEF StartUpsert, StartDelete, TypeInv, TypeOK
<1>4. \A v \in Writers : \A i \in Ids : draft[v][i].seq <= lastSeq
  BY DEF PositionInv, DraftsFresh, Exists
<1>5. LockInv' /\ CommittedDistinct' /\ DraftsDistinct' /\ TombstonesEmpty'
  BY <1>1 DEF PositionInv, LockInv, CommittedDistinct, DraftsDistinct, TombstonesEmpty, Exists
<1>6. Drawn' /\ DraftsFresh'
  BY <1>1 DEF PositionInv, Drawn, DraftsFresh, Exists
<1>7. TakenFresh'
  BY <1>1, <1>3, <1>4 DEF PositionInv, Drawn, TakenFresh
<1>8. SeenOlder'
  BY <1>2, <1>3 DEF PositionInv, SeenOlder
<1> QED
  BY <1>5, <1>6, <1>7, <1>8 DEF PositionInv

\* What the end of a statement of w leaves to the other writers.
LEMMA EndStatementPosition ==
    ASSUME TypeInv, NEW w \in Writers, NEW o, EndStatement(w, o)
    PROVE  /\ pc'[w] # "delete" /\ taken'[w] = 0
           /\ \A v \in Writers \ {w} :
                pc'[v] = pc[v] /\ taken'[v] = taken[v] /\ seen'[v] = seen[v]
BY DEF EndStatement, TypeInv, TypeOK

\* Taking a free row lock leaves every lock with one holder.
LEMMA LockExclusive ==
    ASSUME IInv, NEW w \in Writers, MoreOps(w), RowFree(w), Lock(w)
    PROVE  /\ \A v \in Writers : locks[v] \subseteq locks'[v]
           /\ Op(w).id \in locks'[w]
           /\ \A u, v \in Writers : \A i \in Ids : i \in locks'[u] /\ i \in locks'[v] => u = v
BY OpType DEF IInv, TypeInv, TypeOK, RowFree, Lock, PositionInv, LockInv

\* A statement ends without a write.
LEMMA LeavingPosition ==
    ASSUME IInv, NEW w \in Writers,
           UpsertUnchanged(w) \/ DeleteOvertaken(w) \/ DeleteMisses(w)
    PROVE  PositionInv'
<1> USE Numbers DEF IInv
<1>1. /\ MoreOps(w)
      /\ EndStatement(w, Unchanged)
      /\ (RowFree(w) /\ Lock(w)) \/ UNCHANGED locks
      /\ UNCHANGED <<table, lastSeq, published, draft>>
  BY DEF TypeInv, StatementInv, InStatement, UpsertUnchanged, DeleteOvertaken,
         DeleteMisses, AtStatement
<1>2. /\ pc'[w] # "delete" /\ taken'[w] = 0
      /\ \A v \in Writers \ {w} :
           pc'[v] = pc[v] /\ taken'[v] = taken[v] /\ seen'[v] = seen[v]
  BY <1>1, EndStatementPosition
<1>3. LockInv'
  <2>1. CASE UNCHANGED locks
    BY <1>1, <2>1 DEF PositionInv, LockInv, Exists
  <2>2. CASE RowFree(w) /\ Lock(w)
    BY <1>1, <2>2, LockExclusive DEF PositionInv, LockInv, Exists
  <2> QED
    BY <1>1, <2>1, <2>2
<1>4. Drawn' /\ CommittedDistinct' /\ DraftsFresh' /\ DraftsDistinct' /\ TombstonesEmpty'
  BY <1>1 DEF PositionInv, Drawn, CommittedDistinct, DraftsFresh, DraftsDistinct,
              TombstonesEmpty, Exists
<1>5. TakenFresh'
  BY <1>1, <1>2 DEF PositionInv, TakenFresh
<1>6. SeenOlder'
  BY <1>2 DEF PositionInv, SeenOlder
<1> QED
  BY <1>3, <1>4, <1>5, <1>6 DEF PositionInv

\* A statement ends with a write at a position that is new, nobody else's and
\* above the committed row's.
LEMMA WritePosition ==
    ASSUME IInv, NEW w \in Writers, MoreOps(w), RowFree(w), Lock(w),
           NEW row \in Rows, Write(w, row), NEW o, EndStatement(w, o),
           row.deleted => row.payload = EmptyDoc,
           lastSeq' \in {lastSeq, lastSeq + 1}, UNCHANGED <<table, published>>,
           row.seq <= lastSeq', row.seq \notin published,
           row.seq > table[Op(w).id].seq,
           \A v \in Writers : \A i \in Ids : draft[v][i].seq # row.seq,
           \A v \in Writers \ {w} : taken[v] # row.seq
    PROVE  PositionInv'
<1> USE Numbers DEF IInv
<1> DEFINE id == Op(w).id
<1>1. id \in Ids
  BY OpType DEF TypeInv
<1>2. /\ draft'[w][id] = row
      /\ \A v \in Writers : \A i \in Ids : <<v, i>> # <<w, id>> => draft'[v][i] = draft[v][i]
  BY <1>1 DEF Write, TypeInv, TypeOK
<1>3. /\ pc'[w] # "delete" /\ taken'[w] = 0
      /\ \A v \in Writers \ {w} :
           pc'[v] = pc[v] /\ taken'[v] = taken[v] /\ seen'[v] = seen[v]
  BY EndStatementPosition
<1>4. lastSeq' >= lastSeq
  OBVIOUS
<1> HIDE DEF id
<1>5. LockInv'
  BY <1>2, LockExclusive DEF PositionInv, LockInv, id, Exists
<1>6. Drawn' /\ CommittedDistinct'
  BY <1>4 DEF PositionInv, Drawn, CommittedDistinct, Exists
<1>7. DraftsFresh'
  BY <1>1, <1>2, <1>4 DEF PositionInv, DraftsFresh, id, Exists
<1>8. DraftsDistinct'
  BY <1>1, <1>2 DEF PositionInv, DraftsDistinct, Exists
<1>9. TakenFresh'
  BY <1>1, <1>2, <1>3, <1>4 DEF PositionInv, TakenFresh
<1>10. SeenOlder'
  BY <1>3 DEF PositionInv, SeenOlder
<1>11. TombstonesEmpty'
  BY <1>1, <1>2 DEF PositionInv, TombstonesEmpty
<1> QED
  BY <1>5, <1>6, <1>7, <1>8, <1>9, <1>10, <1>11 DEF PositionInv

\* The positions a statement writes at: the one it drew first, where the row
\* is still the version it started from, and a new one anywhere.
LEMMA WritingPosition ==
    ASSUME IInv, NEW w \in Writers,
           \/ UpsertInserts(w) \/ UpsertReplaces(w)
           \/ DeleteTombstones(w) \/ DeleteRechecks(w)
    PROVE  PositionInv'
<1> USE Numbers DEF IInv
<1>1. MoreOps(w) /\ taken[w] > 0 /\ taken[w] \in Nat /\ lastSeq \in Nat
  BY DEF TypeInv, StatementInv, InStatement, UpsertInserts, UpsertReplaces,
         DeleteTombstones, DeleteRechecks
<1>2. Op(w).id \in Ids /\ Op(w).payload \in Payloads
  BY <1>1, OpType DEF TypeInv
<1>3. \A n \in Nat : /\ StoredRow(w, n) \in Rows /\ StoredRow(w, n).seq = n
                     /\ ~StoredRow(w, n).deleted
                     /\ Tombstone(n) \in Rows /\ Tombstone(n).seq = n
                     /\ Tombstone(n).payload = EmptyDoc
  BY <1>2, EmptyDocAssumption DEF StoredRow, Tombstone, Rows
<1>4. /\ taken[w] <= lastSeq /\ taken[w] \notin published
      /\ \A v \in Writers : \A i \in Ids : draft[v][i].seq # taken[w]
      /\ \A v \in Writers \ {w} : taken[v] # taken[w]
  BY <1>1 DEF PositionInv, TakenFresh
<1>5. /\ lastSeq + 1 \notin published
      /\ table[Op(w).id].seq < lastSeq + 1
      /\ \A v \in Writers : \A i \in Ids : draft[v][i].seq # lastSeq + 1
      /\ \A v \in Writers : taken[v] # lastSeq + 1
  BY <1>2 DEF PositionInv, Drawn, DraftsFresh, TakenFresh, Exists
<1>6. CASE UpsertInserts(w)
  <2>1. table[Op(w).id].seq < taken[w]
    BY <1>1, <1>2, <1>6 DEF UpsertInserts, Current, Exists
  <2>2. /\ RowFree(w) /\ Lock(w) /\ Write(w, StoredRow(w, taken[w]))
        /\ EndStatement(w, [result |-> "stored", seq |-> taken[w]])
        /\ UNCHANGED <<table, lastSeq, published>>
    BY <1>6 DEF UpsertInserts
  <2>3. StoredRow(w, taken[w]) \in Rows /\ StoredRow(w, taken[w]).seq = taken[w]
        /\ ~StoredRow(w, taken[w]).deleted
    BY <1>1, <1>3
  <2> HIDE DEF IInv
  <2> QED
    BY <1>1, <1>4, <2>1, <2>2, <2>3, WritePosition
<1>7. CASE UpsertReplaces(w)
  <2>1. /\ RowFree(w) /\ Lock(w) /\ Write(w, StoredRow(w, lastSeq + 1))
        /\ EndStatement(w, [result |-> "stored", seq |-> lastSeq + 1])
        /\ lastSeq' = lastSeq + 1
        /\ UNCHANGED <<table, published>>
    BY <1>7 DEF UpsertReplaces, NextVal
  <2>2. StoredRow(w, lastSeq + 1) \in Rows /\ StoredRow(w, lastSeq + 1).seq = lastSeq + 1
        /\ ~StoredRow(w, lastSeq + 1).deleted
    BY <1>1, <1>3
  <2> HIDE DEF IInv
  <2> QED
    BY <1>1, <1>5, <2>1, <2>2, WritePosition
<1>8. CASE DeleteTombstones(w)
  <2>1. table[Op(w).id].seq < taken[w]
    BY <1>8 DEF DeleteTombstones, PositionInv, SeenOlder
  <2>2. /\ RowFree(w) /\ Lock(w) /\ Write(w, Tombstone(taken[w]))
        /\ EndStatement(w, [result |-> "tombstoned", seq |-> taken[w]])
        /\ UNCHANGED <<table, lastSeq, published>>
    BY <1>8 DEF DeleteTombstones
  <2>3. Tombstone(taken[w]) \in Rows /\ Tombstone(taken[w]).seq = taken[w]
        /\ Tombstone(taken[w]).payload = EmptyDoc
    BY <1>1, <1>3
  <2> HIDE DEF IInv
  <2> QED
    BY <1>1, <1>4, <2>1, <2>2, <2>3, WritePosition
<1>9. CASE DeleteRechecks(w)
  <2>1. /\ RowFree(w) /\ Lock(w) /\ Write(w, Tombstone(lastSeq + 1))
        /\ EndStatement(w, [result |-> "tombstoned", seq |-> lastSeq + 1])
        /\ lastSeq' = lastSeq + 1
        /\ UNCHANGED <<table, published>>
    BY <1>9 DEF DeleteRechecks, NextVal
  <2>2. Tombstone(lastSeq + 1) \in Rows /\ Tombstone(lastSeq + 1).seq = lastSeq + 1
        /\ Tombstone(lastSeq + 1).payload = EmptyDoc
    BY <1>1, <1>3
  <2> HIDE DEF IInv
  <2> QED
    BY <1>1, <1>5, <2>1, <2>2, WritePosition
<1> QED
  BY <1>6, <1>7, <1>8, <1>9

\* What the end of a transaction leaves to the other writers.
LEMMA ReleasePosition ==
    ASSUME TypeInv, NEW w \in Writers, Release(w)
    PROVE  /\ pc'[w] # "delete" /\ taken'[w] = 0 /\ locks'[w] = {}
           /\ \A i \in Ids : draft'[w][i] = NoRow
           /\ \A v \in Writers \ {w} :
                /\ pc'[v] = pc[v] /\ taken'[v] = taken[v] /\ seen'[v] = seen[v]
                /\ draft'[v] = draft[v] /\ locks'[v] = locks[v]
BY DEF Release, TypeInv, TypeOK

LEMMA AbortPosition ==
    ASSUME IInv, NEW w \in Writers, Abort(w)
    PROVE  PositionInv'
<1> USE Numbers DEF IInv
<1>1. Release(w) /\ UNCHANGED <<table, lastSeq, published>>
  BY DEF Abort
<1>2. /\ pc'[w] # "delete" /\ taken'[w] = 0 /\ locks'[w] = {}
      /\ \A i \in Ids : draft'[w][i] = NoRow
      /\ \A v \in Writers \ {w} :
           /\ pc'[v] = pc[v] /\ taken'[v] = taken[v] /\ seen'[v] = seen[v]
           /\ draft'[v] = draft[v] /\ locks'[v] = locks[v]
  BY <1>1, ReleasePosition
<1>3. NoRow.seq = 0 /\ ~NoRow.deleted
  BY DEF NoRow
<1>4. LockInv'
  BY <1>2, <1>3 DEF PositionInv, LockInv, Exists
<1>5. Drawn' /\ CommittedDistinct'
  BY <1>1 DEF PositionInv, Drawn, CommittedDistinct, Exists
<1>6. DraftsFresh'
  BY <1>1, <1>2, <1>3 DEF PositionInv, DraftsFresh, Exists
<1>7. DraftsDistinct'
  BY <1>2, <1>3 DEF PositionInv, DraftsDistinct, Exists
<1>8. TakenFresh'
  BY <1>1, <1>2, <1>3 DEF PositionInv, TakenFresh
<1>9. SeenOlder'
  BY <1>2 DEF PositionInv, SeenOlder
<1>10. TombstonesEmpty'
  BY <1>1, <1>2, <1>3 DEF PositionInv, TombstonesEmpty
<1> QED
  BY <1>4, <1>5, <1>6, <1>7, <1>8, <1>9, <1>10 DEF PositionInv

\* A commit publishes the drafts of one transaction.  The rows the others have
\* drafts of are not among them: those are locked.
LEMMA CommitPosition ==
    ASSUME IInv, NEW w \in Writers, Commit(w)
    PROVE  PositionInv'
<1> USE Numbers DEF IInv
<1>1. /\ Release(w) /\ UNCHANGED lastSeq
      /\ \A i \in Ids : table'[i] = IF Exists(draft[w][i]) THEN draft[w][i] ELSE table[i]
      /\ published' = published \cup {draft[w][i].seq : i \in {j \in Ids : Exists(draft[w][j])}}
  BY DEF Commit
<1>2. /\ pc'[w] # "delete" /\ taken'[w] = 0 /\ locks'[w] = {}
      /\ \A i \in Ids : draft'[w][i] = NoRow
      /\ \A v \in Writers \ {w} :
           /\ pc'[v] = pc[v] /\ taken'[v] = taken[v] /\ seen'[v] = seen[v]
           /\ draft'[v] = draft[v] /\ locks'[v] = locks[v]
  BY <1>1, ReleasePosition
<1>3. NoRow.seq = 0 /\ ~NoRow.deleted
  BY DEF NoRow
<1>4. /\ \A n : n \in published' <=>
           n \in published \/ \E i \in Ids : Exists(draft[w][i]) /\ n = draft[w][i].seq
  BY <1>1
<1>5. LockInv'
  BY <1>2, <1>3 DEF PositionInv, LockInv, Exists
<1>6. Drawn'
  BY <1>1, <1>4 DEF PositionInv, Drawn, DraftsFresh, Exists
<1>7. CommittedDistinct'
  <2> SUFFICES ASSUME NEW i \in Ids, NEW j \in Ids, i # j, Exists(table'[i])
               PROVE  table'[i].seq # table'[j].seq
    BY DEF CommittedDistinct
  <2>1. CASE Exists(draft[w][i]) /\ Exists(draft[w][j])
    BY <1>1, <2>1 DEF PositionInv, DraftsDistinct
  <2>2. CASE Exists(draft[w][i]) /\ ~Exists(draft[w][j])
    BY <1>1, <2>2 DEF PositionInv, DraftsFresh, Drawn, Exists
  <2>3. CASE ~Exists(draft[w][i]) /\ Exists(draft[w][j])
    BY <1>1, <2>3 DEF PositionInv, DraftsFresh, Drawn, Exists
  <2>4. CASE ~Exists(draft[w][i]) /\ ~Exists(draft[w][j])
    BY <1>1, <2>4 DEF PositionInv, CommittedDistinct
  <2> QED
    BY <2>1, <2>2, <2>3, <2>4
<1>8. DraftsFresh'
  <2> SUFFICES ASSUME NEW v \in Writers, NEW i \in Ids, Exists(draft'[v][i])
               PROVE  /\ draft'[v][i].seq <= lastSeq'
                      /\ draft'[v][i].seq \notin published'
                      /\ draft'[v][i].seq > table'[i].seq
    BY DEF DraftsFresh
  <2>1. v # w /\ draft'[v][i] = draft[v][i]
    BY <1>2, <1>3 DEF Exists
  <2>2. ~Exists(draft[w][i])
    BY <2>1 DEF PositionInv, LockInv
  <2>3. \A j \in Ids : Exists(draft[w][j]) => draft[w][j].seq # draft[v][i].seq
    BY <2>1 DEF PositionInv, DraftsDistinct
  <2> QED
    BY <1>1, <1>4, <2>1, <2>2, <2>3 DEF PositionInv, DraftsFresh
<1>9. DraftsDistinct'
  BY <1>2, <1>3 DEF PositionInv, DraftsDistinct, Exists
<1>10. TakenFresh'
  BY <1>1, <1>2, <1>3, <1>4 DEF PositionInv, TakenFresh
<1>11. SeenOlder'
  BY <1>2 DEF PositionInv, SeenOlder
<1>12. TombstonesEmpty'
  BY <1>1, <1>2, <1>3 DEF PositionInv, TombstonesEmpty
<1> QED
  BY <1>5, <1>6, <1>7, <1>8, <1>9, <1>10, <1>11, <1>12 DEF PositionInv

LEMMA PositionStep == IInv /\ [Next]_vars => PositionInv'
<1> SUFFICES ASSUME IInv, [Next]_vars PROVE PositionInv'
  OBVIOUS
<1>1. CASE UNCHANGED vars
  BY <1>1, HandlerPosition DEF vars
<1>2. ASSUME NEW w \in Writers,
             \/ Begin(w) \/ Advance(w) \/ RequestTimesOut(w)
             \/ StoreFails(w) \/ DeadlockDetected(w)
      PROVE  PositionInv'
  <2>1. CASE Begin(w) \/ SendCommit(w) \/ RequestTimesOut(w)
    <3>1. UNCHANGED <<table, lastSeq, published, draft, locks, taken, seen>>
      BY <2>1 DEF Begin, SendCommit, RequestTimesOut
    <3>2. \A v \in Writers : pc'[v] = "delete" => pc[v] = "delete"
      BY <2>1 DEF Begin, SendCommit, RequestTimesOut, IInv, TypeInv, TypeOK
    <3> QED
      BY <3>1, <3>2, HandlerPosition
  <2>2. CASE StartUpsert(w) \/ StartDelete(w)
    BY <2>2, StartPosition
  <2>3. CASE UpsertInserts(w) \/ UpsertReplaces(w) \/ DeleteTombstones(w) \/ DeleteRechecks(w)
    BY <2>3, WritingPosition
  <2>4. CASE UpsertUnchanged(w) \/ DeleteOvertaken(w) \/ DeleteMisses(w)
    BY <2>4, LeavingPosition
  <2>5. CASE Commit(w)
    BY <2>5, CommitPosition
  <2>6. CASE Rollback(w) \/ StoreFails(w) \/ DeadlockDetected(w)
    BY <2>6, AbortPosition DEF Rollback, StoreFails, DeadlockDetected
  <2> QED
    BY <1>2, <2>1, <2>2, <2>3, <2>4, <2>5, <2>6 DEF Advance, Upsert, Delete
<1> QED
  BY <1>1, <1>2 DEF Next, Quiescent

\* The invariant is inductive.
LEMMA Invariance == Spec => []IInv
<1>1. Init => IInv
  BY TypeInit, PositionInit DEF IInv
<1>2. IInv /\ [Next]_vars => IInv'
  BY TypeStep, PositionStep DEF IInv
<1> QED
  BY <1>1, <1>2, PTL DEF Spec

-----------------------------------------------------------------------------
(* What follows from the invariant. *)

\* No two rows share a feed position, committed or about to be, nor does a
\* statement hold a position that is in use: record_seq_key refuses no write.
THEOREM PositionsAreUnique == Spec => []PositionsUnique
<1>1. IInv => PositionsUnique
  <2> SUFFICES ASSUME IInv PROVE PositionsUnique
    OBVIOUS
  <2> USE Numbers DEF IInv, PositionInv
  <2>1. \A i, j \in Ids : i # j /\ Exists(table[i]) => table[i].seq # table[j].seq
    BY DEF CommittedDistinct
  <2>2. \A w, v \in Writers : \A i, j \in Ids :
          Exists(draft[w][i]) /\ <<w, i>> # <<v, j>> => draft[w][i].seq # draft[v][j].seq
    BY DEF DraftsDistinct
  <2>3. \A w, v \in Writers : \A i \in Ids :
          taken[w] > 0 => taken[w] # draft[v][i].seq /\ taken[w] # table[i].seq
    BY DEF TakenFresh, Drawn, Exists
  <2> QED
    BY <2>1, <2>2, <2>3 DEF PositionsUnique
<1> QED
  BY <1>1, Invariance, PTL

\* The rows change in a commit only, and there they become the drafts.
LEMMA OnlyCommitsPublish ==
    ASSUME IInv, [Next]_vars
    PROVE  \/ UNCHANGED <<table, published>>
           \/ \E w \in Writers : Commit(w)
BY DEF Next, Advance, Upsert, Delete, Begin, StartUpsert, UpsertInserts, UpsertReplaces,
       UpsertUnchanged, StartDelete, DeleteMisses, DeleteTombstones, DeleteRechecks,
       DeleteOvertaken, SendCommit, RequestTimesOut, StoreFails, DeadlockDetected,
       Rollback, Abort, Quiescent, vars

\* A row only ever moves forward in the feed.
THEOREM FeedMovesForward == Spec => RowsMoveForward
<1> DEFINE Forward == \A i \in Ids : table'[i] # table[i] => table'[i].seq > table[i].seq
<1>1. IInv /\ [Next]_vars => [Forward]_vars
  <2> SUFFICES ASSUME IInv, [Next]_vars PROVE Forward
    OBVIOUS
  <2>1. CASE UNCHANGED <<table, published>>
    BY <2>1
  <2>2. ASSUME NEW w \in Writers, Commit(w) PROVE Forward
    BY <2>2 DEF Commit, IInv, PositionInv, DraftsFresh
  <2> QED
    BY <2>1, <2>2, OnlyCommitsPublish
<1> HIDE DEF Forward
<1>2. Spec => [][Forward]_vars
  BY <1>1, Invariance, PTL DEF Spec
<1> QED
  BY <1>2 DEF RowsMoveForward, Forward

\* A commit is a publication of the abstract store, or leaves it as it is.
LEMMA CommitPublishes ==
    ASSUME IInv, NEW w \in Writers, Commit(w)
    PROVE  Published!Publish
<1> USE Numbers DEF IInv
<1> DEFINE Drafted == {i \in Ids : Exists(draft[w][i])}
<1>1. /\ \A i \in Ids : table'[i] = IF Exists(draft[w][i]) THEN draft[w][i] ELSE table[i]
      /\ published' = published \cup {draft[w][i].seq : i \in Drafted}
  BY DEF Commit
<1>2. \A i \in Ids : Exists(draft[w][i]) =>
        draft[w][i].seq > table[i].seq /\ draft[w][i].seq \notin published
  BY DEF PositionInv, DraftsFresh
<1>3. Published!Changed = Drafted
  <2>1. \A i \in Ids : table'[i] # table[i] <=> Exists(draft[w][i])
    BY <1>1, <1>2
  <2> QED
    BY <2>1 DEF Published!Changed
<1>4. table' \in [Ids -> Published!Rows]
  BY CommitType DEF TypeInv, TypeOK, Rows, Published!Rows
<1>5. \A i \in Drafted :
        /\ table'[i].seq > table[i].seq
        /\ table'[i].seq \notin published
        /\ table'[i].deleted => table'[i].payload = EmptyDoc
  BY <1>1, <1>2 DEF PositionInv, TombstonesEmpty
<1>6. \A i, j \in Drafted : i # j => table'[i].seq # table'[j].seq
  BY <1>1 DEF PositionInv, DraftsDistinct
<1>7. published' = published \cup {table'[i].seq : i \in Drafted}
  <2>1. \A i \in Drafted : draft[w][i].seq = table'[i].seq
    BY <1>1
  <2>2. {draft[w][i].seq : i \in Drafted} = {table'[i].seq : i \in Drafted}
    BY <2>1
  <2> QED
    BY <1>1, <2>2
<1> HIDE DEF Drafted
<1> QED
  BY <1>3, <1>4, <1>5, <1>6, <1>7 DEF Published!Publish

\* The store of statements, locks and transactions implements the atomic one.
THEOREM RefinesAtomicStore == Spec => PublishesAtomically
<1>1. Init => Published!Init
  BY DEF Init, Published!Init, NoRow, Published!NoRow
<1>2. IInv /\ [Next]_vars => [Published!Publish]_<<table, published>>
  BY OnlyCommitsPublish, CommitPublishes
<1> QED
  BY <1>1, <1>2, Invariance, PTL DEF Spec, PublishesAtomically, Published!Spec

-----------------------------------------------------------------------------
(* Durability: the answer to a request, the drafts of its transaction and  *)
(* the committed rows agree.                                               *)

OutcomesWithinRequest ==
    \A w \in Writers : Len(outcomes[w]) <= Len(request[w].ops)

\* A request in progress has no success to report yet.
UnansweredInv ==
    \A w \in Writers : pc[w] # "idle" => answer[w] \in {"none", "unavailable"}

\* A statement that drew a value did so after all the transaction's writes.
DraftsOlder ==
    \A w \in Writers : taken[w] > 0 => \A i \in Ids : draft[w][i].seq < taken[w]

\* What a transaction will report as written is in its drafts, at the position
\* it will report or at that of a later operation on the same id.
OutcomesDrafted ==
    \A w \in Writers : pc[w] # "idle" =>
        \A n \in DOMAIN outcomes[w] :
            outcomes[w][n].seq <= draft[w][request[w].ops[n].id].seq

OutcomeInv ==
    /\ OutcomesWithinRequest
    /\ UnansweredInv
    /\ DraftsOlder
    /\ OutcomesDrafted
    /\ AnsweredIsDurable

LEMMA OutcomeInit == Init => OutcomeInv
BY DEF Init, OutcomeInv, OutcomesWithinRequest, UnansweredInv, DraftsOlder, OutcomesDrafted,
       AnsweredIsDurable, NoRequest

\* The sequences and numbers the invariant speaks of.
LEMMA OutcomeTypes ==
    ASSUME TypeInv, NEW w \in Writers
    PROVE  /\ outcomes[w] \in Seq(Outcomes)
           /\ Len(outcomes[w]) \in Nat /\ DOMAIN outcomes[w] = 1 .. Len(outcomes[w])
           /\ Len(request[w].ops) \in Nat
           /\ \A n \in DOMAIN outcomes[w] : outcomes[w][n].seq \in Nat
           /\ \A n \in 1 .. Len(request[w].ops) : request[w].ops[n].id \in Ids
<1>1. outcomes[w] \in Seq(Outcomes) /\ request[w].ops \in Seq(Ops)
  BY DEF TypeInv, TypeOK, RequestType
<1>2. \A o \in Outcomes : o.seq \in Nat
  BY DEF Outcomes
<1>3. \A op \in Ops : op.id \in Ids
  BY DEF Ops
<1> QED
  BY <1>1, <1>2, <1>3

\* Where the rows only move forward, what was answered stays durable for every
\* writer whose request, outcomes and answer stay as they are.
LEMMA StaysDurable ==
    ASSUME IInv, OutcomeInv, NEW v \in Writers,
           \A i \in Ids : table'[i].seq \in Nat /\ table'[i].seq >= table[i].seq,
           request'[v] = request[v], outcomes'[v] = outcomes[v], answer'[v] = answer[v]
    PROVE  answer'[v] = "ok" =>
             \A n \in DOMAIN outcomes'[v] :
               outcomes'[v][n].seq <= table'[request'[v].ops[n].id].seq
<1> SUFFICES ASSUME answer[v] = "ok", NEW n \in DOMAIN outcomes[v]
             PROVE  outcomes[v][n].seq <= table'[request[v].ops[n].id].seq
  OBVIOUS
<1>1. n \in 1 .. Len(request[v].ops) /\ outcomes[v][n].seq \in Nat
  BY OutcomeTypes DEF IInv, OutcomeInv, OutcomesWithinRequest
<1>2. request[v].ops[n].id \in Ids
  BY <1>1, OutcomeTypes DEF IInv
<1>3. outcomes[v][n].seq <= table[request[v].ops[n].id].seq
  BY DEF OutcomeInv, AnsweredIsDurable
<1> QED
  BY <1>1, <1>2, <1>3, Numbers DEF IInv

\* A step that leaves the rows, the drafts and the outcomes alone, and ends no
\* transaction.
LEMMA HandlerOutcome ==
    ASSUME IInv, OutcomeInv, UNCHANGED <<table, request, outcomes, draft>>,
           \A w \in Writers : taken'[w] # taken[w] =>
               taken'[w] = 0 \/ taken'[w] = lastSeq + 1,
           \A w \in Writers : pc'[w] # "idle" =>
               pc[w] # "idle" /\ answer'[w] \in {answer[w], "unavailable"},
           \A w \in Writers : answer'[w] = "ok" => answer[w] = "ok"
    PROVE  OutcomeInv'
<1> USE Numbers DEF IInv
<1>1. OutcomesWithinRequest' /\ UnansweredInv' /\ OutcomesDrafted' /\ AnsweredIsDurable'
  BY DEF OutcomeInv, OutcomesWithinRequest, UnansweredInv, OutcomesDrafted, AnsweredIsDurable
<1>2. \A w \in Writers : \A i \in Ids : draft[w][i].seq <= lastSeq
  BY DEF PositionInv, DraftsFresh, Exists
<1>3. DraftsOlder'
  BY <1>2 DEF OutcomeInv, DraftsOlder
<1> QED
  BY <1>1, <1>3 DEF OutcomeInv

LEMMA BeginOutcome ==
    ASSUME IInv, OutcomeInv, NEW w \in Writers, Begin(w)
    PROVE  OutcomeInv'
<1> PICK r \in Requests :
      /\ pc' = [pc EXCEPT ![w] = "ready"]
      /\ request' = [request EXCEPT ![w] = r]
      /\ outcomes' = [outcomes EXCEPT ![w] = << >>]
      /\ answer' = [answer EXCEPT ![w] = "none"]
      /\ UNCHANGED <<table, draft, taken>>
  BY DEF Begin
<1>1. r \in RequestType
  BY RequestsAssumption
<1>2. Len(r.ops) \in Nat
  BY <1>1 DEF RequestType
<1>3. /\ pc'[w] = "ready" /\ request'[w] = r /\ outcomes'[w] = << >> /\ answer'[w] = "none"
      /\ \A v \in Writers \ {w} :
           /\ pc'[v] = pc[v] /\ request'[v] = request[v]
           /\ outcomes'[v] = outcomes[v] /\ answer'[v] = answer[v]
  BY DEF IInv, TypeInv, TypeOK
<1>4. OutcomesWithinRequest' /\ UnansweredInv' /\ DraftsOlder'
  BY <1>2, <1>3 DEF OutcomeInv, OutcomesWithinRequest, UnansweredInv, DraftsOlder
<1>5. OutcomesDrafted' /\ AnsweredIsDurable'
  BY <1>3 DEF OutcomeInv, OutcomesDrafted, AnsweredIsDurable
<1> QED
  BY <1>4, <1>5 DEF OutcomeInv

\* What the end of a statement appends, and what it leaves alone.
LEMMA EndStatementOutcome ==
    ASSUME IInv, OutcomeInv, NEW w \in Writers, MoreOps(w), NEW o \in Outcomes,
           EndStatement(w, o), UNCHANGED <<request, answer>>
    PROVE  /\ OutcomesWithinRequest'
           /\ outcomes'[w] = Append(outcomes[w], o)
           /\ request[w].ops[Len(outcomes[w]) + 1].id = Op(w).id
           /\ taken'[w] = 0 /\ pc'[w] # "idle"
           /\ \A v \in Writers \ {w} :
                pc'[v] = pc[v] /\ taken'[v] = taken[v] /\ outcomes'[v] = outcomes[v]
<1>1. /\ outcomes'[w] = Append(outcomes[w], o)
      /\ taken'[w] = 0 /\ pc'[w] # "idle"
      /\ \A v \in Writers \ {w} :
           pc'[v] = pc[v] /\ taken'[v] = taken[v] /\ outcomes'[v] = outcomes[v]
  BY DEF EndStatement, IInv, TypeInv, TypeOK
<1>2. Len(outcomes'[w]) = Len(outcomes[w]) + 1
  BY <1>1, OutcomeTypes DEF IInv
<1>3. OutcomesWithinRequest'
  BY <1>1, <1>2, OutcomeTypes DEF IInv, OutcomeInv, OutcomesWithinRequest, MoreOps
<1> QED
  BY <1>1, <1>3 DEF Op

\* A statement ends: what it reports as written, if anything, it has drafted,
\* at a position above those of the transaction's earlier writes.
LEMMA StatementOutcome ==
    ASSUME IInv, OutcomeInv, NEW w \in Writers, MoreOps(w), pc[w] # "idle",
           NEW o \in Outcomes, EndStatement(w, o),
           UNCHANGED <<table, request, answer>>,
           \A v \in Writers \ {w} : draft'[v] = draft[v],
           \A i \in Ids \ {Op(w).id} : draft'[w][i] = draft[w][i],
           o.seq <= draft'[w][Op(w).id].seq,
           draft'[w][Op(w).id].seq \in Nat,
           draft'[w][Op(w).id].seq >= draft[w][Op(w).id].seq
    PROVE  OutcomeInv'
<1> USE Numbers DEF IInv
<1>1. /\ OutcomesWithinRequest'
      /\ outcomes'[w] = Append(outcomes[w], o)
      /\ request[w].ops[Len(outcomes[w]) + 1].id = Op(w).id
      /\ taken'[w] = 0 /\ pc'[w] # "idle"
      /\ \A v \in Writers \ {w} :
           pc'[v] = pc[v] /\ taken'[v] = taken[v] /\ outcomes'[v] = outcomes[v]
  BY EndStatementOutcome
<1>2. UnansweredInv'
  BY <1>1 DEF OutcomeInv, UnansweredInv
<1>3. DraftsOlder'
  BY <1>1 DEF OutcomeInv, DraftsOlder
<1>4. ASSUME NEW n \in DOMAIN outcomes'[w]
      PROVE  outcomes'[w][n].seq <= draft'[w][request[w].ops[n].id].seq
  <2>1. n \in 1 .. Len(outcomes[w]) + 1
    BY <1>1, <1>4, OutcomeTypes
  <2>2. CASE n = Len(outcomes[w]) + 1
    BY <1>1, <2>2, OutcomeTypes
  <2>3. CASE n \in 1 .. Len(outcomes[w])
    <3>1. outcomes'[w][n] = outcomes[w][n] /\ n \in DOMAIN outcomes[w]
      BY <1>1, <2>3, OutcomeTypes
    <3>2. request[w].ops[n].id \in Ids
      BY <2>3, OutcomeTypes DEF OutcomeInv, OutcomesWithinRequest
    <3>3. outcomes[w][n].seq <= draft[w][request[w].ops[n].id].seq
      BY <3>1 DEF OutcomeInv, OutcomesDrafted
    <3>4. outcomes[w][n].seq \in Nat
      BY <3>1, OutcomeTypes
    <3> QED
      BY <3>1, <3>2, <3>3, <3>4
  <2> QED
    BY <2>1, <2>2, <2>3, OutcomeTypes
<1>5. OutcomesDrafted'
  BY <1>1, <1>4 DEF OutcomeInv, OutcomesDrafted
<1>6. AnsweredIsDurable'
  BY <1>1 DEF OutcomeInv, UnansweredInv, AnsweredIsDurable
<1> QED
  BY <1>1, <1>2, <1>3, <1>5, <1>6 DEF OutcomeInv

LEMMA WritingOutcome ==
    ASSUME IInv, OutcomeInv, NEW w \in Writers,
           \/ UpsertInserts(w) \/ UpsertReplaces(w)
           \/ DeleteTombstones(w) \/ DeleteRechecks(w)
    PROVE  OutcomeInv'
<1> USE Numbers DEF IInv
<1>1. MoreOps(w) /\ taken[w] > 0 /\ pc[w] # "idle"
  BY DEF TypeInv, StatementInv, InStatement, UpsertInserts, UpsertReplaces,
         DeleteTombstones, DeleteRechecks
<1>2. Op(w).id \in Ids
  BY <1>1, OpType DEF TypeInv
<1>3. PICK s \in {taken[w], lastSeq + 1} :
        \E result \in {"stored", "tombstoned"} :
        \E row \in {StoredRow(w, s), Tombstone(s)} :
            Write(w, row) /\ EndStatement(w, [result |-> result, seq |-> s])
  BY DEF UpsertInserts, UpsertReplaces, DeleteTombstones, DeleteRechecks, NextVal
<1>4. UNCHANGED <<table, request, answer>>
  BY DEF UpsertInserts, UpsertReplaces, DeleteTombstones, DeleteRechecks
<1>5. s \in Nat \ {0} /\ s > draft[w][Op(w).id].seq
  BY <1>1, <1>2, <1>3 DEF OutcomeInv, DraftsOlder, PositionInv, DraftsFresh, Exists
<1>6. PICK result \in {"stored", "tombstoned"}, row \in {StoredRow(w, s), Tombstone(s)} :
        Write(w, row) /\ EndStatement(w, [result |-> result, seq |-> s])
  BY <1>3
<1>7. row.seq = s
  BY <1>6 DEF StoredRow, Tombstone
<1>8. /\ draft'[w][Op(w).id] = row
      /\ \A v \in Writers \ {w} : draft'[v] = draft[v]
      /\ \A i \in Ids \ {Op(w).id} : draft'[w][i] = draft[w][i]
  BY <1>2, <1>6 DEF Write, TypeInv, TypeOK
<1>9. PICK o \in Outcomes : o.seq = s /\ EndStatement(w, o)
  <2>1. [result |-> result, seq |-> s] \in Outcomes
    BY <1>5 DEF Outcomes
  <2> QED
    BY <1>6, <2>1
<1>10. draft[w][Op(w).id].seq \in Nat
  BY <1>2
<1>11. /\ o.seq <= draft'[w][Op(w).id].seq
       /\ draft'[w][Op(w).id].seq \in Nat
       /\ draft'[w][Op(w).id].seq >= draft[w][Op(w).id].seq
  BY <1>5, <1>7, <1>8, <1>9, <1>10
<1> HIDE DEF IInv
<1> QED
  BY <1>1, <1>4, <1>8, <1>9, <1>11, StatementOutcome

LEMMA LeavingOutcome ==
    ASSUME IInv, OutcomeInv, NEW w \in Writers,
           UpsertUnchanged(w) \/ DeleteOvertaken(w) \/ DeleteMisses(w)
    PROVE  OutcomeInv'
<1>1. /\ MoreOps(w) /\ pc[w] # "idle"
      /\ EndStatement(w, Unchanged)
      /\ UNCHANGED <<table, request, draft, answer>>
  BY DEF IInv, TypeInv, StatementInv, InStatement, UpsertUnchanged, DeleteOvertaken,
         DeleteMisses, AtStatement
<1>2. Unchanged \in Outcomes /\ Unchanged.seq = 0
  BY DEF Unchanged, Outcomes
<1>3. Op(w).id \in Ids
  BY <1>1, OpType DEF IInv, TypeInv
<1>4. draft[w][Op(w).id].seq \in Nat
  BY <1>3, Numbers DEF IInv
<1> QED
  BY <1>1, <1>2, <1>4, StatementOutcome

\* What the end of a transaction leaves of the others.
LEMMA ReleaseOutcome ==
    ASSUME IInv, OutcomeInv, NEW w \in Writers, Release(w), UNCHANGED <<request, outcomes>>,
           \A v \in Writers \ {w} : answer'[v] = answer[v]
    PROVE  OutcomesWithinRequest' /\ UnansweredInv' /\ DraftsOlder' /\ OutcomesDrafted'
<1>1. /\ pc'[w] = "idle" /\ taken'[w] = 0
      /\ \A v \in Writers \ {w} :
           pc'[v] = pc[v] /\ taken'[v] = taken[v] /\ draft'[v] = draft[v]
  BY DEF Release, IInv, TypeInv, TypeOK
<1> QED
  BY <1>1 DEF OutcomeInv, OutcomesWithinRequest, UnansweredInv, DraftsOlder, OutcomesDrafted

\* A commit: what is reported to its sender becomes the committed rows.
LEMMA CommitOutcome ==
    ASSUME IInv, OutcomeInv, NEW w \in Writers, Commit(w)
    PROVE  OutcomeInv'
<1> USE Numbers DEF IInv
<1>1. /\ Release(w) /\ UNCHANGED <<request, outcomes>>
      /\ pc[w] = "commit"
      /\ \A i \in Ids : table'[i] = IF Exists(draft[w][i]) THEN draft[w][i] ELSE table[i]
      /\ \A v \in Writers \ {w} : answer'[v] = answer[v]
  BY DEF Commit, TypeInv, TypeOK
<1>2. \A i \in Ids : table'[i].seq \in Nat /\ table'[i].seq >= table[i].seq
  BY <1>1 DEF PositionInv, DraftsFresh
<1>3. \A n \in DOMAIN outcomes[w] :
        outcomes[w][n].seq <= table'[request[w].ops[n].id].seq
  <2> SUFFICES ASSUME NEW n \in DOMAIN outcomes[w]
               PROVE  outcomes[w][n].seq <= table'[request[w].ops[n].id].seq
    OBVIOUS
  <2> DEFINE i == request[w].ops[n].id
  <2>1. i \in Ids /\ outcomes[w][n].seq \in Nat
    BY OutcomeTypes DEF OutcomeInv, OutcomesWithinRequest
  <2>2. outcomes[w][n].seq <= draft[w][i].seq
    BY <1>1 DEF OutcomeInv, OutcomesDrafted
  <2> HIDE DEF i
  <2>3. outcomes[w][n].seq <= table'[i].seq
    BY <1>1, <1>2, <2>1, <2>2 DEF Exists
  <2> QED
    BY <2>3 DEF i
<1>4. AnsweredIsDurable'
  <2> SUFFICES ASSUME NEW v \in Writers, answer'[v] = "ok", NEW n \in DOMAIN outcomes'[v]
               PROVE  outcomes'[v][n].seq <= table'[request'[v].ops[n].id].seq
    BY DEF AnsweredIsDurable
  <2>1. CASE v = w
    BY <1>1, <1>3, <2>1
  <2>2. CASE v # w
    BY <1>1, <1>2, <2>2, StaysDurable
  <2> QED
    BY <2>1, <2>2
<1>5. OutcomesWithinRequest' /\ UnansweredInv' /\ DraftsOlder' /\ OutcomesDrafted'
  BY <1>1, ReleaseOutcome
<1> QED
  BY <1>4, <1>5 DEF OutcomeInv

\* A rollback: the sender is not told that anything is stored.
LEMMA AbortOutcome ==
    ASSUME IInv, OutcomeInv, NEW w \in Writers, Abort(w)
    PROVE  OutcomeInv'
<1>1. /\ Release(w) /\ UNCHANGED <<table, request, outcomes>>
      /\ answer'[w] \in {"error", "unavailable"}
      /\ \A v \in Writers \ {w} : answer'[v] = answer[v]
  BY DEF Abort, Abandoned, IInv, TypeInv, TypeOK
<1>2. AnsweredIsDurable'
  BY <1>1 DEF OutcomeInv, AnsweredIsDurable
<1>3. OutcomesWithinRequest' /\ UnansweredInv' /\ DraftsOlder' /\ OutcomesDrafted'
  BY <1>1, ReleaseOutcome
<1> QED
  BY <1>2, <1>3 DEF OutcomeInv

\* Steps that concern no outcome: a statement starts, COMMIT is sent, time is up.
LEMMA OtherOutcome ==
    ASSUME IInv, OutcomeInv, NEW w \in Writers,
           StartUpsert(w) \/ StartDelete(w) \/ SendCommit(w) \/ RequestTimesOut(w)
    PROVE  OutcomeInv'
<1>1. UNCHANGED <<table, request, outcomes, draft>>
  BY DEF StartUpsert, StartDelete, SendCommit, RequestTimesOut
<1>2. pc[w] # "idle" /\ \A v \in Writers \ {w} : pc'[v] = pc[v]
  BY DEF StartUpsert, StartDelete, AtStatement, SendCommit, RequestTimesOut, IInv,
         TypeInv, TypeOK
<1>3. /\ answer'[w] \in {answer[w], "unavailable"}
      /\ \A v \in Writers \ {w} : answer'[v] = answer[v]
  BY DEF StartUpsert, StartDelete, SendCommit, RequestTimesOut, IInv, TypeInv, TypeOK
<1>4. \A v \in Writers : taken'[v] \in {taken[v], lastSeq + 1}
  BY DEF StartUpsert, StartDelete, SendCommit, RequestTimesOut, NextVal, IInv, TypeInv, TypeOK
<1> QED
  BY <1>1, <1>2, <1>3, <1>4, HandlerOutcome

LEMMA OutcomeStep == IInv /\ OutcomeInv /\ [Next]_vars => OutcomeInv'
<1> SUFFICES ASSUME IInv, OutcomeInv, [Next]_vars PROVE OutcomeInv'
  OBVIOUS
<1>1. CASE UNCHANGED vars
  BY <1>1, HandlerOutcome DEF vars
<1>2. ASSUME NEW w \in Writers,
             \/ Begin(w) \/ Advance(w) \/ RequestTimesOut(w)
             \/ StoreFails(w) \/ DeadlockDetected(w)
      PROVE  OutcomeInv'
  <2>1. CASE Begin(w)
    BY <2>1, BeginOutcome
  <2>2. CASE StartUpsert(w) \/ StartDelete(w) \/ SendCommit(w) \/ RequestTimesOut(w)
    BY <2>2, OtherOutcome
  <2>3. CASE UpsertInserts(w) \/ UpsertReplaces(w) \/ DeleteTombstones(w) \/ DeleteRechecks(w)
    BY <2>3, WritingOutcome
  <2>4. CASE UpsertUnchanged(w) \/ DeleteOvertaken(w) \/ DeleteMisses(w)
    BY <2>4, LeavingOutcome
  <2>5. CASE Commit(w)
    BY <2>5, CommitOutcome
  <2>6. CASE Rollback(w) \/ StoreFails(w) \/ DeadlockDetected(w)
    BY <2>6, AbortOutcome DEF Rollback, StoreFails, DeadlockDetected
  <2> QED
    BY <1>2, <2>1, <2>2, <2>3, <2>4, <2>5, <2>6 DEF Advance, Upsert, Delete
<1> QED
  BY <1>1, <1>2 DEF Next, Quiescent

\* What a sender was told is stored is never lost or rolled back: the committed
\* row is at the reported position or at a later one.
THEOREM AcknowledgedWritesLast == Spec => []AnsweredIsDurable
<1>1. Init => OutcomeInv
  BY OutcomeInit
<1>2. IInv /\ OutcomeInv /\ [Next]_vars => OutcomeInv'
  BY OutcomeStep
<1>3. OutcomeInv => AnsweredIsDurable
  BY DEF OutcomeInv
<1> QED
  BY <1>1, <1>2, <1>3, Invariance, PTL DEF Spec

-----------------------------------------------------------------------------
(* Wholeness: what a transaction reports as written is its own,            *)
(* unpublished until it commits and, in the end, exactly what it drafted.  *)

\* A position in an outcome is one that was drawn, for this request alone, and
\* while the request is in progress it is not published.
OutcomesOwn ==
    \A w \in Writers : \A n \in Written(w) :
        /\ outcomes[w][n].seq <= lastSeq
        /\ pc[w] # "idle" => outcomes[w][n].seq \notin published
        /\ \A v \in Writers : outcomes[w][n].seq # taken[v]
        /\ \A v \in Writers \ {w} : \A i \in Ids : outcomes[w][n].seq # draft[v][i].seq

\* The draft of an id is the row of the last operation that wrote it.
LastDrafted ==
    \A w \in Writers : pc[w] # "idle" =>
        \A n \in LastWritten(w) :
            draft[w][request[w].ops[n].id].seq = outcomes[w][n].seq

\* COMMIT is sent for a request whose operations all went through.
CommitComplete ==
    \A w \in Writers :
        /\ pc[w] = "commit" => ~MoreOps(w)
        /\ request[w].auto => Len(request[w].ops) = 1

WholeInv ==
    /\ OutcomesOwn
    /\ LastDrafted
    /\ CommitComplete
    /\ BatchIsWhole

LEMMA WholeInit == Init => WholeInv
BY DEF Init, WholeInv, OutcomesOwn, LastDrafted, CommitComplete, BatchIsWhole, Written,
       LastWritten, NoRequest

\* An operation wrote a row if its outcome has a position.
LEMMA WrittenHasPosition ==
    ASSUME TypeInv, NEW w \in Writers
    PROVE  \A n \in DOMAIN outcomes[w] :
             /\ outcomes[w][n].seq \in Nat
             /\ n \in Written(w) <=> outcomes[w][n].seq > 0
<1>1. \A n \in DOMAIN outcomes[w] : outcomes[w][n] \in Outcomes
  BY OutcomeTypes
<1>2. \A o \in Outcomes : o.seq \in Nat /\ (o # Unchanged <=> o.seq > 0)
  BY DEF Outcomes, Unchanged
<1> QED
  BY <1>1, <1>2 DEF Written

\* What a writer has written depends on its request and outcomes only.
LEMMA SameWritten ==
    ASSUME NEW w \in Writers, request'[w] = request[w], outcomes'[w] = outcomes[w]
    PROVE  Written(w)' = Written(w) /\ LastWritten(w)' = LastWritten(w)
BY DEF Written, LastWritten

\* What an unchanged record, or a deleted one, adds to what was written: nothing.
LEMMA AppendUnchanged ==
    ASSUME TypeInv, NEW w \in Writers, request'[w] = request[w],
           outcomes'[w] = Append(outcomes[w], Unchanged)
    PROVE  /\ Written(w)' = Written(w) /\ LastWritten(w)' = LastWritten(w)
           /\ \A n \in Written(w) : outcomes'[w][n] = outcomes[w][n]
<1>1. /\ DOMAIN outcomes'[w] = 1 .. Len(outcomes[w]) + 1
      /\ DOMAIN outcomes[w] = 1 .. Len(outcomes[w])
      /\ Len(outcomes[w]) \in Nat
      /\ outcomes'[w][Len(outcomes[w]) + 1] = Unchanged
      /\ \A n \in 1 .. Len(outcomes[w]) : outcomes'[w][n] = outcomes[w][n]
  BY OutcomeTypes
<1>2. Written(w)' = Written(w)
  BY <1>1 DEF Written
<1>3. LastWritten(w)' = LastWritten(w)
  BY <1>2 DEF LastWritten
<1> QED
  BY <1>1, <1>2, <1>3 DEF Written

\* An operation that wrote a row is the last one of its id.
LEMMA AppendWritten ==
    ASSUME TypeInv, OutcomeInv, NEW w \in Writers, MoreOps(w), request'[w] = request[w],
           NEW o \in Outcomes, o.seq > 0, outcomes'[w] = Append(outcomes[w], o)
    PROVE  LET last == Len(outcomes[w]) + 1 IN
           /\ outcomes'[w][last] = o
           /\ Written(w)' = Written(w) \cup {last}
           /\ \A n \in Written(w) : outcomes'[w][n] = outcomes[w][n]
           /\ request[w].ops[last].id = Op(w).id
           /\ \A n \in LastWritten(w)' : n = last \/
                (n \in LastWritten(w) /\ request[w].ops[n].id \in Ids \ {Op(w).id})
<1> DEFINE last == Len(outcomes[w]) + 1
<1>1. /\ DOMAIN outcomes'[w] = 1 .. last
      /\ DOMAIN outcomes[w] = 1 .. Len(outcomes[w])
      /\ Len(outcomes[w]) \in Nat
      /\ outcomes'[w][last] = o
      /\ \A n \in 1 .. Len(outcomes[w]) : outcomes'[w][n] = outcomes[w][n]
  BY OutcomeTypes
<1>2. o # Unchanged
  BY DEF Unchanged
<1>3. Written(w)' = Written(w) \cup {last}
  BY <1>1, <1>2 DEF Written
<1>4. \A n \in Written(w) : n \in Nat /\ n < last /\ outcomes'[w][n] = outcomes[w][n]
  BY <1>1 DEF Written
<1>5. request[w].ops[last].id = Op(w).id
  BY DEF Op
<1>6. \A n \in Written(w) : request[w].ops[n].id \in Ids
  <2> SUFFICES ASSUME NEW n \in Written(w) PROVE request[w].ops[n].id \in Ids
    OBVIOUS
  <2>1. n \in 1 .. Len(request[w].ops)
    BY <1>1, OutcomeTypes DEF Written, OutcomeInv, OutcomesWithinRequest
  <2> QED
    BY <2>1, OutcomeTypes
<1>7. ASSUME NEW n \in LastWritten(w)', n # last
      PROVE  n \in LastWritten(w) /\ request[w].ops[n].id \in Ids \ {Op(w).id}
  <2>1. n \in Written(w)
    BY <1>3, <1>7 DEF LastWritten
  <2>2. \A m \in Written(w) \cup {last} :
          m > n => request[w].ops[m].id # request[w].ops[n].id
    BY <1>3 DEF LastWritten
  <2>3. request[w].ops[n].id # Op(w).id
    BY <1>4, <1>5, <2>1, <2>2
  <2> QED
    BY <1>6, <2>1, <2>2, <2>3 DEF LastWritten
<1> HIDE DEF last
<1> QED
  BY <1>1, <1>3, <1>4, <1>5, <1>7 DEF last

-----------------------------------------------------------------------------
(* The steps. *)

\* A step that ends no statement and no transaction.
LEMMA HandlerWhole ==
    ASSUME IInv, WholeInv, lastSeq' \in {lastSeq, lastSeq + 1},
           UNCHANGED <<published, request, outcomes, draft>>,
           \A w \in Writers : taken'[w] \in {taken[w], lastSeq'},
           \A w \in Writers : taken'[w] # taken[w] => lastSeq' = lastSeq + 1,
           \A w \in Writers : pc'[w] # "idle" => pc[w] # "idle",
           \A w \in Writers : pc'[w] = "commit" => pc[w] = "commit" \/ ~MoreOps(w)
    PROVE  WholeInv'
<1> USE Numbers DEF IInv
<1>1. \A w \in Writers : Written(w)' = Written(w) /\ LastWritten(w)' = LastWritten(w)
  BY SameWritten
<1>2. \A w \in Writers : \A n \in Written(w) : outcomes[w][n].seq \in Nat
  BY WrittenHasPosition DEF Written
<1>3. OutcomesOwn'
  <2> SUFFICES ASSUME NEW w \in Writers, NEW n \in Written(w)
               PROVE  /\ outcomes[w][n].seq <= lastSeq'
                      /\ pc'[w] # "idle" => outcomes[w][n].seq \notin published
                      /\ \A v \in Writers : outcomes[w][n].seq # taken'[v]
                      /\ \A v \in Writers \ {w} : \A i \in Ids :
                           outcomes[w][n].seq # draft[v][i].seq
    BY <1>1 DEF OutcomesOwn
  <2> QED
    BY <1>2 DEF WholeInv, OutcomesOwn
<1>4. LastDrafted' /\ CommitComplete' /\ BatchIsWhole'
  BY <1>1 DEF WholeInv, LastDrafted, CommitComplete, BatchIsWhole, MoreOps
<1> QED
  BY <1>3, <1>4 DEF WholeInv

\* A new request has written nothing.
LEMMA BeginWhole ==
    ASSUME IInv, WholeInv, NEW w \in Writers, Begin(w)
    PROVE  WholeInv'
<1>1. PICK r \in Requests :
        /\ pc' = [pc EXCEPT ![w] = "ready"]
        /\ request' = [request EXCEPT ![w] = r]
        /\ outcomes' = [outcomes EXCEPT ![w] = << >>]
        /\ UNCHANGED <<lastSeq, published, draft, taken>>
  BY DEF Begin
<1>2. r.auto => Len(r.ops) = 1
  BY RequestsAssumption
<1>3. /\ pc'[w] = "ready" /\ request'[w] = r /\ outcomes'[w] = << >>
      /\ \A v \in Writers \ {w} :
           pc'[v] = pc[v] /\ request'[v] = request[v] /\ outcomes'[v] = outcomes[v]
  BY <1>1 DEF IInv, TypeInv, TypeOK
<1>4. Written(w)' = {} /\ LastWritten(w)' = {}
  BY <1>3 DEF Written, LastWritten
<1>5. \A v \in Writers \ {w} : Written(v)' = Written(v) /\ LastWritten(v)' = LastWritten(v)
  BY <1>3, SameWritten
<1>6. OutcomesOwn'
  BY <1>1, <1>3, <1>4, <1>5 DEF WholeInv, OutcomesOwn
<1>7. LastDrafted' /\ BatchIsWhole'
  BY <1>1, <1>3, <1>4, <1>5 DEF WholeInv, LastDrafted, BatchIsWhole, MoreOps
<1>8. CommitComplete'
  BY <1>2, <1>3 DEF WholeInv, CommitComplete, MoreOps
<1> QED
  BY <1>6, <1>7, <1>8 DEF WholeInv

\* The end of a statement completes the one request that commits with it.
LEMMA EndStatementWhole ==
    ASSUME IInv, OutcomeInv, WholeInv, NEW w \in Writers, MoreOps(w), NEW o \in Outcomes,
           EndStatement(w, o), UNCHANGED <<request, answer>>
    PROVE  /\ CommitComplete'
           /\ outcomes'[w] = Append(outcomes[w], o)
           /\ taken'[w] = 0 /\ pc'[w] # "idle"
           /\ \A v \in Writers \ {w} :
                /\ pc'[v] = pc[v] /\ taken'[v] = taken[v] /\ outcomes'[v] = outcomes[v]
                /\ Written(v)' = Written(v) /\ LastWritten(v)' = LastWritten(v)
<1>1. /\ outcomes'[w] = Append(outcomes[w], o)
      /\ taken'[w] = 0 /\ pc'[w] # "idle"
      /\ \A v \in Writers \ {w} :
           pc'[v] = pc[v] /\ taken'[v] = taken[v] /\ outcomes'[v] = outcomes[v]
  BY EndStatementOutcome
<1>2. pc'[w] = "commit" => request[w].auto
  BY DEF EndStatement, IInv, TypeInv, TypeOK
<1>3. Len(outcomes[w]) \in Nat /\ Len(outcomes'[w]) = Len(outcomes[w]) + 1
  BY <1>1, OutcomeTypes DEF IInv
<1>4. pc'[w] = "commit" => ~MoreOps(w)'
  <2> SUFFICES ASSUME pc'[w] = "commit" PROVE ~(Len(outcomes'[w]) < Len(request[w].ops))
    BY DEF MoreOps
  <2>1. Len(request[w].ops) = 1
    BY <1>2 DEF WholeInv, CommitComplete
  <2> QED
    BY <1>3, <2>1
<1>5. CommitComplete'
  BY <1>1, <1>4 DEF WholeInv, CommitComplete, MoreOps
<1> QED
  BY <1>1, <1>5, SameWritten

\* A statement ends without a write.
LEMMA LeavingWhole ==
    ASSUME IInv, OutcomeInv, WholeInv, NEW w \in Writers,
           UpsertUnchanged(w) \/ DeleteOvertaken(w) \/ DeleteMisses(w)
    PROVE  WholeInv'
<1>1. /\ MoreOps(w) /\ pc[w] # "idle"
      /\ EndStatement(w, Unchanged)
      /\ UNCHANGED <<lastSeq, published, request, draft, answer>>
  BY DEF IInv, TypeInv, StatementInv, InStatement, UpsertUnchanged, DeleteOvertaken,
         DeleteMisses, AtStatement
<1>2. Unchanged \in Outcomes
  BY DEF Unchanged, Outcomes
<1>3. /\ CommitComplete'
      /\ outcomes'[w] = Append(outcomes[w], Unchanged)
      /\ taken'[w] = 0
      /\ \A v \in Writers \ {w} :
           /\ pc'[v] = pc[v] /\ taken'[v] = taken[v] /\ outcomes'[v] = outcomes[v]
           /\ Written(v)' = Written(v) /\ LastWritten(v)' = LastWritten(v)
  BY <1>1, <1>2, EndStatementWhole
<1>4. /\ Written(w)' = Written(w) /\ LastWritten(w)' = LastWritten(w)
      /\ \A n \in Written(w) : outcomes'[w][n] = outcomes[w][n]
  BY <1>1, <1>3, AppendUnchanged DEF IInv
<1>5. \A v \in Writers : \A n \in Written(v) :
        outcomes'[v][n] = outcomes[v][n] /\ outcomes[v][n].seq > 0
  BY <1>3, <1>4, WrittenHasPosition DEF IInv, Written
<1>6. \A v \in Writers : Written(v)' = Written(v) /\ LastWritten(v)' = LastWritten(v)
  BY <1>3, <1>4
<1>7. \A v \in Writers : taken'[v] \in {0, taken[v]} /\ (pc'[v] # "idle" => pc[v] # "idle")
  BY <1>1, <1>3
<1>8. OutcomesOwn'
  BY <1>1, <1>5, <1>6, <1>7 DEF WholeInv, OutcomesOwn
<1>9. LastDrafted'
  BY <1>1, <1>5, <1>6, <1>7 DEF WholeInv, LastDrafted, LastWritten
<1>10. BatchIsWhole'
  <2>1. \A n \in Written(w)' : outcomes'[w][n].seq \notin published'
    BY <1>1, <1>5, <1>6 DEF WholeInv, OutcomesOwn
  <2>2. ASSUME NEW v \in Writers \ {w}
        PROVE  MoreOps(v)' = MoreOps(v)
    BY <1>1, <1>3 DEF MoreOps
  <2> QED
    BY <1>1, <1>3, <1>6, <2>1, <2>2 DEF WholeInv, BatchIsWhole
<1> QED
  BY <1>3, <1>8, <1>9, <1>10 DEF WholeInv

\* A statement ends with a write, at a position no other writer has.
LEMMA WritingWhole ==
    ASSUME IInv, OutcomeInv, WholeInv, NEW w \in Writers,
           \/ UpsertInserts(w) \/ UpsertReplaces(w)
           \/ DeleteTombstones(w) \/ DeleteRechecks(w)
    PROVE  WholeInv'
<1> USE Numbers DEF IInv
<1> DEFINE last == Len(outcomes[w]) + 1
<1>1. /\ MoreOps(w) /\ taken[w] > 0 /\ pc[w] # "idle"
      /\ UNCHANGED <<table, published, request, answer>>
      /\ lastSeq' \in {lastSeq, lastSeq + 1}
  BY DEF TypeInv, StatementInv, InStatement, UpsertInserts, UpsertReplaces,
         DeleteTombstones, DeleteRechecks, NextVal
<1>2. Op(w).id \in Ids
  BY <1>1, OpType DEF TypeInv
<1>2a. PICK s \in Nat :
        /\ s = taken[w] \/ (s = lastSeq + 1 /\ lastSeq' = lastSeq + 1)
        /\ \E result \in {"stored", "tombstoned"} :
           \E row \in {StoredRow(w, s), Tombstone(s)} :
             Write(w, row) /\ EndStatement(w, [result |-> result, seq |-> s])
  BY DEF UpsertInserts, UpsertReplaces, DeleteTombstones, DeleteRechecks, NextVal
<1>3. PICK result \in {"stored", "tombstoned"}, row \in {StoredRow(w, s), Tombstone(s)} :
        Write(w, row) /\ EndStatement(w, [result |-> result, seq |-> s])
  BY <1>2a
<1> DEFINE o == [result |-> result, seq |-> s]
<1>4. s > 0 /\ s <= lastSeq' /\ s \notin published
  BY <1>1, <1>2a DEF PositionInv, TakenFresh, Drawn
<1>5. /\ \A v \in Writers : \A i \in Ids : draft[v][i].seq # s
      /\ \A v \in Writers \ {w} : taken[v] # s
  BY <1>1, <1>2a DEF PositionInv, TakenFresh, DraftsFresh, Exists
<1>6. o \in Outcomes /\ o.seq = s
  BY <1>4 DEF Outcomes
<1>7. row.seq = s
  BY <1>3 DEF StoredRow, Tombstone
<1>8. /\ draft'[w][Op(w).id].seq = s
      /\ \A v \in Writers \ {w} : draft'[v] = draft[v]
      /\ \A i \in Ids \ {Op(w).id} : draft'[w][i] = draft[w][i]
  BY <1>2, <1>3, <1>7 DEF Write, TypeInv, TypeOK
<1>9. EndStatement(w, o)
  BY <1>3
<1> HIDE DEF o, IInv
<1>10. /\ CommitComplete'
       /\ outcomes'[w] = Append(outcomes[w], o)
       /\ taken'[w] = 0 /\ pc'[w] # "idle"
       /\ \A v \in Writers \ {w} :
            /\ pc'[v] = pc[v] /\ taken'[v] = taken[v] /\ outcomes'[v] = outcomes[v]
            /\ Written(v)' = Written(v) /\ LastWritten(v)' = LastWritten(v)
  BY <1>1, <1>6, <1>9, EndStatementWhole
<1>11. /\ outcomes'[w][last] = o
       /\ Written(w)' = Written(w) \cup {last}
       /\ \A n \in Written(w) : outcomes'[w][n] = outcomes[w][n]
       /\ request[w].ops[last].id = Op(w).id
       /\ \A n \in LastWritten(w)' : n = last \/
            (n \in LastWritten(w) /\ request[w].ops[n].id \in Ids \ {Op(w).id})
  BY <1>1, <1>4, <1>6, <1>10, AppendWritten DEF IInv
<1> HIDE DEF last
<1>12. \A v \in Writers : \A n \in Written(v) :
         /\ outcomes[v][n].seq \in Nat /\ outcomes[v][n].seq > 0
         /\ outcomes[v][n].seq <= lastSeq
         /\ outcomes[v][n].seq # taken[v] /\ outcomes[v][n].seq # taken[w]
  BY WrittenHasPosition DEF IInv, WholeInv, OutcomesOwn, Written
<1>13. lastSeq \in Nat
  BY DEF IInv
<1>14. OutcomesOwn'
  <2>1. ASSUME NEW v \in Writers, NEW n \in Written(v)'
        PROVE  /\ outcomes'[v][n].seq <= lastSeq'
               /\ pc'[v] # "idle" => outcomes'[v][n].seq \notin published'
               /\ \A u \in Writers : outcomes'[v][n].seq # taken'[u]
               /\ \A u \in Writers \ {v} : \A i \in Ids : outcomes'[v][n].seq # draft'[u][i].seq
    <3>1. CASE v = w /\ n = last
      <4>1. outcomes'[v][n].seq = s
        BY <1>6, <1>11, <3>1
      <4>2. \A u \in Writers : s # taken'[u]
        BY <1>4, <1>5, <1>10
      <4>3. \A u \in Writers \ {v} : \A i \in Ids : s # draft'[u][i].seq
        BY <1>5, <1>8, <3>1
      <4> QED
        BY <1>1, <1>4, <4>1, <4>2, <4>3
    <3>2. CASE v = w /\ n # last
      <4>1. n \in Written(w) /\ outcomes'[w][n] = outcomes[w][n]
        BY <1>11, <2>1, <3>2
      <4>2. outcomes[w][n].seq <= lastSeq'
        BY <1>1, <1>12, <1>13, <4>1
      <4>3. \A u \in Writers : outcomes[w][n].seq # taken'[u]
        BY <1>10, <1>12, <4>1 DEF WholeInv, OutcomesOwn
      <4>4. \A u \in Writers \ {w} : \A i \in Ids : outcomes[w][n].seq # draft'[u][i].seq
        BY <1>8, <4>1 DEF WholeInv, OutcomesOwn
      <4>5. outcomes[w][n].seq \notin published'
        BY <1>1, <4>1 DEF WholeInv, OutcomesOwn
      <4> QED
        BY <3>2, <4>1, <4>2, <4>3, <4>4, <4>5
    <3>3. CASE v # w
      <4>1. n \in Written(v) /\ outcomes'[v][n] = outcomes[v][n]
        BY <1>10, <2>1, <3>3
      <4>2. outcomes[v][n].seq # s
        BY <1>2a, <1>12, <1>13, <4>1
      <4>3. \A i \in Ids : outcomes[v][n].seq # draft'[w][i].seq
        BY <1>8, <3>3, <4>1, <4>2 DEF WholeInv, OutcomesOwn
      <4> QED
        BY <1>1, <1>8, <1>10, <1>12, <1>13, <3>3, <4>1, <4>3 DEF WholeInv, OutcomesOwn
    <3> QED
      BY <3>1, <3>2, <3>3
  <2> QED
    BY <2>1 DEF OutcomesOwn
<1>15. LastDrafted'
  <2>1. ASSUME NEW n \in LastWritten(w)'
        PROVE  draft'[w][request'[w].ops[n].id].seq = outcomes'[w][n].seq
    <3>1. CASE n = last
      BY <1>1, <1>6, <1>8, <1>11, <3>1
    <3>2. CASE n # last
      <4>1. n \in LastWritten(w) /\ request[w].ops[n].id \in Ids \ {Op(w).id}
        BY <1>11, <2>1, <3>2
      <4>2. outcomes'[w][n] = outcomes[w][n]
        BY <1>11, <4>1 DEF LastWritten
      <4> QED
        BY <1>1, <1>8, <4>1, <4>2 DEF WholeInv, LastDrafted
    <3> QED
      BY <3>1, <3>2
  <2>2. ASSUME NEW v \in Writers \ {w}, pc'[v] # "idle", NEW n \in LastWritten(v)'
        PROVE  draft'[v][request'[v].ops[n].id].seq = outcomes'[v][n].seq
    BY <1>1, <1>8, <1>10, <2>2 DEF WholeInv, LastDrafted
  <2> QED
    BY <2>1, <2>2 DEF LastDrafted
<1>16. BatchIsWhole'
  <2>1. \A n \in Written(w)' : outcomes'[w][n].seq \notin published'
    BY <1>10, <1>14 DEF OutcomesOwn
  <2>2. \A v \in Writers \ {w} : MoreOps(v)' = MoreOps(v)
    BY <1>1, <1>10 DEF MoreOps
  <2> QED
    BY <1>1, <1>10, <2>1, <2>2 DEF WholeInv, BatchIsWhole
<1> QED
  BY <1>10, <1>14, <1>15, <1>16 DEF WholeInv

\* The end of a transaction: what was written is what it was, and of the other
\* writers nothing changes.
LEMMA ReleaseWhole ==
    ASSUME IInv, WholeInv, NEW w \in Writers, Release(w),
           UNCHANGED <<lastSeq, request, outcomes>>
    PROVE  /\ pc'[w] = "idle"
           /\ \A v \in Writers \ {w} : pc'[v] = pc[v] /\ draft'[v] = draft[v]
           /\ \A v \in Writers : \A n \in Written(v)' :
                /\ n \in Written(v)
                /\ outcomes[v][n].seq <= lastSeq
                /\ \A u \in Writers : outcomes[v][n].seq # taken'[u]
                /\ \A u \in Writers \ {v} : \A i \in Ids : outcomes[v][n].seq # draft'[u][i].seq
           /\ LastDrafted' /\ CommitComplete'
<1>1. /\ pc'[w] = "idle" /\ taken'[w] = 0
      /\ \A i \in Ids : draft'[w][i] = NoRow
      /\ \A v \in Writers \ {w} :
           pc'[v] = pc[v] /\ taken'[v] = taken[v] /\ draft'[v] = draft[v]
  BY ReleasePosition DEF IInv, Release, TypeInv, TypeOK
<1>2. \A v \in Writers : Written(v)' = Written(v) /\ LastWritten(v)' = LastWritten(v)
  BY SameWritten
<1>3. \A v \in Writers : \A n \in Written(v) : outcomes[v][n].seq > 0
  BY WrittenHasPosition DEF IInv, Written
<1>4. LastDrafted' /\ CommitComplete'
  BY <1>1, <1>2 DEF WholeInv, LastDrafted, CommitComplete, MoreOps
<1> QED
  BY <1>1, <1>2, <1>3, <1>4 DEF WholeInv, OutcomesOwn, NoRow

\* A commit publishes what its transaction reports, all of it, and nothing
\* that another one reports.
LEMMA CommitWhole ==
    ASSUME IInv, OutcomeInv, WholeInv, NEW w \in Writers, Commit(w)
    PROVE  WholeInv'
<1>1. /\ Release(w) /\ UNCHANGED <<lastSeq, request, outcomes>>
      /\ pc[w] = "commit"
      /\ published' = published \cup {draft[w][i].seq : i \in {j \in Ids : Exists(draft[w][j])}}
  BY DEF Commit
<1>2. /\ pc'[w] = "idle"
      /\ \A v \in Writers \ {w} : pc'[v] = pc[v] /\ draft'[v] = draft[v]
      /\ \A v \in Writers : \A n \in Written(v)' :
           /\ n \in Written(v)
           /\ outcomes[v][n].seq <= lastSeq
           /\ \A u \in Writers : outcomes[v][n].seq # taken'[u]
           /\ \A u \in Writers \ {v} : \A i \in Ids : outcomes[v][n].seq # draft'[u][i].seq
      /\ LastDrafted' /\ CommitComplete'
  BY <1>1, ReleaseWhole
<1>3. \A v \in Writers \ {w} : \A n \in Written(v) :
        outcomes[v][n].seq \in published' <=> outcomes[v][n].seq \in published
  BY <1>1 DEF WholeInv, OutcomesOwn
<1>4. OutcomesOwn'
  BY <1>1, <1>2, <1>3 DEF WholeInv, OutcomesOwn
<1>5. \A v \in Writers : Written(v)' = Written(v) /\ LastWritten(v)' = LastWritten(v)
  BY <1>1, SameWritten
<1>6. \A n \in LastWritten(w) : outcomes[w][n].seq \in published'
  <2> SUFFICES ASSUME NEW n \in LastWritten(w) PROVE outcomes[w][n].seq \in published'
    OBVIOUS
  <2>1. n \in DOMAIN outcomes[w] /\ outcomes[w][n].seq > 0
    BY WrittenHasPosition DEF IInv, LastWritten, Written
  <2>2. request[w].ops[n].id \in Ids
    BY <2>1, OutcomeTypes DEF IInv, OutcomeInv, OutcomesWithinRequest
  <2>3. draft[w][request[w].ops[n].id].seq = outcomes[w][n].seq
    BY <1>1 DEF WholeInv, LastDrafted
  <2> QED
    BY <1>1, <2>1, <2>2, <2>3 DEF Exists
<1>7. ~MoreOps(w)'
  BY <1>1 DEF WholeInv, CommitComplete, MoreOps
<1>8. BatchIsWhole'
  <2>1. \A v \in Writers \ {w} : MoreOps(v)' = MoreOps(v)
    BY <1>1 DEF MoreOps
  <2> QED
    BY <1>1, <1>3, <1>5, <1>6, <1>7, <2>1 DEF WholeInv, BatchIsWhole, LastWritten
<1> QED
  BY <1>2, <1>4, <1>8 DEF WholeInv

\* A rollback publishes nothing.
LEMMA AbortWhole ==
    ASSUME IInv, OutcomeInv, WholeInv, NEW w \in Writers, Abort(w)
    PROVE  WholeInv'
<1>1. Release(w) /\ UNCHANGED <<lastSeq, published, request, outcomes>>
  BY DEF Abort
<1>2. /\ pc'[w] = "idle"
      /\ \A v \in Writers \ {w} : pc'[v] = pc[v] /\ draft'[v] = draft[v]
      /\ \A v \in Writers : \A n \in Written(v)' :
           /\ n \in Written(v)
           /\ outcomes[v][n].seq <= lastSeq
           /\ \A u \in Writers : outcomes[v][n].seq # taken'[u]
           /\ \A u \in Writers \ {v} : \A i \in Ids : outcomes[v][n].seq # draft'[u][i].seq
      /\ LastDrafted' /\ CommitComplete'
  BY <1>1, ReleaseWhole
<1>3. OutcomesOwn'
  BY <1>1, <1>2 DEF WholeInv, OutcomesOwn
<1>4. BatchIsWhole'
  BY <1>1, SameWritten DEF WholeInv, BatchIsWhole, MoreOps
<1> QED
  BY <1>2, <1>3, <1>4 DEF WholeInv

LEMMA WholeStep == IInv /\ OutcomeInv /\ WholeInv /\ [Next]_vars => WholeInv'
<1> SUFFICES ASSUME IInv, OutcomeInv, WholeInv, [Next]_vars PROVE WholeInv'
  OBVIOUS
<1>1. CASE UNCHANGED vars
  BY <1>1, HandlerWhole DEF vars
<1>2. ASSUME NEW w \in Writers,
             \/ Begin(w) \/ Advance(w) \/ RequestTimesOut(w)
             \/ StoreFails(w) \/ DeadlockDetected(w)
      PROVE  WholeInv'
  <2>1. CASE Begin(w)
    BY <2>1, BeginWhole
  <2>2. CASE StartUpsert(w) \/ StartDelete(w)
    <3>1. /\ lastSeq' = lastSeq + 1
          /\ UNCHANGED <<published, request, outcomes, draft>>
          /\ \A v \in Writers : taken'[v] \in {taken[v], lastSeq'}
          /\ pc[w] = "ready" /\ pc'[w] # "commit"
          /\ \A v \in Writers \ {w} : pc'[v] = pc[v]
      BY <2>2 DEF StartUpsert, StartDelete, AtStatement, NextVal, IInv, TypeInv, TypeOK
    <3> QED
      BY <3>1, HandlerWhole
  <2>3. CASE SendCommit(w) \/ RequestTimesOut(w)
    <3>1. /\ UNCHANGED <<lastSeq, published, request, outcomes, draft, taken>>
          /\ pc[w] # "idle" /\ (pc'[w] = "commit" => pc[w] = "commit" \/ ~MoreOps(w))
          /\ \A v \in Writers \ {w} : pc'[v] = pc[v]
      BY <2>3 DEF SendCommit, RequestTimesOut, IInv, TypeInv, TypeOK
    <3> QED
      BY <3>1, HandlerWhole
  <2>4. CASE UpsertInserts(w) \/ UpsertReplaces(w) \/ DeleteTombstones(w) \/ DeleteRechecks(w)
    BY <2>4, WritingWhole
  <2>5. CASE UpsertUnchanged(w) \/ DeleteOvertaken(w) \/ DeleteMisses(w)
    BY <2>5, LeavingWhole
  <2>6. CASE Commit(w)
    BY <2>6, CommitWhole
  <2>7. CASE Rollback(w) \/ StoreFails(w) \/ DeadlockDetected(w)
    BY <2>7, AbortWhole DEF Rollback, StoreFails, DeadlockDetected
  <2> QED
    BY <1>2, <2>1, <2>2, <2>3, <2>4, <2>5, <2>6, <2>7 DEF Advance, Upsert, Delete
<1> QED
  BY <1>1, <1>2 DEF Next, Quiescent

\* A batch takes effect as a whole or not at all, however its request ended.
THEOREM BatchesAreWhole == Spec => []BatchIsWhole
<1>1. Init => OutcomeInv /\ WholeInv
  BY OutcomeInit, WholeInit
<1>2. IInv /\ OutcomeInv /\ WholeInv /\ [Next]_vars => OutcomeInv' /\ WholeInv'
  BY OutcomeStep, WholeStep
<1>3. WholeInv => BatchIsWhole
  BY DEF WholeInv
<1> QED
  BY <1>1, <1>2, <1>3, Invariance, PTL DEF Spec

-----------------------------------------------------------------------------
(* Effect: until its transaction ends, the last operation of an id finds   *)
(* the row as it left it, or as it found it and holds it.                  *)

\* Of the operations of w's request that went through, the last of each id.
LastDone(w) ==
    {n \in DOMAIN outcomes[w] :
        \A m \in DOMAIN outcomes[w] : m > n => request[w].ops[m].id # request[w].ops[n].id}

\* The row of an id as the transaction of w sees it.
Own(w, i) == IF Exists(draft[w][i]) THEN draft[w][i] ELSE table[i]

\* What the operation n of w's request left.
Took(w, n) ==
    LET op == request[w].ops[n] IN
    /\ op.kind = "upsert" =>
         /\ op.id \in locks[w]
         /\ Live(Own(w, op.id)) /\ Own(w, op.id).payload = op.payload
    /\ outcomes[w][n].result = "tombstoned" =>
         Exists(draft[w][op.id]) /\ draft[w][op.id].deleted

EffectInv == \A w \in Writers : pc[w] # "idle" => \A n \in LastDone(w) : Took(w, n)

LEMMA EffectInit == Init => EffectInv
BY DEF Init, EffectInv

\* The ids of the operations that went through.
LEMMA DoneIds ==
    ASSUME IInv, OutcomeInv, NEW w \in Writers, NEW n \in DOMAIN outcomes[w]
    PROVE  n \in 1 .. Len(request[w].ops) /\ request[w].ops[n].id \in Ids
BY OutcomeTypes DEF IInv, OutcomeInv, OutcomesWithinRequest

\* A step of other transactions, or of none: what w locked is not written.
LEMMA EffectKept ==
    ASSUME IInv, OutcomeInv, EffectInv, NEW w \in Writers, pc[w] # "idle",
           request'[w] = request[w], outcomes'[w] = outcomes[w],
           draft'[w] = draft[w], locks[w] \subseteq locks'[w],
           \A i \in locks[w] : table'[i] = table[i]
    PROVE  \A n \in LastDone(w)' : Took(w, n)'
<1> SUFFICES ASSUME NEW n \in LastDone(w) PROVE Took(w, n)'
  BY DEF LastDone
<1>1. Took(w, n)
  BY DEF EffectInv
<1> QED
  BY <1>1 DEF Took, Own

\* A statement of w ends; what it leaves is what its operation asked for.
LEMMA EffectAppended ==
    ASSUME IInv, OutcomeInv, EffectInv, NEW w \in Writers, MoreOps(w), pc[w] # "idle",
           NEW o \in Outcomes, EndStatement(w, o),
           UNCHANGED <<table, request, answer>>,
           \A v \in Writers \ {w} : draft'[v] = draft[v],
           \A i \in Ids \ {Op(w).id} : draft'[w][i] = draft[w][i],
           \A v \in Writers : locks[v] \subseteq locks'[v],
           Op(w).kind = "upsert" =>
             /\ Op(w).id \in locks'[w]
             /\ LET row == IF Exists(draft'[w][Op(w).id]) THEN draft'[w][Op(w).id]
                                                          ELSE table[Op(w).id]
                IN  Live(row) /\ row.payload = Op(w).payload,
           o.result = "tombstoned" =>
             Exists(draft'[w][Op(w).id]) /\ draft'[w][Op(w).id].deleted
    PROVE  EffectInv'
<1> PICK last \in Nat : last = Len(outcomes[w]) + 1
  BY OutcomeTypes DEF IInv
<1> PICK i \in Ids : i = Op(w).id
  BY OpType DEF IInv, TypeInv
<1>1. /\ outcomes'[w] = Append(outcomes[w], o)
      /\ \A v \in Writers \ {w} : pc'[v] = pc[v] /\ outcomes'[v] = outcomes[v]
  BY EndStatementOutcome
<1>2. /\ DOMAIN outcomes'[w] = 1 .. last /\ DOMAIN outcomes[w] = 1 .. Len(outcomes[w])
      /\ Len(outcomes[w]) \in Nat /\ outcomes'[w][last] = o
      /\ \A n \in DOMAIN outcomes[w] : outcomes'[w][n] = outcomes[w][n]
  BY <1>1, OutcomeTypes DEF IInv
<1>3. request[w].ops[last] = Op(w)
  BY DEF Op
<1>4. Took(w, last)'
  <2>1. request'[w].ops[last] = Op(w) /\ table' = table
    BY <1>3
  <2>2. outcomes'[w][last].result = o.result
    BY <1>2
  <2>3. Own(w, i)' = IF Exists(draft'[w][i]) THEN draft'[w][i] ELSE table[i]
    BY <2>1 DEF Own
  <2> QED
    BY <2>1, <2>2, <2>3 DEF Took
<1>5. ASSUME NEW n \in LastDone(w)', n # last
      PROVE  Took(w, n)'
  <2>1. n \in DOMAIN outcomes[w] /\ n \in LastDone(w)
    BY <1>2, <1>5 DEF LastDone
  <2>2. request[w].ops[n].id # Op(w).id
    BY <1>2, <1>3, <1>5, <2>1 DEF LastDone
  <2>3. request[w].ops[n].id \in Ids
    BY <2>1, DoneIds
  <2>4. Took(w, n)
    BY <2>1 DEF EffectInv
  <2> QED
    BY <1>2, <2>1, <2>2, <2>3, <2>4 DEF Took, Own
<1>6. ASSUME NEW v \in Writers \ {w}, pc'[v] # "idle"
      PROVE  \A n \in LastDone(v)' : Took(v, n)'
  <2>1. pc[v] # "idle" /\ request'[v] = request[v] /\ outcomes'[v] = outcomes[v]
    BY <1>1, <1>6
  <2>2. draft'[v] = draft[v] /\ locks[v] \subseteq locks'[v] /\ table' = table
    OBVIOUS
  <2> QED
    BY <2>1, <2>2, EffectKept
<1>7. \A n \in LastDone(w)' : Took(w, n)'
  BY <1>4, <1>5
<1> QED
  BY <1>6, <1>7 DEF EffectInv

\* A statement writes its row.
LEMMA WritingEffect ==
    ASSUME IInv, OutcomeInv, EffectInv, NEW w \in Writers,
           \/ UpsertInserts(w) \/ UpsertReplaces(w)
           \/ DeleteTombstones(w) \/ DeleteRechecks(w)
    PROVE  EffectInv'
<1>1. /\ MoreOps(w) /\ taken[w] > 0 /\ pc[w] # "idle" /\ RowFree(w) /\ Lock(w)
      /\ UNCHANGED <<table, request, answer>>
  BY DEF IInv, TypeInv, StatementInv, InStatement, UpsertInserts, UpsertReplaces,
         DeleteTombstones, DeleteRechecks
<1>2. Op(w).id \in Ids
  BY <1>1, OpType DEF IInv, TypeInv
<1> DEFINE Row(result, s) == IF result = "stored" THEN StoredRow(w, s) ELSE Tombstone(s)
<1>3. PICK s \in {taken[w], lastSeq + 1}, result \in {"stored", "tombstoned"} :
        /\ Write(w, Row(result, s)) /\ EndStatement(w, [result |-> result, seq |-> s])
        /\ Op(w).kind = "upsert" => result = "stored"
  <2>1. CASE UpsertInserts(w) \/ UpsertReplaces(w)
    BY <2>1 DEF UpsertInserts, UpsertReplaces, NextVal
  <2>2. CASE DeleteTombstones(w) \/ DeleteRechecks(w)
    <3>1. Op(w).kind # "upsert"
      BY <2>2 DEF DeleteTombstones, DeleteRechecks, IInv, TypeInv, StatementInv, InStatement
    <3> QED
      BY <2>2, <3>1 DEF DeleteTombstones, DeleteRechecks, NextVal
  <2> QED
    BY <2>1, <2>2
<1>4. s \in Nat \ {0}
  BY <1>1, <1>3, Numbers DEF IInv
<1> DEFINE row == Row(result, s)
<1>5. row.seq = s
  BY DEF StoredRow, Tombstone
<1>6. /\ draft'[w][Op(w).id] = row
      /\ \A v \in Writers \ {w} : draft'[v] = draft[v]
      /\ \A i \in Ids \ {Op(w).id} : draft'[w][i] = draft[w][i]
  BY <1>2, <1>3 DEF Write, IInv, TypeInv, TypeOK
<1>7. Exists(row)
  BY <1>4, <1>5 DEF Exists
<1>8. [result |-> result, seq |-> s] \in Outcomes
  BY <1>4 DEF Outcomes
<1>9. (\A v \in Writers : locks[v] \subseteq locks'[v]) /\ Op(w).id \in locks'[w]
  BY <1>1, LockExclusive
<1>10. Op(w).kind = "upsert" => Live(row) /\ row.payload = Op(w).payload
  BY <1>3, <1>7 DEF StoredRow, Live
<1>11. result = "tombstoned" => row.deleted
  BY DEF Tombstone
<1> HIDE DEF row
<1> QED
  BY <1>1, <1>3, <1>6, <1>7, <1>8, <1>9, <1>10, <1>11, EffectAppended

\* A statement ends without a write: an upsert has found its payload, and locked it.
LEMMA LeavingEffect ==
    ASSUME IInv, OutcomeInv, EffectInv, NEW w \in Writers,
           UpsertUnchanged(w) \/ DeleteOvertaken(w) \/ DeleteMisses(w)
    PROVE  EffectInv'
<1>1. /\ MoreOps(w) /\ pc[w] # "idle" /\ EndStatement(w, Unchanged)
      /\ (RowFree(w) /\ Lock(w)) \/ UNCHANGED locks
      /\ UNCHANGED <<table, request, draft, answer>>
  BY DEF IInv, TypeInv, StatementInv, InStatement, UpsertUnchanged, DeleteOvertaken,
         DeleteMisses, AtStatement
<1>2. Unchanged \in Outcomes /\ Unchanged.result # "tombstoned"
  BY DEF Unchanged, Outcomes
<1>3. \A v \in Writers : locks[v] \subseteq locks'[v]
  BY <1>1, LockExclusive
<1>4. Op(w).kind = "upsert" =>
        /\ Op(w).id \in locks'[w]
        /\ Live(Current(w)) /\ Current(w).payload = Op(w).payload
  <2>1. CASE UpsertUnchanged(w)
    BY <1>1, <2>1, LockExclusive DEF UpsertUnchanged
  <2>2. CASE DeleteOvertaken(w) \/ DeleteMisses(w)
    BY <2>2 DEF DeleteOvertaken, DeleteMisses, AtStatement, IInv, TypeInv, StatementInv,
                InStatement
  <2> QED
    BY <2>1, <2>2
<1> QED
  BY <1>1, <1>2, <1>3, <1>4, EffectAppended DEF Current

\* A commit writes no row that another transaction has locked.
LEMMA CommitEffect ==
    ASSUME IInv, OutcomeInv, EffectInv, NEW w \in Writers, Commit(w)
    PROVE  EffectInv'
<1>1. /\ Release(w) /\ UNCHANGED <<request, outcomes>>
      /\ \A i \in Ids : table'[i] = IF Exists(draft[w][i]) THEN draft[w][i] ELSE table[i]
  BY DEF Commit
<1>2. /\ pc'[w] = "idle"
      /\ \A v \in Writers \ {w} :
           pc'[v] = pc[v] /\ draft'[v] = draft[v] /\ locks'[v] = locks[v]
  BY <1>1 DEF Release, IInv, TypeInv, TypeOK
<1> SUFFICES ASSUME NEW v \in Writers \ {w}, pc'[v] # "idle"
             PROVE  \A n \in LastDone(v)' : Took(v, n)'
  BY <1>2 DEF EffectInv
<1>3. \A i \in locks[v] : i \in Ids
  BY DEF IInv, TypeInv, TypeOK
<1>4. \A i \in locks[v] : table'[i] = table[i]
  BY <1>1, <1>3 DEF IInv, PositionInv, LockInv
<1> QED
  BY <1>1, <1>2, <1>4, EffectKept

LEMMA AbortEffect ==
    ASSUME IInv, OutcomeInv, EffectInv, NEW w \in Writers, Abort(w)
    PROVE  EffectInv'
<1>1. Release(w) /\ UNCHANGED <<table, request, outcomes>>
  BY DEF Abort
<1>2. /\ pc'[w] = "idle"
      /\ \A v \in Writers \ {w} :
           pc'[v] = pc[v] /\ draft'[v] = draft[v] /\ locks'[v] = locks[v]
  BY <1>1 DEF Release, IInv, TypeInv, TypeOK
<1>3. \A v \in Writers \ {w} : pc'[v] # "idle" => \A n \in LastDone(v)' : Took(v, n)'
  BY <1>1, <1>2, EffectKept
<1> QED
  BY <1>2, <1>3 DEF EffectInv

\* A request begins with no operation done; the other steps do none.
LEMMA BeginEffect ==
    ASSUME IInv, OutcomeInv, EffectInv, NEW w \in Writers, Begin(w)
    PROVE  EffectInv'
<1>1. /\ outcomes'[w] = << >> /\ UNCHANGED <<table, draft, locks>>
      /\ \A v \in Writers \ {w} :
           pc'[v] = pc[v] /\ request'[v] = request[v] /\ outcomes'[v] = outcomes[v]
  BY DEF Begin, IInv, TypeInv, TypeOK
<1>2. \A n \in LastDone(w)' : Took(w, n)'
  BY <1>1 DEF LastDone
<1>3. \A v \in Writers \ {w} : pc'[v] # "idle" => \A n \in LastDone(v)' : Took(v, n)'
  BY <1>1, EffectKept
<1> QED
  BY <1>2, <1>3 DEF EffectInv

LEMMA OtherEffect ==
    ASSUME IInv, OutcomeInv, EffectInv, UNCHANGED <<table, request, outcomes, draft, locks>>,
           \A w \in Writers : pc'[w] # "idle" => pc[w] # "idle"
    PROVE  EffectInv'
<1>1. \A v \in Writers : pc'[v] # "idle" => \A n \in LastDone(v)' : Took(v, n)'
  BY EffectKept
<1> QED
  BY <1>1 DEF EffectInv

LEMMA EffectStep == IInv /\ OutcomeInv /\ EffectInv /\ [Next]_vars => EffectInv'
<1> SUFFICES ASSUME IInv, OutcomeInv, EffectInv, [Next]_vars PROVE EffectInv'
  OBVIOUS
<1>1. CASE UNCHANGED vars
  BY <1>1, OtherEffect DEF vars
<1>2. ASSUME NEW w \in Writers,
             \/ Begin(w) \/ Advance(w) \/ RequestTimesOut(w)
             \/ StoreFails(w) \/ DeadlockDetected(w)
      PROVE  EffectInv'
  <2>1. CASE Begin(w)
    BY <2>1, BeginEffect
  <2>2. CASE StartUpsert(w) \/ StartDelete(w) \/ SendCommit(w) \/ RequestTimesOut(w)
    <3>1. /\ UNCHANGED <<table, request, outcomes, draft, locks>>
          /\ pc[w] # "idle" /\ \A v \in Writers \ {w} : pc'[v] = pc[v]
      BY <2>2 DEF StartUpsert, StartDelete, AtStatement, SendCommit, RequestTimesOut, IInv,
                  TypeInv, TypeOK
    <3> QED
      BY <3>1, OtherEffect
  <2>3. CASE UpsertInserts(w) \/ UpsertReplaces(w) \/ DeleteTombstones(w) \/ DeleteRechecks(w)
    BY <2>3, WritingEffect
  <2>4. CASE UpsertUnchanged(w) \/ DeleteOvertaken(w) \/ DeleteMisses(w)
    BY <2>4, LeavingEffect
  <2>5. CASE Commit(w)
    BY <2>5, CommitEffect
  <2>6. CASE Rollback(w) \/ StoreFails(w) \/ DeadlockDetected(w)
    BY <2>6, AbortEffect DEF Rollback, StoreFails, DeadlockDetected
  <2> QED
    BY <1>2, <2>1, <2>2, <2>3, <2>4, <2>5, <2>6 DEF Advance, Upsert, Delete
<1> QED
  BY <1>1, <1>2 DEF Next, Quiescent

\* Only the commit of a complete request is answered with success.
LEMMA SuccessIsCommit ==
    ASSUME IInv, OutcomeInv, WholeInv, [Next]_vars,
           NEW w \in Writers, answer[w] = "none", answer'[w] = "ok"
    PROVE  Commit(w) /\ DOMAIN outcomes[w] = DOMAIN request[w].ops
<1>1. Commit(w)
  <2>1. PICK v \in Writers : Commit(v) \/ Abort(v) \/ Begin(v) \/ RequestTimesOut(v)
    BY DEF Next, Advance, Upsert, Delete, StartUpsert, UpsertInserts, UpsertReplaces,
           UpsertUnchanged, StartDelete, DeleteMisses, DeleteTombstones, DeleteRechecks,
           DeleteOvertaken, SendCommit, StoreFails, DeadlockDetected, Rollback, Quiescent, vars
  <2>2. v = w
    BY <2>1 DEF Commit, Abort, Begin, RequestTimesOut, IInv, TypeInv, TypeOK
  <2>3. ~Abort(w) /\ ~Begin(w) /\ ~RequestTimesOut(w)
    BY DEF Abort, Begin, RequestTimesOut, Abandoned, IInv, TypeInv, TypeOK
  <2> QED
    BY <2>1, <2>2, <2>3
<1>2. pc[w] = "commit" /\ ~MoreOps(w)
  BY <1>1 DEF Commit, WholeInv, CommitComplete
<1>3. Len(outcomes[w]) = Len(request[w].ops)
  BY <1>2, OutcomeTypes DEF IInv, OutcomeInv, OutcomesWithinRequest, MoreOps
<1>4. DOMAIN request[w].ops = 1 .. Len(request[w].ops)
  BY DEF IInv, TypeInv, TypeOK, RequestType
<1> QED
  BY <1>1, <1>3, <1>4, OutcomeTypes DEF IInv

\* An acknowledged batch has had the effect it asked for at the moment it was
\* committed: for each id the last operation's, also where an upsert had found
\* the payload there already and wrote nothing.
THEOREM AcknowledgedBatchesTakeEffect == Spec => BatchTakesEffect
<1>1. Init => OutcomeInv /\ WholeInv /\ EffectInv
  BY OutcomeInit, WholeInit, EffectInit
<1>2. IInv /\ OutcomeInv /\ WholeInv /\ EffectInv /\ [Next]_vars
        => OutcomeInv' /\ WholeInv' /\ EffectInv'
  BY OutcomeStep, WholeStep, EffectStep
<1>3. ASSUME IInv, OutcomeInv, WholeInv, EffectInv, [Next]_vars
      PROVE  [\A w \in Writers : answer[w] = "none" /\ answer'[w] = "ok" =>
                \A n \in DOMAIN request[w].ops :
                   LET op == request[w].ops[n] IN
                   (\A m \in DOMAIN request[w].ops : m > n => request[w].ops[m].id # op.id) =>
                       /\ op.kind = "upsert" =>
                            Live(table'[op.id]) /\ table'[op.id].payload = op.payload
                       /\ outcomes[w][n].result = "tombstoned" => table'[op.id].deleted]_vars
  <2> SUFFICES ASSUME NEW w \in Writers, answer[w] = "none", answer'[w] = "ok",
                      NEW n \in DOMAIN request[w].ops,
                      \A m \in DOMAIN request[w].ops :
                         m > n => request[w].ops[m].id # request[w].ops[n].id
               PROVE  LET op == request[w].ops[n] IN
                      /\ op.kind = "upsert" =>
                           Live(table'[op.id]) /\ table'[op.id].payload = op.payload
                      /\ outcomes[w][n].result = "tombstoned" => table'[op.id].deleted
    OBVIOUS
  <2>1. Commit(w) /\ DOMAIN outcomes[w] = DOMAIN request[w].ops
    BY <1>3, SuccessIsCommit
  <2>2. n \in LastDone(w)
    BY <2>1 DEF LastDone
  <2>3. Took(w, n)
    BY <1>3, <2>1, <2>2 DEF EffectInv, Commit
  <2>4. request[w].ops[n].id \in Ids
    BY <1>3, <2>1, DoneIds
  <2>5. table'[request[w].ops[n].id] = Own(w, request[w].ops[n].id)
    BY <2>1, <2>4 DEF Commit, Own
  <2> QED
    BY <2>3, <2>5 DEF Took, Own
<1> QED
  BY <1>1, <1>2, <1>3, Invariance, PTL DEF Spec, BatchTakesEffect
=============================================================================
