---------------------------- MODULE RecordStore ----------------------------
(***************************************************************************)
(* The record table of hydrant and the ingest requests that write it       *)
(* (crates/store/src/postgres.rs over migrations/0001_record.sql), for     *)
(* one (source, collection).  A writer is one database connection that     *)
(* serves one ingest request at a time: POST applies a batch in one        *)
(* transaction, DELETE is a single statement that commits itself.          *)
(*                                                                         *)
(* The database is PostgreSQL at READ COMMITTED, which is what the code    *)
(* runs on: each SQL statement is two actions, the one that draws its      *)
(* sequence value and the one that gets the row lock and writes, so that   *)
(* any statement of another transaction may come between.  A payload       *)
(* stands for its content hash.                                            *)
(***************************************************************************)
EXTENDS Integers, Sequences, FiniteSets

CONSTANTS
    Ids,          \* record ids
    Payloads,     \* projected payloads, the empty document among them
    EmptyDoc,     \* {}, the payload of a tombstone
    Writers,      \* database connections serving ingest requests
    Requests,     \* the requests senders make
    MaxRequests   \* bound of the exploration: how many requests are made

ASSUME EmptyDocAssumption == EmptyDoc \in Payloads
ASSUME MaxRequestsAssumption == MaxRequests \in Nat

Ops == [kind : {"upsert"}, id : Ids, payload : Payloads]
         \cup [kind : {"delete"}, id : Ids, payload : {EmptyDoc}]

\* auto: the one operation, a DELETE, is a statement outside a transaction.
RequestType == [auto : BOOLEAN, ops : Seq(Ops)]

ASSUME RequestsAssumption ==
    /\ Requests \subseteq RequestType
    /\ \A r \in Requests : r.auto => Len(r.ops) = 1 /\ r.ops[1].kind = "delete"

VARIABLES
    table,       \* the committed row of every id; seq 0 where there is none
    lastSeq,     \* record_seq: the last value nextval returned
    published,   \* history: every position a committed row ever had
    pc,          \* where each writer is
    request,     \* the request each writer serves
    outcomes,    \* the outcomes of the request's operations so far
    draft,       \* the rows each transaction wrote and has not committed
    locks,       \* the ids each transaction holds the row lock of
    taken,       \* the value the statement in progress drew, 0 without one
    seen,        \* the position of the row version a DELETE found
    answer,      \* what the sender was told about the latest request
    started      \* how many requests were made

vars == <<table, lastSeq, published, pc, request, outcomes, draft, locks,
          taken, seen, answer, started>>

Rows == [seq : Nat, payload : Payloads, deleted : BOOLEAN]
NoRow == [seq |-> 0, payload |-> EmptyDoc, deleted |-> FALSE]
NoRequest == [auto |-> FALSE, ops |-> << >>]

Exists(row) == row.seq > 0
Live(row) == Exists(row) /\ ~row.deleted

Outcomes == [result : {"stored", "tombstoned"}, seq : Nat \ {0}]
              \cup [result : {"unchanged"}, seq : {0}]
Unchanged == [result |-> "unchanged", seq |-> 0]

-----------------------------------------------------------------------------
(* What a statement of writer w works on. *)

MoreOps(w) == Len(outcomes[w]) < Len(request[w].ops)
Op(w) == request[w].ops[Len(outcomes[w]) + 1]

\* A writer whose request timed out: nobody waits for its answer any more.
Abandoned(w) == answer[w] = "unavailable"

\* The row as the transaction of w sees it: its own write first.
Current(w) == IF Exists(draft[w][Op(w).id]) THEN draft[w][Op(w).id]
                                            ELSE table[Op(w).id]

\* The row lock is free for w, or w has it already.
RowFree(w) == \A v \in Writers \ {w} : Op(w).id \notin locks[v]

InStatement(w) == pc[w] \in {"upsert", "delete"}
WaitsFor(w, v) == v # w /\ InStatement(w) /\ Op(w).id \in locks[v]

\* w waits in a cycle: every member waits for one and is waited for by one.
Deadlocked(w) == \E C \in SUBSET Writers :
    /\ w \in C
    /\ \A v \in C : (\E u \in C : WaitsFor(v, u)) /\ (\E u \in C : WaitsFor(u, v))

\* The next statement of a request.  An abandoned transaction issues no more; a
\* DELETE may have been sent before it was abandoned, and starts all the same.
AtStatement(w, kind) ==
    /\ pc[w] = "ready"
    /\ Abandoned(w) => request[w].auto
    /\ MoreOps(w)
    /\ Op(w).kind = kind

\* A statement ends; one outside a transaction commits with it.
EndStatement(w, outcome) ==
    /\ outcomes' = [outcomes EXCEPT ![w] = Append(@, outcome)]
    /\ pc' = [pc EXCEPT ![w] = IF request[w].auto THEN "commit" ELSE "ready"]
    /\ taken' = [taken EXCEPT ![w] = 0]
    /\ seen' = [seen EXCEPT ![w] = 0]

Lock(w) == locks' = [locks EXCEPT ![w] = @ \cup {Op(w).id}]
Write(w, row) == draft' = [draft EXCEPT ![w][Op(w).id] = row]

\* Mutant: an upsert does not reset deleted_at.
StillDeletedRow(w, seq) ==
    [seq |-> seq, payload |-> Op(w).payload, deleted |-> table[Op(w).id].deleted]

StoredRow(w, seq) == [seq |-> seq, payload |-> Op(w).payload, deleted |-> FALSE]
Tombstone(seq) == [seq |-> seq, payload |-> EmptyDoc, deleted |-> TRUE]

\* Mutants: a position computed from the rows, and a sequence that counts down.
NextAfterRows ==
    lastSeq' = 1 + (CHOOSE n \in {0} \cup {table[i].seq : i \in Ids} :
                       \A i \in Ids : table[i].seq <= n)
PreviousVal == lastSeq' = lastSeq - 1

\* nextval of record_seq: never undone, whatever becomes of the transaction.
NextVal == lastSeq' = lastSeq + 1

\* Mutant: the connection goes back to the pool with its transaction open.
LeakTransaction(w) ==
    /\ pc' = [pc EXCEPT ![w] = "idle"]
    /\ taken' = [taken EXCEPT ![w] = 0]
    /\ seen' = [seen EXCEPT ![w] = 0]
    /\ UNCHANGED <<draft, locks>>

\* The transaction is over: its locks and drafts are gone.
Release(w) ==
    /\ pc' = [pc EXCEPT ![w] = "idle"]
    /\ draft' = [draft EXCEPT ![w] = [i \in Ids |-> NoRow]]
    /\ locks' = [locks EXCEPT ![w] = {}]
    /\ taken' = [taken EXCEPT ![w] = 0]
    /\ seen' = [seen EXCEPT ![w] = 0]

-----------------------------------------------------------------------------
Init ==
    /\ table = [i \in Ids |-> NoRow]
    /\ lastSeq = 0
    /\ published = {}
    /\ pc = [w \in Writers |-> "idle"]
    /\ request = [w \in Writers |-> NoRequest]
    /\ outcomes = [w \in Writers |-> << >>]
    /\ draft = [w \in Writers |-> [i \in Ids |-> NoRow]]
    /\ locks = [w \in Writers |-> {}]
    /\ taken = [w \in Writers |-> 0]
    /\ seen = [w \in Writers |-> 0]
    /\ answer = [w \in Writers |-> "none"]
    /\ started = 0

\* A request reaches the store: the batch's transaction opens.
Begin(w) == \E r \in Requests :
    /\ pc[w] = "idle"
    /\ started < MaxRequests
    /\ started' = started + 1
    /\ pc' = [pc EXCEPT ![w] = "ready"]
    /\ request' = [request EXCEPT ![w] = r]
    /\ outcomes' = [outcomes EXCEPT ![w] = << >>]
    /\ answer' = [answer EXCEPT ![w] = "none"]
    /\ UNCHANGED <<table, lastSeq, published, draft, locks, taken, seen>>

\* INSERT evaluates the DEFAULT of seq before it looks for a conflict.
StartUpsert(w) ==
    /\ AtStatement(w, "upsert")
    /\ NextVal
    /\ taken' = [taken EXCEPT ![w] = lastSeq']
    /\ pc' = [pc EXCEPT ![w] = "upsert"]
    /\ UNCHANGED <<table, published, request, outcomes, draft, locks, seen,
                   answer, started>>

\* No row of this id: the INSERT succeeds, with the value drawn at its start.
UpsertInserts(w) ==
    /\ pc[w] = "upsert"
    /\ RowFree(w)
    /\ ~Exists(Current(w))
    /\ Lock(w)
    /\ Write(w, StoredRow(w, taken[w]))
    /\ EndStatement(w, [result |-> "stored", seq |-> taken[w]])
    /\ UNCHANGED <<table, lastSeq, published, request, answer, started>>

\* Another payload, or a tombstone: DO UPDATE writes it at a second new value.
UpsertReplaces(w) ==
    /\ pc[w] = "upsert"
    /\ RowFree(w)
    /\ Exists(Current(w))
    /\ Current(w).payload # Op(w).payload \/ Current(w).deleted
    /\ NextVal
    /\ Lock(w)
    /\ Write(w, StoredRow(w, lastSeq'))
    /\ EndStatement(w, [result |-> "stored", seq |-> lastSeq'])
    /\ UNCHANGED <<table, published, request, answer, started>>

\* Mutant: an unchanged row is looked at without a lock.
UpsertSkips(w) ==
    /\ pc[w] = "upsert"
    /\ RowFree(w)
    /\ Live(Current(w))
    /\ Current(w).payload = Op(w).payload
    /\ EndStatement(w, Unchanged)
    /\ UNCHANGED <<table, lastSeq, published, request, draft, locks, answer, started>>

\* The same payload, live: WHERE is false, RETURNING yields nothing.  The row
\* stays locked until the transaction ends, as DO UPDATE locks it to look.
UpsertUnchanged(w) ==
    /\ pc[w] = "upsert"
    /\ RowFree(w)
    /\ Live(Current(w))
    /\ Current(w).payload = Op(w).payload
    /\ Lock(w)
    /\ EndStatement(w, Unchanged)
    /\ UNCHANGED <<table, lastSeq, published, request, draft, answer, started>>

\* UPDATE finds the live row in its snapshot and computes the tombstone,
\* nextval included, before it asks for the row lock.
StartDelete(w) ==
    /\ AtStatement(w, "delete")
    /\ Live(Current(w))
    /\ NextVal
    /\ taken' = [taken EXCEPT ![w] = lastSeq']
    /\ seen' = [seen EXCEPT ![w] = table[Op(w).id].seq]
    /\ pc' = [pc EXCEPT ![w] = "delete"]
    /\ UNCHANGED <<table, published, request, outcomes, draft, locks, answer,
                   started>>

\* No live row in the snapshot (a row another transaction has not committed
\* is not in it): no row qualifies, nothing is locked or waited for.
DeleteMisses(w) ==
    /\ AtStatement(w, "delete")
    /\ ~Live(Current(w))
    /\ EndStatement(w, Unchanged)
    /\ UNCHANGED <<table, lastSeq, published, request, draft, locks, answer,
                   started>>

\* Mutant: the tombstone computed for the version found overwrites any other.
DeleteOverwrites(w) ==
    /\ pc[w] = "delete"
    /\ RowFree(w)
    /\ Lock(w)
    /\ Write(w, Tombstone(taken[w]))
    /\ EndStatement(w, [result |-> "tombstoned", seq |-> taken[w]])
    /\ UNCHANGED <<table, lastSeq, published, request, answer, started>>

\* The row is still the version that was found.
DeleteTombstones(w) ==
    /\ pc[w] = "delete"
    /\ RowFree(w)
    /\ table[Op(w).id].seq = seen[w]
    /\ Lock(w)
    /\ Write(w, Tombstone(taken[w]))
    /\ EndStatement(w, [result |-> "tombstoned", seq |-> taken[w]])
    /\ UNCHANGED <<table, lastSeq, published, request, answer, started>>

\* Another transaction changed the row in between and it is still live: the
\* statement starts over on the new version, with a new value.
DeleteRechecks(w) ==
    /\ pc[w] = "delete"
    /\ RowFree(w)
    /\ table[Op(w).id].seq # seen[w]
    /\ Live(table[Op(w).id])
    /\ NextVal
    /\ Lock(w)
    /\ Write(w, Tombstone(lastSeq'))
    /\ EndStatement(w, [result |-> "tombstoned", seq |-> lastSeq'])
    /\ UNCHANGED <<table, published, request, answer, started>>

\* Another transaction deleted the row in between: nothing is left to delete.
DeleteOvertaken(w) ==
    /\ pc[w] = "delete"
    /\ RowFree(w)
    /\ table[Op(w).id].seq # seen[w]
    /\ ~Live(table[Op(w).id])
    /\ Lock(w)
    /\ EndStatement(w, Unchanged)
    /\ UNCHANGED <<table, lastSeq, published, request, draft, answer, started>>

\* Every operation went through: the handler sends COMMIT.
SendCommit(w) ==
    /\ pc[w] = "ready"
    /\ ~Abandoned(w)
    /\ ~MoreOps(w)
    /\ pc' = [pc EXCEPT ![w] = "commit"]
    /\ UNCHANGED <<table, lastSeq, published, request, outcomes, draft, locks,
                   taken, seen, answer, started>>

\* The database commits.  The connection may break before the handler learns
\* of it: the sender is then told of an error.
Commit(w) ==
    /\ pc[w] = "commit"
    /\ table' = [i \in Ids |-> IF Exists(draft[w][i]) THEN draft[w][i] ELSE table[i]]
    /\ published' = published \cup {draft[w][i].seq : i \in {j \in Ids : Exists(draft[w][j])}}
    /\ Release(w)
    /\ \E told \in {"ok", "error"} :
         answer' = [answer EXCEPT ![w] = IF Abandoned(w) THEN @ ELSE told]
    /\ UNCHANGED <<lastSeq, request, outcomes, started>>

\* Mutant: the failure of a statement is not passed on.
SwallowError(w) ==
    /\ Release(w)
    /\ answer' = [answer EXCEPT ![w] = IF Abandoned(w) THEN @ ELSE "ok"]
    /\ UNCHANGED <<table, lastSeq, published, request, outcomes, started>>

\* Mutant: the statements that went through are committed on the way out.
AbortCommits(w) ==
    /\ table' = [i \in Ids |-> IF Exists(draft[w][i]) THEN draft[w][i] ELSE table[i]]
    /\ published' = published \cup {draft[w][i].seq : i \in {j \in Ids : Exists(draft[w][j])}}
    /\ Release(w)
    /\ answer' = [answer EXCEPT ![w] = IF Abandoned(w) THEN @ ELSE "error"]
    /\ UNCHANGED <<lastSeq, request, outcomes, started>>

\* The transaction rolls back and the handler answers 500: nothing retries.
Abort(w) ==
    /\ Release(w)
    /\ answer' = [answer EXCEPT ![w] = IF Abandoned(w) THEN @ ELSE "error"]
    /\ UNCHANGED <<table, lastSeq, published, request, outcomes, started>>

\* The statement runs into statement_timeout, or the connection breaks.
StoreFails(w) == pc[w] # "idle" /\ Abort(w)

\* The database ends one transaction of a deadlock.
DeadlockDetected(w) == Deadlocked(w) /\ Abort(w)

\* The request's time is up (503) and its handler is dropped.  What the
\* database was already asked to do, it still does.
RequestTimesOut(w) ==
    /\ pc[w] # "idle"
    /\ ~Abandoned(w)
    /\ answer' = [answer EXCEPT ![w] = "unavailable"]
    /\ UNCHANGED <<table, lastSeq, published, pc, request, outcomes, draft,
                   locks, taken, seen, started>>

\* Mutant: a transaction commits when it is dropped.
CommitOnDrop(w) == pc[w] = "ready" /\ Abandoned(w) /\ AbortCommits(w)

\* The dropped transaction rolls back once its statement in flight has ended; a
\* DELETE that was not sent yet never is.
Rollback(w) ==
    /\ pc[w] = "ready"
    /\ Abandoned(w)
    /\ Abort(w)

\* All the requests of the exploration were served.
Quiescent ==
    /\ started = MaxRequests
    /\ \A w \in Writers : pc[w] = "idle"
    /\ UNCHANGED vars

Upsert(w) == UpsertInserts(w) \/ UpsertReplaces(w) \/ UpsertUnchanged(w)
Delete(w) == DeleteTombstones(w) \/ DeleteRechecks(w) \/ DeleteOvertaken(w)

\* What a writer does by itself, once it has a request.
Advance(w) ==
    \/ StartUpsert(w) \/ Upsert(w)
    \/ StartDelete(w) \/ DeleteMisses(w) \/ Delete(w)
    \/ SendCommit(w) \/ Commit(w) \/ Rollback(w)

Next ==
    \/ \E w \in Writers :
         \/ Begin(w) \/ Advance(w) \/ RequestTimesOut(w)
         \/ StoreFails(w) \/ DeadlockDetected(w)
    \/ Quiescent

Spec == Init /\ [][Next]_vars

-----------------------------------------------------------------------------
(* Properties. *)

Answers == {"none", "ok", "error", "unavailable"}

\* Every variable has its type.
TypeOK ==
    /\ table \in [Ids -> Rows]
    /\ lastSeq \in Nat
    /\ published \subseteq (Nat \ {0})
    /\ pc \in [Writers -> {"idle", "ready", "upsert", "delete", "commit"}]
    /\ request \in [Writers -> RequestType]
    /\ outcomes \in [Writers -> Seq(Outcomes)]
    /\ draft \in [Writers -> [Ids -> Rows]]
    /\ locks \in [Writers -> SUBSET Ids]
    /\ taken \in [Writers -> Nat]
    /\ seen \in [Writers -> Nat]
    /\ answer \in [Writers -> Answers]
    /\ started \in Nat

\* No two rows share a feed position, committed or about to be, nor does a
\* statement in progress hold a value that is in use: the unique index on seq
\* never refuses a write, whatever order the statements drew their values in.
PositionsUnique ==
    /\ \A i, j \in Ids : i # j /\ Exists(table[i]) => table[i].seq # table[j].seq
    /\ \A w, v \in Writers : \A i, j \in Ids :
         Exists(draft[w][i]) /\ <<w, i>> # <<v, j>> => draft[w][i].seq # draft[v][j].seq
    /\ \A w, v \in Writers : \A i \in Ids :
         taken[w] > 0 => taken[w] # draft[v][i].seq /\ taken[w] # table[i].seq

\* What a sender was told is stored stays at that position or moves on to a
\* later one: an acknowledged write is never lost or rolled back.
AnsweredIsDurable ==
    \A w \in Writers : answer[w] = "ok" =>
        \A n \in DOMAIN outcomes[w] :
            outcomes[w][n].seq <= table[request[w].ops[n].id].seq

\* The operations of w's request that wrote a row, and of these the last of
\* each id, whose row the commit publishes.
Written(w) == {n \in DOMAIN outcomes[w] : outcomes[w][n] # Unchanged}
LastWritten(w) ==
    {n \in Written(w) :
        \A m \in Written(w) : m > n => request[w].ops[m].id # request[w].ops[n].id}

\* A batch takes effect as a whole: once the row of one of its operations is
\* published, every operation went through and every row is, also when the
\* request failed, timed out or lost its answer around the commit.
BatchIsWhole ==
    \A w \in Writers :
        (\E n \in Written(w) : outcomes[w][n].seq \in published) =>
            /\ ~MoreOps(w)
            /\ \A n \in LastWritten(w) : outcomes[w][n].seq \in published

\* A row only ever moves forward in the feed, also when a DELETE that drew its
\* position early writes after another transaction changed the row.
RowsMoveForward ==
    [][\A i \in Ids : table'[i] # table[i] => table'[i].seq > table[i].seq]_vars

\* The last operation of each id in a batch is what the commit leaves: an
\* upsert (also one that was answered "unchanged") its payload, live; a delete
\* that was answered "tombstoned" a tombstone.
BatchTakesEffect ==
    [][\A w \in Writers : answer[w] = "none" /\ answer'[w] = "ok" =>
         \A n \in DOMAIN request[w].ops :
            LET op == request[w].ops[n] IN
            (\A m \in DOMAIN request[w].ops : m > n => request[w].ops[m].id # op.id) =>
                /\ op.kind = "upsert" =>
                     Live(table'[op.id]) /\ table'[op.id].payload = op.payload
                /\ outcomes[w][n].result = "tombstoned" => table'[op.id].deleted]_vars

\* The rows are only changed by whole publications at fresh positions.
Published == INSTANCE AtomicStore WITH
    Ids <- Ids, Payloads <- Payloads, EmptyDoc <- EmptyDoc,
    table <- table, published <- published
PublishesAtomically == Published!Spec

\* Every request comes to its end, without a timeout having to end it.
RequestsEnd == \A w \in Writers : pc[w] # "idle" ~> pc[w] = "idle"
=============================================================================
