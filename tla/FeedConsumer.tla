---------------------------- MODULE FeedConsumer ----------------------------
(***************************************************************************)
(* A consumer that replicates the collection of RecordStore: it walks the  *)
(* listing once (GET /v1/{source}/{collection}), then follows the change   *)
(* feed (.../changes) from the position the first page of the listing      *)
(* reported.  Each request is two statements on the server, the position   *)
(* and the page, with any writes in between, and the consumer sends back   *)
(* the validator of its latest response (api/src/public.rs).               *)
(***************************************************************************)
EXTENDS RecordStore, Paging

CONSTANTS
    Size,     \* bytes of each payload
    Limit,    \* the page limit the consumer asks for
    MaxLimit, \* PageLimit::MAX
    Bytes     \* the service's byte budget of a page

ASSUME BudgetAssumption ==
    /\ Size \in [Payloads -> Nat]
    /\ Limit \in Nat
    /\ MaxLimit \in Nat \ {0}
    /\ Bytes \in Nat

\* A table has finitely many rows.
ASSUME TableAssumption == IsFiniteSet(Ids)

VARIABLES
    view,       \* what the consumer reads: "list" or "changes"
    at,         \* the cursor of its next request
    position,   \* the max_seq its request in flight got, -1 without one
    validator,  \* the latest response: its view, cursor and position
    resume,     \* where its feed will start: the first page's max_seq
    replica     \* the rows it has

consumer == <<view, at, position, validator, resume, replica>>
allVars == <<vars, consumer>>

\* Mutant: max_seq leaves the tombstones out.
LiveMaxSeq == Max({0} \cup {table[i].seq : i \in {j \in Ids : Live(table[j])}})

ReadMaxSeq == Max({0} \cup {table[i].seq : i \in Ids})

\* Mutant: the feed, too, filters on deleted_at.
LiveOnly == {i \in Ids : table[i].seq > at /\ ~table[i].deleted}

\* What a page of the view is taken from: deletions appear in the feed only.
Matching == {i \in Ids : /\ table[i].seq > at
                         /\ view = "list" => ~table[i].deleted}

ConsumerInit ==
    /\ view = "list"
    /\ at = 0
    /\ position = -1
    /\ validator = [view |-> "none", at |-> 0, position |-> 0]
    /\ resume = -1
    /\ replica = [i \in Ids |-> NoRow]

\* The handler reads the position.  A validator that matches is answered 304:
\* the consumer has this page already.
Ask ==
    /\ position = -1
    /\ LET etag == [view |-> view, at |-> at, position |-> ReadMaxSeq] IN
         /\ etag # validator
         /\ validator' = etag
         /\ position' = ReadMaxSeq
    /\ UNCHANGED <<view, at, resume, replica>>
    /\ UNCHANGED vars

\* A page of the feed, or of the listing, is applied to the replica.
Apply(page) == replica' = [i \in Ids |-> IF i \in page.ids THEN table[i] ELSE replica[i]]

ThePage == PageOf(table, Size, Matching, Clamp(Limit, MaxLimit), Bytes)

\* A page of the listing.  Its end is where the feed takes over.
ReadListing ==
    /\ position # -1
    /\ view = "list"
    /\ Apply(ThePage)
    /\ resume' = IF resume = -1 THEN position ELSE resume
    /\ IF ThePage.next # 0
         THEN at' = ThePage.next /\ UNCHANGED view
         ELSE at' = resume' /\ view' = "changes"
    /\ position' = -1
    /\ UNCHANGED validator
    /\ UNCHANGED vars

\* Mutant: a null cursor is sent back as 0.
RestartsAtNull ==
    /\ position # -1
    /\ view = "changes"
    /\ Apply(ThePage)
    /\ at' = ThePage.next
    /\ position' = -1
    /\ UNCHANGED <<view, validator, resume>>
    /\ UNCHANGED vars

\* A page of the feed.  Without a next cursor the consumer is caught up: it
\* keeps its cursor, or takes the last change's position or max_seq as one.
ReadChanges ==
    /\ position # -1
    /\ view = "changes"
    /\ Apply(ThePage)
    /\ IF ThePage.next # 0
         THEN at' = ThePage.next
         ELSE at' \in {at, position, Max({at} \cup {table[i].seq : i \in ThePage.ids})}
    /\ position' = -1
    /\ UNCHANGED <<view, validator, resume>>
    /\ UNCHANGED vars

ConsumerStep == Ask \/ ReadListing \/ ReadChanges

ConsumerSpec ==
    /\ Init /\ ConsumerInit
    /\ [][(Next /\ UNCHANGED consumer) \/ ConsumerStep]_allVars
    /\ \A w \in Writers : WF_vars(Advance(w)) /\ WF_vars(DeadlockDetected(w))
    /\ WF_allVars(ConsumerStep)

-----------------------------------------------------------------------------
(* Properties. *)

ConsumerTypeOK ==
    /\ view \in {"list", "changes"}
    /\ at \in Nat
    /\ position \in Nat \cup {-1}
    /\ validator \in [view : {"list", "changes", "none"}, at : Nat, position : Nat]
    /\ resume \in Nat \cup {-1}
    /\ replica \in [Ids -> Rows]

\* The consumer serves of i what the store serves of it.
Replicated(i) == replica[i] = table[i] \/ (~Live(replica[i]) /\ ~Live(table[i]))

\* Whatever lies at or before the consumer's position in the feed, it has: no
\* change is skipped by the hand-over from the listing, by a page cut short, by
\* a 304 or by a cursor taken from max_seq.
NothingBehindCursor ==
    view = "changes" => \A i \in Ids : table[i].seq <= at => Replicated(i)

\* The cursor never goes back, whichever response it was taken from.
CursorMovesForward ==
    [][view = "changes" => at' >= at]_allVars

\* Once the senders are done the consumer has all there is, deletions included,
\* and keeps it: no page is asked for forever, no 304 hides a change.
ReplicaConverges == <>[](\A i \in Ids : Replicated(i))
=============================================================================
