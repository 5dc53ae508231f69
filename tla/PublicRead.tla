----------------------------- MODULE PublicRead -----------------------------
(***************************************************************************)
(* The public reads (api/src/public.rs) of a collection that AtomicStore   *)
(* describes: a record, the manifest, a page of the listing and a page of  *)
(* the change feed.  All are asked for by a shared cache that revalidates  *)
(* what it holds with If-None-Match.  A record takes one statement, a page *)
(* two and the manifest three, with publications in between; and the       *)
(* service may be restarted with another byte budget for pages.            *)
(*                                                                         *)
(* What holds of one response holds of each, so there is one at a time, of *)
(* any request: what the cache holds, until it asks for something else.    *)
(***************************************************************************)
EXTENDS AtomicStore, ListQuery

CONSTANTS
    Contains,     \* the pairs of a field and a value each payload contains
    Size,         \* bytes of each payload
    MaxBytes,     \* ByteBudget::MAX
    ResponseBytes, \* the byte budgets the service is configured with
    Queries,      \* the query strings the cache asks with
    InOrder,      \* whether positions are published in their order
    MaxSeq,       \* bound of the exploration: the highest position
    NotReading    \* no request is in flight

ASSUME ContentAssumption ==
    /\ Contains \in [Payloads -> SUBSET Filterable]
    /\ Size \in [Payloads -> Nat]
    /\ ResponseBytes \subseteq Nat /\ MaxBytes \in Nat \ {0}
    /\ MaxSeq \in Nat /\ InOrder \in BOOLEAN
    /\ \A query \in Queries : \A n \in DOMAIN query : query[n] \in Param

\* A table has finitely many rows.
ASSUME TableAssumption == IsFiniteSet(Ids) /\ EmptyDoc \in Payloads

VARIABLES
    bytes,    \* response_bytes of the running service
    cached,   \* the answer the cache holds
    reading   \* the request in flight: its validator and, of a manifest, its rows

\* ByteBudget::clamp
ByteBudgets == {Clamp(configured, MaxBytes) : configured \in ResponseBytes}

readVars == <<table, published, bytes, cached, reading>>

Live(row) == row.seq > 0 /\ ~row.deleted
LiveIds == {i \in Ids : Live(table[i])}

\* Mutant: max_seq leaves the tombstones out.
LiveMaxSeq == Max({0} \cup {table[i].seq : i \in LiveIds})

ReadMaxSeq == Max({0} \cup {table[i].seq : i \in Ids})

\* What count and checksum are a function of: the live ids and their hashes.
LiveContent == {<<i, table[i].payload>> : i \in LiveIds}

-----------------------------------------------------------------------------
(* Requests and their validators. *)

Item(i) == [view |-> "item", id |-> i]
Manifest == [view |-> "manifest"]
PageRequests == [view : {"list", "changes"}, query : Queries]
IsPage(request) == request.view \in {"list", "changes"}

Accepted(request) ==
    /\ request.view = "list" => ListingAccepts(request.query)
    /\ request.view = "changes" => FeedAccepts(request.query)

\* An answer that confirms nothing.
NothingHeld == [request |-> Manifest, status |-> 404]

\* Where the page begins: after its cursor.
From(request) == Value(request.query, IF request.view = "list" THEN "cursor" ELSE "since", 0)

\* validator(): the feed position, and which slice of the collection it is.
SliceTag(request, filter) ==
    IF IsPage(request)
      THEN [kind |-> request.view, position |-> ReadMaxSeq, from |-> From(request),
            limit |-> PageLimit(request.query), filter |-> filter]
      ELSE [kind |-> "manifest", position |-> ReadMaxSeq]

\* Mutant: the filter is no part of the validator.
FilterlessTag(request) == SliceTag(request, {})

\* listing_validator() adds the filter.
Tag(request) == SliceTag(request, IF IsPage(request) THEN FilterOf(request.query) ELSE {})

ItemTag(i) == [kind |-> "item", hash |-> table[i].payload]

\* Mutant: the validator is looked at before the deletion.
ConfirmedFirst ==
    /\ cached.status = 200
    /\ IF cached.request.view = "item" THEN cached.tag = ItemTag(cached.request.id)
                                       ELSE cached.tag = Tag(cached.request)

\* Whether the cache would be answered 304 were it to ask again.
Confirmed ==
    /\ cached.status = 200
    /\ IF cached.request.view = "item"
         THEN Live(table[cached.request.id]) /\ cached.tag = ItemTag(cached.request.id)
         ELSE cached.tag = Tag(cached.request)

\* A 304 changes nothing, so only the requests that are answered otherwise are steps.
Asks(request) == reading = NotReading /\ ~(cached.request = request /\ Confirmed)

-----------------------------------------------------------------------------
(* The handlers. *)

Fail(request, status) == cached' = [request |-> request, status |-> status]
Respond(request, tag, body) ==
    cached' = [request |-> request, status |-> 200, tag |-> tag, body |-> body]

\* get_record: a tombstone is not served.
GetRecord(i) ==
    /\ Asks(Item(i))
    /\ IF Live(table[i]) THEN Respond(Item(i), ItemTag(i), [row |-> table[i]])
                         ELSE Fail(Item(i), 404)
    /\ UNCHANGED <<table, published, bytes, reading>>

Refuse(request) ==
    /\ Asks(request) /\ ~Accepted(request)
    /\ Fail(request, 400)
    /\ UNCHANGED <<table, published, bytes, reading>>

\* list_collection, changes and manifest begin with max_seq and their validator.
ReadPosition(request) ==
    /\ Asks(request) /\ Accepted(request)
    /\ reading' = [request |-> request, tag |-> Tag(request), live |-> NotReading]
    /\ cached' = NothingHeld
    /\ UNCHANGED <<table, published, bytes>>

\* What a page is taken from: deletions are in the feed only, and a filter selects
\* by containment.
Matching(request) ==
    {i \in Ids :
        /\ table[i].seq > From(request)
        /\ request.view = "list" => Live(table[i])
        /\ FilterOf(request.query) \subseteq Contains[table[i].payload]}

PageBody(request) ==
    LET page == PageOf(table, Size, Matching(request), PageLimit(request.query), bytes)
    IN  [rows |-> [i \in page.ids |-> table[i]], next |-> page.next]

\* The page itself, unless its cursor is beyond the range of a bigint.
ReadPage ==
    /\ reading # NotReading /\ IsPage(reading.request)
    /\ IF Reaches(From(reading.request))
         THEN Respond(reading.request, reading.tag, PageBody(reading.request))
         ELSE Fail(reading.request, 500)
    /\ reading' = NotReading
    /\ UNCHANGED <<table, published, bytes>>

\* manifest in the store: the live rows, then max_seq again.
CountRows ==
    /\ reading # NotReading /\ ~IsPage(reading.request) /\ reading.live = NotReading
    /\ reading' = [reading EXCEPT !.live = LiveContent]
    /\ UNCHANGED <<table, published, bytes, cached>>

ReadManifest ==
    /\ reading # NotReading /\ ~IsPage(reading.request) /\ reading.live # NotReading
    /\ Respond(Manifest, reading.tag, [live |-> reading.live, maxSeq |-> ReadMaxSeq])
    /\ reading' = NotReading
    /\ UNCHANGED <<table, published, bytes>>

\* A restart with another configuration; the request in flight may be lost.
Restart ==
    /\ bytes' \in ByteBudgets
    /\ reading' = NotReading
    /\ UNCHANGED <<table, published, cached>>

PublishUpTo ==
    /\ table' \in [Ids -> [seq : 0..MaxSeq, payload : Payloads, deleted : BOOLEAN]]
    /\ Publish
    /\ InOrder => \A i \in Changed, p \in published : table'[i].seq > p
    /\ UNCHANGED <<bytes, cached, reading>>

ReadInit ==
    /\ Init
    /\ bytes \in ByteBudgets
    /\ cached = NothingHeld
    /\ reading = NotReading

ReadNext ==
    \/ \E i \in Ids : GetRecord(i)
    \/ \E request \in PageRequests : Refuse(request)
    \/ \E request \in PageRequests \cup {Manifest} : ReadPosition(request)
    \/ ReadPage \/ CountRows \/ ReadManifest
    \/ Restart
    \/ PublishUpTo

ReadSpec == ReadInit /\ [][ReadNext]_readVars

-----------------------------------------------------------------------------
(* What the cache can rely on. *)

HoldsPage == cached.status = 200 /\ IsPage(cached.request)

\* The status is one of the API's, the response in flight one of an accepted
\* request, and a page and its cursor are of existing positions.
ReadersTypeOK ==
    /\ bytes \in ByteBudgets
    /\ cached.status \in {200, 400, 404, 500}
    /\ HoldsPage => /\ cached.body.next \in Nat
                    /\ \A i \in DOMAIN cached.body.rows : cached.body.rows[i] \in Rows
    /\ reading # NotReading => Accepted(reading.request)

\* A record a 304 confirms is live and has the payload of the cached body: the
\* hash is looked at only after the deletion (a tombstone hashes like {}).
ItemContentIsCurrent ==
    Confirmed /\ cached.request.view = "item" =>
        LET row == table[cached.request.id] IN
        ~row.deleted /\ row.payload = cached.body.row.payload

\* A manifest a 304 confirms has the count and checksum of what is stored now: a
\* collection that changed has another max_seq, tombstones included.
StaleManifestIsRefused ==
    Confirmed /\ cached.request = Manifest => cached.body.live = LiveContent

\* A manifest that names the current position has the count and checksum of the
\* current content.
ManifestDescribesItsPosition ==
    cached.status = 200 /\ cached.request = Manifest /\ cached.body.maxSeq = ReadMaxSeq
        => cached.body.live = LiveContent

\* A page a 304 confirms is what a walk needs it to be: the first rows after the
\* cursor as they are now, all of them if it offers no cursor, and otherwise up to
\* the cursor it offers, whatever the byte budget was when it was cut and is now.
ConfirmedPageIsExact ==
    Confirmed /\ HoldsPage =>
        LET rows == cached.body.rows
            rest == Matching(cached.request) \ DOMAIN rows
        IN  /\ DOMAIN rows \subseteq Matching(cached.request)
            /\ \A i \in DOMAIN rows : rows[i] = table[i]
            /\ \A i \in DOMAIN rows, j \in rest : rows[i].seq < table[j].seq
            /\ IF cached.body.next = 0
                 THEN rest = {}
                 ELSE cached.body.next = Max({rows[i].seq : i \in DOMAIN rows})

\* No cache can answer one page with another: two requests with one validator get
\* the same page.
ValidatorsTellApart ==
    \A one, other \in {request \in PageRequests : Accepted(request)} :
        Tag(one) = Tag(other) => PageBody(one) = PageBody(other)

\* A page answers the question that was asked: every parameter of its query is in
\* force, none is dropped or overridden by another; and only a cursor no position
\* can have is answered as a failure of the service.
QueriesAreAnsweredAsAsked ==
    /\ HoldsPage =>
         LET rows == cached.body.rows IN
         \A n \in DOMAIN cached.request.query :
            LET param == cached.request.query[n] IN
            /\ param.key # "other"
            /\ param.key = "limit" => Cardinality(DOMAIN rows) <= Clamp(param.value, MaxLimit)
            /\ param.key \in {"cursor", "since"} =>
                 \A i \in DOMAIN rows : rows[i].seq > param.value
            /\ param.key = "filter" =>
                 \A i \in DOMAIN rows :
                    <<param.field, param.value>> \in Contains[rows[i].payload]
    /\ cached.status = 500 =>
         LET query == cached.request.query IN
         \E n \in Given(query, "cursor") \cup Given(query, "since") : query[n].value > MaxI64
=============================================================================
