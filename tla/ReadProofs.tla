----------------------------- MODULE ReadProofs -----------------------------
(***************************************************************************)
(* Proofs about PublicRead, for any queries, limits, byte budgets and      *)
(* positions: what a page is, and what a 304 is worth where positions are  *)
(* published in order.                                                     *)
(***************************************************************************)
EXTENDS PublicRead, PagingProofs

-----------------------------------------------------------------------------
(* The collection. *)

StoreInv ==
    /\ table \in [Ids -> Rows]
    /\ published \subseteq Nat \ {0}
    /\ \A i \in Ids : table[i].seq > 0 => table[i].seq \in published
    /\ \A i, j \in Ids : table[i].seq > 0 /\ table[i].seq = table[j].seq => i = j
    /\ \A i \in Ids : table[i].seq <= MaxSeq

LEMMA Positions ==
    ASSUME StoreInv
    PROVE  /\ \A i \in Ids : table[i].seq \in Nat
           /\ \A p \in published : p \in Nat
BY DEF StoreInv, Rows

LEMMA GreatestSeq ==
    ASSUME NEW rows, \A i \in Ids : rows[i].seq \in Nat /\ rows[i].seq <= MaxSeq
    PROVE  LET greatest == Max({0} \cup {rows[i].seq : i \in Ids}) IN
           /\ greatest \in Nat
           /\ greatest = 0 \/ \E i \in Ids : greatest = rows[i].seq
           /\ \A i \in Ids : rows[i].seq <= greatest
<1> DEFINE T == {0} \cup {rows[i].seq : i \in Ids}
<1>1. T \subseteq Nat /\ T # {} /\ MaxSeq \in Nat /\ \A n \in T : n <= MaxSeq
  BY ContentAssumption
<1>2. Max(T) \in T /\ \A n \in T : n <= Max(T)
  BY <1>1, MaxIsGreatest
<1> QED
  BY <1>1, <1>2

\* max_seq is the greatest position: 0, or a published one.
LEMMA MaxSeqIsGreatest ==
    ASSUME StoreInv
    PROVE  /\ ReadMaxSeq \in Nat
           /\ ReadMaxSeq = 0 \/ (ReadMaxSeq > 0 /\ ReadMaxSeq \in published)
           /\ \A i \in Ids : table[i].seq <= ReadMaxSeq
<1>1. \A i \in Ids : table[i].seq \in Nat /\ table[i].seq <= MaxSeq
  BY Positions DEF StoreInv
<1>2. /\ ReadMaxSeq \in Nat
      /\ ReadMaxSeq = 0 \/ \E i \in Ids : ReadMaxSeq = table[i].seq
      /\ \A i \in Ids : table[i].seq <= ReadMaxSeq
  BY <1>1, GreatestSeq DEF ReadMaxSeq
<1> QED
  BY <1>2 DEF StoreInv

Raised == ReadMaxSeq' \in Nat /\ ReadMaxSeq' > ReadMaxSeq

\* A publication, in order, raises max_seq.
LEMMA PublishRaises ==
    ASSUME StoreInv, PublishUpTo
    PROVE  StoreInv' /\ (InOrder => table' = table \/ Raised)
<1>1. /\ table' \in [Ids -> Rows]
      /\ \A i \in Ids : table'[i].seq \in Nat /\ table'[i].seq <= MaxSeq
  BY ContentAssumption DEF PublishUpTo, Rows
<1>2. /\ \A i \in Changed : /\ i \in Ids
                            /\ table'[i].seq > table[i].seq
                            /\ table'[i].seq \notin published
                            /\ InOrder => \A p \in published : table'[i].seq > p
      /\ \A i, j \in Changed : i # j => table'[i].seq # table'[j].seq
      /\ published' = published \cup {table'[i].seq : i \in Changed}
  BY DEF PublishUpTo, Publish, Changed
<1>3. \A i \in Ids \ Changed : table'[i] = table[i]
  BY DEF Changed
<1>4. StoreInv'
  <2>1. published' \subseteq Nat \ {0}
    <3>1. \A i \in Changed : table'[i].seq \in Nat \ {0}
      BY <1>1, <1>2, Positions
    <3> QED
      BY <1>2, <3>1 DEF StoreInv
  <2>2. \A i \in Ids : table'[i].seq > 0 => table'[i].seq \in published'
    BY <1>2, <1>3 DEF StoreInv
  <2>3. ASSUME NEW i \in Ids, NEW j \in Ids, table'[i].seq > 0, table'[i].seq = table'[j].seq
        PROVE  i = j
    <3>1. CASE i \in Changed /\ j \in Changed
      BY <1>2, <2>3, <3>1
    <3>2. CASE i \in Changed /\ j \notin Changed
      BY <1>2, <1>3, <2>3, <3>2 DEF StoreInv
    <3>3. CASE i \notin Changed /\ j \in Changed
      BY <1>2, <1>3, <2>3, <3>3 DEF StoreInv
    <3>4. CASE i \notin Changed /\ j \notin Changed
      BY <1>3, <2>3, <3>4 DEF StoreInv
    <3> QED
      BY <3>1, <3>2, <3>3, <3>4
  <2> QED
    BY <1>1, <2>1, <2>2, <2>3 DEF StoreInv
<1>5. CASE Changed = {}
  <2>1. table' = table
    BY <1>1, <1>3, <1>5 DEF StoreInv
  <2> QED
    BY <1>4, <2>1
<1>6. CASE Changed # {} /\ InOrder
  <2>1. PICK i \in Changed : TRUE
    BY <1>6
  <2>2. table'[i].seq > ReadMaxSeq
    BY <1>1, <1>2, <1>6, <2>1, MaxSeqIsGreatest, Positions
  <2>3. ReadMaxSeq' \in Nat /\ table'[i].seq <= ReadMaxSeq'
    BY <1>1, <1>2, <2>1, GreatestSeq DEF ReadMaxSeq
  <2> QED
    BY <1>1, <1>2, <1>4, <2>1, <2>2, <2>3, MaxSeqIsGreatest DEF Raised
<1> QED
  BY <1>4, <1>5, <1>6

-----------------------------------------------------------------------------
(* Queries. *)

\* The parameters of an accepted query are numbers, each given at most once.
LEMMA QueryNumbers ==
    ASSUME NEW request \in PageRequests, Accepted(request)
    PROVE  /\ PageLimit(request.query) \in Nat \ {0}
           /\ From(request) \in Nat
           /\ \A n \in DOMAIN request.query :
                LET param == request.query[n] IN
                /\ param.key # "other"
                /\ param.key = "limit" => PageLimit(request.query) = Clamp(param.value, MaxLimit)
                /\ param.key \in {"cursor", "since"} => From(request) = param.value
                /\ param.key = "filter" =>
                     <<param.field, param.value>> \in FilterOf(request.query)
           /\ From(request) > MaxI64 =>
                \E n \in Given(request.query, "cursor") \cup Given(request.query, "since") :
                    request.query[n].value > MaxI64
<1> DEFINE query == request.query
           start == IF request.view = "list" THEN "cursor" ELSE "since"
<1>1. request.view \in {"list", "changes"} /\ query \in Queries
  BY DEF PageRequests
<1>2. /\ \A n \in DOMAIN query : query[n] \in Param
      /\ DefaultLimit \in 1..MaxLimit /\ MaxLimit \in Nat /\ MaxI64 \in Nat
      /\ NotANumber \notin Nat
  BY <1>1, ContentAssumption, WidthAssumption
<1>3. /\ Given(query, "other") = {}
      /\ NumberOnce(query, "limit", MaxU16) /\ NumberOnce(query, start, MaxU64)
      /\ request.view = "list" => Given(query, "since") = {}
      /\ request.view = "changes" => Given(query, "cursor") = {}
  BY <1>1 DEF Accepted, ListingAccepts, FeedAccepts
<1>4. ASSUME NEW key \in {"limit", "cursor", "since"}, NEW max, NumberOnce(query, key, max),
             NEW default \in Nat
      PROVE  /\ Value(query, key, default) \in Nat
             /\ Given(query, key) = {} => Value(query, key, default) = default
             /\ \A n \in Given(query, key) : Value(query, key, default) = query[n].value
  <2>1. CASE Given(query, key) = {}
    BY <2>1 DEF Value
  <2>2. CASE Given(query, key) # {}
    <3>1. PICK n \in Given(query, key) : Value(query, key, default) = query[n].value
      BY <2>2 DEF Value
    <3>2. query[n] \in Param /\ query[n].key = key /\ query[n].value # NotANumber
      BY <1>2, <1>4 DEF Given, NumberOnce, Number
    <3>3. query[n].value \in Nat
      BY <3>2 DEF Param
    <3>4. \A m \in Given(query, key) : m = n
      BY <1>4 DEF NumberOnce
    <3> QED
      BY <2>2, <3>1, <3>3, <3>4
  <2> QED
    BY <2>1, <2>2
<1>5. PageLimit(query) \in Nat \ {0}
  <2>1. Value(query, "limit", DefaultLimit) \in Nat
    BY <1>2, <1>3, <1>4
  <2> QED
    BY <1>2, <2>1 DEF PageLimit, Clamp
<1>6. From(request) = Value(query, start, 0) /\ From(request) \in Nat
  BY <1>3, <1>4 DEF From
<1>7. ASSUME NEW n \in DOMAIN query
      PROVE  /\ query[n].key # "other"
             /\ query[n].key = "limit" => PageLimit(query) = Clamp(query[n].value, MaxLimit)
             /\ query[n].key \in {"cursor", "since"} => From(request) = query[n].value
             /\ query[n].key = "filter" => <<query[n].field, query[n].value>> \in FilterOf(query)
  <2>1. query[n].key # "other"
    BY <1>3 DEF Given
  <2>2. ASSUME query[n].key = "limit"
        PROVE  PageLimit(query) = Clamp(query[n].value, MaxLimit)
    <3>1. n \in Given(query, "limit")
      BY <2>2 DEF Given
    <3>2. Value(query, "limit", DefaultLimit) = query[n].value
      BY <1>2, <1>3, <1>4, <3>1
    <3> QED
      BY <3>2 DEF PageLimit
  <2>3. ASSUME query[n].key \in {"cursor", "since"} PROVE From(request) = query[n].value
    <3>1. n \in Given(query, start)
      BY <1>1, <1>3, <2>3 DEF Given
    <3> QED
      BY <1>3, <1>4, <1>6, <3>1
  <2>4. ASSUME query[n].key = "filter"
        PROVE  <<query[n].field, query[n].value>> \in FilterOf(query)
    BY <2>4 DEF FilterOf, Given
  <2> QED
    BY <2>1, <2>2, <2>3, <2>4
<1>8. ASSUME From(request) > MaxI64
      PROVE  \E n \in Given(query, "cursor") \cup Given(query, "since") :
                query[n].value > MaxI64
  <2>1. Given(query, start) # {}
    BY <1>2, <1>3, <1>4, <1>6, <1>8
  <2>2. PICK n \in Given(query, start) : From(request) = query[n].value
    BY <1>3, <1>4, <1>6, <2>1
  <2> QED
    BY <1>8, <2>2
<1> QED
  BY <1>5, <1>6, <1>7, <1>8

-----------------------------------------------------------------------------
(* Pages. *)

\* The page of a request, as the rows are now: what ConfirmedPageIsExact asks.
Exact(request, body) ==
    LET rows == body.rows
        rest == Matching(request) \ DOMAIN rows
    IN  /\ DOMAIN rows \subseteq Matching(request)
        /\ \A i \in DOMAIN rows : rows[i] = table[i]
        /\ \A i \in DOMAIN rows, j \in rest : rows[i].seq < table[j].seq
        /\ IF body.next = 0
             THEN rest = {}
             ELSE body.next = Max({rows[i].seq : i \in DOMAIN rows})

\* What every answer to the request is, whenever it was given.
Answers(request, body) ==
    /\ body.next \in Nat
    /\ IsFiniteSet(DOMAIN body.rows)
    /\ Cardinality(DOMAIN body.rows) <= PageLimit(request.query)
    /\ \A i \in DOMAIN body.rows :
         /\ body.rows[i] \in Rows
         /\ body.rows[i].seq > From(request)
         /\ FilterOf(request.query) \subseteq Contains[body.rows[i].payload]

LEMMA PageIsExact ==
    ASSUME StoreInv, NEW request \in PageRequests, Accepted(request)
    PROVE  Exact(request, PageBody(request)) /\ Answers(request, PageBody(request))
<1> DEFINE S == Matching(request)
           page == PageOf(table, Size, S, PageLimit(request.query), bytes)
           body == PageBody(request)
<1>1. S \subseteq Ids /\ From(request) \in Nat /\ PageLimit(request.query) \in Nat \ {0}
  BY QueryNumbers DEF Matching
<1>2. Ordered(table, S, MaxSeq)
  <2>1. IsFiniteSet(S)
    BY <1>1, TableAssumption, FS_Subset
  <2>2. \A i \in S : table[i].seq \in Nat \ {0} /\ table[i].seq <= MaxSeq
    <3>1. \A i \in S : i \in Ids /\ table[i].seq > From(request)
      BY DEF Matching
    <3>2. \A i \in S : table[i].seq \in Nat
      BY <3>1, Positions
    <3>3. \A i \in S : table[i].seq <= MaxSeq
      BY <3>1 DEF StoreInv
    <3> HIDE DEF S
    <3> QED
      BY <1>1, <3>1, <3>2, <3>3
  <2>3. \A i, j \in S : table[i].seq = table[j].seq => i = j
    BY <1>1, <2>2 DEF StoreInv
  <2> QED
    BY <2>1, <2>2, <2>3 DEF Ordered
<1>3. /\ page.ids \subseteq S
      /\ page.next = 0 => page.ids = S
      /\ IsFiniteSet(page.ids) /\ Cardinality(page.ids) <= PageLimit(request.query)
      /\ page.next # 0 => /\ \E i \in page.ids : page.next = table[i].seq
                          /\ \A i \in page.ids : table[i].seq <= page.next
                          /\ \A i \in S \ page.ids : table[i].seq > page.next
  <2>1. MaxSeq \in Nat
    BY ContentAssumption
  <2> QED
    BY <1>1, <1>2, <2>1, PageLosesNothing
<1> HIDE DEF page
<1>4. body = [rows |-> [i \in page.ids |-> table[i]], next |-> page.next]
  BY DEF PageBody, page
<1>5. \A i \in S : table[i] \in Rows /\ table[i].seq \in Nat
  BY <1>1, Positions DEF StoreInv
<1>6. page.next \in Nat
  BY <1>3, <1>5
<1> HIDE DEF S
<1>7. {body.rows[i].seq : i \in DOMAIN body.rows} = {table[i].seq : i \in page.ids}
  BY <1>4
<1>8. /\ DOMAIN body.rows = page.ids /\ body.next = page.next
      /\ \A i \in page.ids : body.rows[i] = table[i]
  BY <1>4
<1> HIDE DEF body
<1>9. Exact(request, body)
  <2>1. ASSUME NEW i \in page.ids, NEW j \in S \ page.ids PROVE table[i].seq < table[j].seq
    <3>1. page.next # 0
      BY <1>3
    <3>2. table[i].seq <= page.next /\ table[j].seq > page.next
      BY <1>3, <3>1
    <3> QED
      BY <1>3, <1>5, <1>6, <3>2
  <2>2. page.next = 0 => S \ page.ids = {}
    BY <1>3
  <2>3. ASSUME page.next # 0 PROVE page.next = Max({body.rows[i].seq : i \in page.ids})
    <3> DEFINE T == {table[i].seq : i \in page.ids}
    <3>1. T \subseteq Nat /\ page.next \in T /\ \A n \in T : n <= page.next
      BY <1>3, <1>5, <2>3
    <3>2. Max(T) = page.next
      BY <3>1, GreatestIsMax
    <3> QED
      BY <1>7, <1>8, <3>2
  <2> QED
    BY <1>3, <1>8, <2>1, <2>2, <2>3 DEF Exact, S
<1>10. Answers(request, body)
  <2>1. \A i \in S : table[i].seq > From(request)
                     /\ FilterOf(request.query) \subseteq Contains[table[i].payload]
    BY DEF S, Matching
  <2> QED
    BY <1>3, <1>5, <1>6, <1>8, <2>1 DEF Answers
<1> QED
  BY <1>9, <1>10 DEF body

-----------------------------------------------------------------------------
(* What the cache holds and what is on its way to it. *)

\* A tag and what it was built for: it is of a position up to max_seq, and while
\* it is of max_seq the content is current.
Dated(tag, current) ==
    InOrder => /\ tag.position \in Nat /\ tag.position <= ReadMaxSeq
               /\ tag.position = ReadMaxSeq => current

OutOfReach(request) ==
    \E n \in Given(request.query, "cursor") \cup Given(request.query, "since") :
        request.query[n].value > MaxI64

CachedInv ==
    /\ cached.status \in {200, 400, 404, 500}
    /\ cached.status = 500 => OutOfReach(cached.request)
    /\ cached.status = 200 /\ cached.request.view = "item" =>
         cached.tag.hash = cached.body.row.payload
    /\ cached.status = 200 /\ cached.request = Manifest =>
         Dated(cached.tag, cached.body.live = LiveContent)
    /\ HoldsPage => /\ cached.request \in PageRequests /\ Accepted(cached.request)
                    /\ Answers(cached.request, cached.body)
                    /\ Dated(cached.tag, Exact(cached.request, cached.body))

ReadingInv ==
    reading # NotReading =>
        /\ reading = [request |-> reading.request, tag |-> reading.tag, live |-> reading.live]
        /\ reading.request \in PageRequests \cup {Manifest}
        /\ Accepted(reading.request)
        /\ Dated(reading.tag, reading.live = LiveContent \/ reading.live = NotReading
                                \/ IsPage(reading.request))

ReadInv == StoreInv /\ CachedInv /\ ReadingInv /\ bytes \in ByteBudgets

\* The validator of a page or a manifest has the position of its time.
LEMMA TagIsDated ==
    ASSUME StoreInv, NEW request, NEW current, current
    PROVE  Dated(Tag(request), current) /\ Tag(request).position = ReadMaxSeq
<1>1. Tag(request).position = ReadMaxSeq
  BY DEF Tag, SliceTag
<1> QED
  BY <1>1, MaxSeqIsGreatest DEF Dated

\* Nothing dates that does not depend on the table, and a publication makes every
\* tag one of the past.
LEMMA StillDated ==
    ASSUME StoreInv, NEW tag, NEW current, NEW later, Dated(tag, current),
           \/ table' = table /\ (current => later)
           \/ InOrder => Raised
    PROVE  InOrder => /\ tag.position \in Nat /\ tag.position <= ReadMaxSeq'
                      /\ tag.position = ReadMaxSeq' => later
<1> SUFFICES ASSUME InOrder
             PROVE  /\ tag.position \in Nat /\ tag.position <= ReadMaxSeq'
                    /\ tag.position = ReadMaxSeq' => later
  OBVIOUS
<1>1. CASE table' = table /\ (current => later)
  BY <1>1 DEF Dated, ReadMaxSeq
<1>2. CASE Raised
  BY <1>2, MaxSeqIsGreatest DEF Dated, Raised
<1> QED
  BY <1>1, <1>2

\* What is held is kept by every step that leaves it alone.
LEMMA CachedKept ==
    ASSUME ReadInv, cached' = cached, table' = table \/ (InOrder => Raised)
    PROVE  CachedInv'
<1> USE DEF ReadInv
<1>1. CASE cached.status # 200
  BY <1>1 DEF CachedInv, HoldsPage, OutOfReach
<1>2. CASE cached.status = 200 /\ cached.request = Manifest
  <2>1. Dated(cached.tag, cached.body.live = LiveContent)
    BY <1>2 DEF CachedInv
  <2>2. table' = table => (cached.body.live = LiveContent => cached.body.live = LiveContent')
    BY DEF LiveContent, LiveIds
  <2>3. Dated(cached.tag, cached.body.live = LiveContent)'
    BY <2>1, <2>2, StillDated DEF Dated
  <2> QED
    BY <1>2, <2>3 DEF CachedInv, HoldsPage, IsPage, Manifest
<1>3. CASE HoldsPage
  <2>1. /\ cached.request \in PageRequests /\ Accepted(cached.request)
        /\ Answers(cached.request, cached.body)
        /\ Dated(cached.tag, Exact(cached.request, cached.body))
    BY <1>3 DEF CachedInv
  <2>2. table' = table =>
          (Exact(cached.request, cached.body) => Exact(cached.request, cached.body)')
    BY DEF Exact, Matching, Live
  <2>3. Dated(cached.tag, Exact(cached.request, cached.body))'
    BY <2>1, <2>2, StillDated DEF Dated
  <2> QED
    BY <1>3, <2>1, <2>3 DEF CachedInv, HoldsPage, IsPage, Manifest, Accepted, Answers
<1>4. CASE cached.status = 200 /\ cached.request # Manifest /\ ~HoldsPage
  BY <1>4 DEF CachedInv, HoldsPage
<1> QED
  BY <1>1, <1>2, <1>3, <1>4

LEMMA ReadingKept ==
    ASSUME ReadInv, reading' = reading, table' = table \/ (InOrder => Raised)
    PROVE  ReadingInv'
<1> USE DEF ReadInv
<1>1. CASE reading = NotReading
  BY <1>1 DEF ReadingInv
<1>2. CASE reading # NotReading
  <2> DEFINE Current == \/ reading.live = LiveContent \/ reading.live = NotReading
                        \/ IsPage(reading.request)
  <2>1. Dated(reading.tag, Current)
    BY <1>2 DEF ReadingInv
  <2>2. table' = table => (Current => Current')
    BY DEF LiveContent, LiveIds, Live, IsPage
  <2>3. Dated(reading.tag, Current)'
    BY <2>1, <2>2, StillDated DEF Dated
  <2> QED
    BY <1>2, <2>3 DEF ReadingInv, Accepted
<1> QED
  BY <1>1, <1>2

\* A new answer: of a record, of a page, of a manifest, or a failure.
LEMMA ItemStep ==
    ASSUME ReadInv, NEW i \in Ids, GetRecord(i)
    PROVE  CachedInv'
<1>1. CASE Live(table[i])
  <2>1. cached' = [request |-> Item(i), status |-> 200, tag |-> ItemTag(i),
                   body |-> [row |-> table[i]]]
    BY <1>1 DEF GetRecord, Respond
  <2> QED
    BY <2>1 DEF CachedInv, HoldsPage, IsPage, Item, ItemTag, Manifest
<1>2. CASE ~Live(table[i])
  BY <1>2 DEF GetRecord, Fail, CachedInv, HoldsPage
<1> QED
  BY <1>1, <1>2

LEMMA PageStep ==
    ASSUME ReadInv, ReadPage
    PROVE  CachedInv'
<1> USE DEF ReadInv
<1> DEFINE request == reading.request
<1>1. request \in PageRequests /\ Accepted(request) /\ IsPage(request)
  BY DEF ReadPage, ReadingInv, IsPage, Manifest
<1>2. CASE Reaches(From(request))
  <2>1. Exact(request, PageBody(request)) /\ Answers(request, PageBody(request))
    BY <1>1, PageIsExact
  <2>2. Dated(reading.tag, Exact(request, PageBody(request)))
    BY <1>1, <2>1, StillDated DEF ReadPage, ReadingInv, Dated
  <2>3. /\ cached' = [request |-> request, status |-> 200, tag |-> reading.tag,
                      body |-> PageBody(request)]
        /\ table' = table
    BY <1>2 DEF ReadPage, Respond
  <2>4. Dated(cached'.tag, Exact(cached'.request, cached'.body))
    BY <2>2, <2>3
  <2>5. Dated(cached.tag, Exact(cached.request, cached.body))'
    BY <2>3, <2>4 DEF Dated, Exact, Matching, Live, ReadMaxSeq
  <2> QED
    BY <1>1, <2>1, <2>3, <2>5
    DEF CachedInv, HoldsPage, IsPage, Manifest, Answers, Accepted
<1>3. CASE ~Reaches(From(request))
  <2>1. From(request) \in Nat /\ MaxI64 \in Nat
    BY <1>1, QueryNumbers, WidthAssumption
  <2>2. From(request) > MaxI64
    BY <1>3, <2>1 DEF Reaches
  <2>3. OutOfReach(request)
    BY <1>1, <2>2, QueryNumbers DEF OutOfReach
  <2>4. cached' = [request |-> request, status |-> 500]
    BY <1>3 DEF ReadPage, Fail
  <2> QED
    BY <2>3, <2>4 DEF CachedInv, HoldsPage, OutOfReach
<1> QED
  BY <1>2, <1>3

LEMMA ManifestStep ==
    ASSUME ReadInv, ReadManifest
    PROVE  CachedInv'
<1> USE DEF ReadInv
<1>1. /\ cached' = [request |-> Manifest, status |-> 200, tag |-> reading.tag,
                    body |-> [live |-> reading.live, maxSeq |-> ReadMaxSeq]]
      /\ table' = table
  BY DEF ReadManifest, Respond
<1>2. Dated(reading.tag, reading.live = LiveContent)
  BY DEF ReadManifest, ReadingInv, Dated
<1>3. Dated(cached.tag, cached.body.live = LiveContent)'
  BY <1>1, <1>2 DEF Dated, LiveContent, LiveIds, Live, ReadMaxSeq
<1> QED
  BY <1>1, <1>3 DEF CachedInv, HoldsPage, IsPage, Manifest

\* A request that gets past its parameters is in flight with a validator of now,
\* and the rows of a manifest are of now when they are counted.
LEMMA PositionStep ==
    ASSUME ReadInv, NEW request \in PageRequests \cup {Manifest}, ReadPosition(request)
    PROVE  ReadingInv'
<1>1. /\ reading' = [request |-> request, tag |-> Tag(request), live |-> NotReading]
      /\ Accepted(request) /\ table' = table
  BY DEF ReadPosition
<1>2. InOrder => Tag(request).position \in Nat /\ Tag(request).position <= ReadMaxSeq
  BY TagIsDated DEF ReadInv, Dated
<1>3. Dated(reading.tag, reading.live = LiveContent \/ reading.live = NotReading
                           \/ IsPage(reading.request))'
  BY <1>1, <1>2 DEF Dated, ReadMaxSeq
<1> QED
  BY <1>1, <1>3 DEF ReadingInv, Accepted

LEMMA CountStep ==
    ASSUME ReadInv, CountRows
    PROVE  ReadingInv'
<1>1. /\ reading # NotReading /\ ReadingInv
      /\ table' = table
      /\ reading' = [reading EXCEPT !.live = LiveContent]
  BY DEF CountRows, ReadInv
<1>2. reading' = [request |-> reading.request, tag |-> reading.tag, live |-> LiveContent]
  BY <1>1 DEF ReadingInv
<1>3. LiveContent' = LiveContent /\ ReadMaxSeq' = ReadMaxSeq
  BY <1>1 DEF LiveContent, LiveIds, Live, ReadMaxSeq
<1>4. Dated(reading.tag, reading.live = LiveContent \/ reading.live = NotReading
                           \/ IsPage(reading.request))'
  BY <1>1, <1>2, <1>3 DEF ReadingInv, Dated
<1> QED
  BY <1>1, <1>2, <1>4 DEF ReadingInv, Accepted

LEMMA ReadInitInv == ReadInit => ReadInv
<1> SUFFICES ASSUME ReadInit PROVE ReadInv
  OBVIOUS
<1>1. StoreInv
  BY TableAssumption, ContentAssumption DEF ReadInit, Init, StoreInv, NoRow, Rows
<1>2. CachedInv
  BY DEF ReadInit, CachedInv, NothingHeld, HoldsPage
<1> QED
  BY <1>1, <1>2 DEF ReadInit, ReadInv, ReadingInv

LEMMA ReadStep == ReadInv /\ [ReadNext]_readVars => ReadInv'
<1> SUFFICES ASSUME ReadInv, [ReadNext]_readVars PROVE ReadInv'
  OBVIOUS
<1> USE DEF ReadInv
<1>1. ASSUME UNCHANGED <<table, published>> PROVE StoreInv'
  BY <1>1 DEF StoreInv
<1>2. CASE UNCHANGED readVars
  BY <1>1, <1>2, CachedKept, ReadingKept DEF readVars
<1>3. ASSUME NEW i \in Ids, GetRecord(i) PROVE ReadInv'
  BY <1>1, <1>3, ItemStep, ReadingKept DEF GetRecord
<1>4. ASSUME NEW request \in PageRequests, Refuse(request) PROVE ReadInv'
  <2>1. CachedInv'
    BY <1>4 DEF Refuse, Fail, CachedInv, HoldsPage
  <2> QED
    BY <1>1, <1>4, <2>1, ReadingKept DEF Refuse
<1>5. ASSUME NEW request \in PageRequests \cup {Manifest}, ReadPosition(request) PROVE ReadInv'
  <2>1. CachedInv'
    BY <1>5 DEF ReadPosition, NothingHeld, CachedInv, HoldsPage
  <2> QED
    BY <1>1, <1>5, <2>1, PositionStep DEF ReadPosition
<1>6. CASE ReadPage
  <2>1. ReadingInv'
    BY <1>6 DEF ReadPage, ReadingInv
  <2> QED
    BY <1>1, <1>6, <2>1, PageStep DEF ReadPage
<1>7. CASE CountRows
  BY <1>1, <1>7, CountStep, CachedKept DEF CountRows
<1>8. CASE ReadManifest
  <2>1. ReadingInv'
    BY <1>8 DEF ReadManifest, ReadingInv
  <2> QED
    BY <1>1, <1>8, <2>1, ManifestStep DEF ReadManifest
<1>9. CASE Restart
  <2>1. ReadingInv'
    BY <1>9 DEF Restart, ReadingInv
  <2> QED
    BY <1>1, <1>9, <2>1, CachedKept DEF Restart, ByteBudgets
<1>10. CASE PublishUpTo
  <2>1. UNCHANGED <<bytes, cached, reading>>
    BY <1>10 DEF PublishUpTo
  <2>2. StoreInv' /\ (table' = table \/ (InOrder => Raised))
    BY <1>10, PublishRaises
  <2> QED
    BY <2>1, <2>2, CachedKept, ReadingKept DEF ByteBudgets
<1> QED
  BY <1>2, <1>3, <1>4, <1>5, <1>6, <1>7, <1>8, <1>9, <1>10 DEF ReadNext

LEMMA ReadInvariance == ReadSpec => []ReadInv
BY ReadInitInv, ReadStep, PTL DEF ReadSpec

-----------------------------------------------------------------------------
(* What follows. *)

\* Every answer has its type, at any position and in any order of publication.
THEOREM ReadersTypeCorrect == ReadSpec => []ReadersTypeOK
<1>1. ReadInv => ReadersTypeOK
  BY DEF ReadInv, ReadersTypeOK, CachedInv, ReadingInv, Answers
<1> QED
  BY <1>1, ReadInvariance, PTL

\* A record that a 304 confirms is live and unchanged, in any order of publication.
THEOREM RecordsAreConfirmedRightly == ReadSpec => []ItemContentIsCurrent
<1>1. ReadInv => ItemContentIsCurrent
  BY DEF ReadInv, CachedInv, ItemContentIsCurrent, Confirmed, ItemTag, Live
<1> QED
  BY <1>1, ReadInvariance, PTL

\* A manifest that a 304 confirms is that of the current content, where positions
\* are published in order: the position alone is its validator.
THEOREM ManifestsAreConfirmedRightly ==
    ASSUME InOrder PROVE ReadSpec => []StaleManifestIsRefused
<1>1. ReadInv => StaleManifestIsRefused
  <2> SUFFICES ASSUME ReadInv, Confirmed, cached.request = Manifest
               PROVE  cached.body.live = LiveContent
    BY DEF StaleManifestIsRefused
  <2>1. cached.status = 200 /\ cached.tag = Tag(Manifest)
    BY DEF Confirmed, Manifest
  <2>2. cached.tag.position = ReadMaxSeq
    BY <2>1 DEF Tag, SliceTag, IsPage, Manifest
  <2> QED
    BY <2>1, <2>2 DEF ReadInv, CachedInv, Dated
<1> QED
  BY <1>1, ReadInvariance, PTL

\* A page that a 304 confirms is the page of the current rows, where positions are
\* published in order, also after a restart with another byte budget.
THEOREM PagesAreConfirmedRightly ==
    ASSUME InOrder PROVE ReadSpec => []ConfirmedPageIsExact
<1>1. ReadInv => ConfirmedPageIsExact
  <2> SUFFICES ASSUME ReadInv, Confirmed, HoldsPage PROVE Exact(cached.request, cached.body)
    BY DEF ConfirmedPageIsExact, Exact
  <2>1. cached.status = 200 /\ cached.tag = Tag(cached.request)
    BY DEF Confirmed, HoldsPage, IsPage
  <2>2. cached.tag.position = ReadMaxSeq
    BY <2>1 DEF Tag, SliceTag
  <2> QED
    BY <2>1, <2>2 DEF ReadInv, CachedInv, Dated
<1> QED
  BY <1>1, ReadInvariance, PTL

\* Two requests with one validator get the same page, whatever they ask.
THEOREM ValidatorsAreSufficient == ReadSpec => []ValidatorsTellApart
<1>1. ValidatorsTellApart
  <2> SUFFICES ASSUME NEW one \in PageRequests, NEW other \in PageRequests,
                      Tag(one) = Tag(other)
               PROVE  PageBody(one) = PageBody(other)
    BY DEF ValidatorsTellApart
  <2>1. \A request \in PageRequests :
          /\ Tag(request).kind = request.view /\ Tag(request).from = From(request)
          /\ Tag(request).limit = PageLimit(request.query)
          /\ Tag(request).filter = FilterOf(request.query)
    BY DEF Tag, SliceTag, PageRequests, IsPage
  <2>2. Matching(one) = Matching(other) /\ PageLimit(one.query) = PageLimit(other.query)
    BY <2>1 DEF Matching
  <2> QED
    BY <2>2 DEF PageBody
<1> QED
  BY <1>1, PTL

\* Every parameter of a query is in force on the page it gets, and only a cursor
\* beyond every position is answered 500.
THEOREM QueriesAreObeyed == ReadSpec => []QueriesAreAnsweredAsAsked
<1>1. ReadInv => QueriesAreAnsweredAsAsked
  <2> SUFFICES ASSUME ReadInv PROVE QueriesAreAnsweredAsAsked
    OBVIOUS
  <2>1. ASSUME HoldsPage, NEW n \in DOMAIN cached.request.query
        PROVE  LET rows == cached.body.rows
                   param == cached.request.query[n] IN
               /\ param.key # "other"
               /\ param.key = "limit" =>
                    Cardinality(DOMAIN rows) <= Clamp(param.value, MaxLimit)
               /\ param.key \in {"cursor", "since"} =>
                    \A i \in DOMAIN rows : rows[i].seq > param.value
               /\ param.key = "filter" =>
                    \A i \in DOMAIN rows :
                        <<param.field, param.value>> \in Contains[rows[i].payload]
    <3>1. /\ cached.request \in PageRequests /\ Accepted(cached.request)
          /\ Answers(cached.request, cached.body)
      BY <2>1 DEF ReadInv, CachedInv
    <3> QED
      BY <3>1, QueryNumbers DEF Answers
  <2>2. cached.status = 500 => OutOfReach(cached.request)
    BY DEF ReadInv, CachedInv
  <2> QED
    BY <2>1, <2>2 DEF QueriesAreAnsweredAsAsked, OutOfReach
<1> QED
  BY <1>1, ReadInvariance, PTL
=============================================================================
