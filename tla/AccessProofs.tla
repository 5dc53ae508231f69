---------------------------- MODULE AccessProofs ----------------------------
(***************************************************************************)
(* Proofs about Access: what is stored has its URLs, and who writes had a  *)
(* credential, for any names, ids, tokens and requests.                    *)
(***************************************************************************)
EXTENDS Access, TLAPS

Arrived == [phase : {"arrived"}, request : Requests, token : Tokens]
Authenticated == [phase : {"authenticated"}, request : Requests, source : Names]
Outliving == [phase : {"sent"}, source : Names,
              request : {r \in Requests : r.path[3] \in Collections /\ r.id \in RecordIds}]
Flights == {Idle} \cup Arrived \cup Authenticated \cup Outliving
Row == [source : Names, label : Labels, revoked : BOOLEAN]

\* AccessTypeOK, with the types of the requests in flight.
AccessInv ==
    /\ DOMAIN credentials \subseteq Tokens \X Secrets
    /\ \A hash \in DOMAIN credentials : credentials[hash] \in Row
    /\ config \in Secrets /\ secret \in Secrets
    /\ served \subseteq Collections
    /\ stored \subseteq [source : Names, collection : Collections, id : RecordIds]
    /\ flight \in [Senders -> Flights]

LEMMA InvImpliesType == AccessInv => AccessTypeOK
BY DEF AccessInv, AccessTypeOK, Row, Idle, Arrived, Authenticated, Outliving, Flights

LEMMA InvInit == AccessInit => AccessInv
BY DEF AccessInit, AccessInv, Flights

\* A minted token is one more row.
LEMMA MintKept ==
    ASSUME AccessInv, NEW token \in Tokens, NEW source \in Names, NEW label \in Labels,
           Mint(token, source, label)
    PROVE  AccessInv'
<1> DEFINE new == [source |-> source, label |-> label, revoked |-> FALSE]
           key == <<token, config>>
<1>1. /\ DOMAIN credentials' = DOMAIN credentials \cup {key}
      /\ \A hash \in DOMAIN credentials' :
            credentials'[hash] = IF hash = key THEN new ELSE credentials[hash]
  BY DEF Mint
<1>2. new \in Row /\ key \in Tokens \X Secrets
  BY DEF Row, AccessInv
<1>3. DOMAIN credentials' \subseteq Tokens \X Secrets
  BY <1>1, <1>2 DEF AccessInv
<1>4. \A hash \in DOMAIN credentials' : credentials'[hash] \in Row
  BY <1>1, <1>2 DEF AccessInv
<1> QED
  BY <1>3, <1>4 DEF AccessInv, Mint

LEMMA RevokeKept ==
    ASSUME AccessInv, NEW label \in Labels, Revoke(label)
    PROVE  AccessInv'
<1>1. DOMAIN credentials' = DOMAIN credentials
  BY DEF Revoke
<1>2. ASSUME NEW hash \in DOMAIN credentials'
      PROVE  credentials'[hash] \in Row
  BY <1>1 DEF Revoke, AccessInv, Row
<1> QED
  BY <1>1, <1>2 DEF AccessInv, Revoke

\* What is written is a key: the id was checked, the source is the credential's.
LEMMA ApplyKept ==
    ASSUME AccessInv, NEW sender \in Senders, Apply(sender)
    PROVE  AccessInv'
<1> DEFINE request == flight[sender].request
           source == flight[sender].source
<1>1. flight[sender] \in Authenticated
  BY DEF AccessInv, Apply, Idle, Arrived, Outliving, Flights
<1>2. source \in Names
  BY <1>1 DEF Authenticated
<1>3. Acceptable(request) =>
        Key(source, request.path[3], request.id)
            \in [source : Names, collection : Collections, id : RecordIds]
  BY <1>2 DEF Acceptable, AccessInv, Key
<1>4. stored' \subseteq [source : Names, collection : Collections, id : RecordIds]
  BY <1>3 DEF Apply, Written, AccessInv
<1>5. flight' \in [Senders -> Flights]
  BY DEF Apply, AccessInv, Flights
<1> QED
  BY <1>4, <1>5 DEF AccessInv, Apply

\* A write that outlived the service was accepted by it.
LEMMA LandKept ==
    ASSUME AccessInv, NEW sender \in Senders, Land(sender)
    PROVE  AccessInv'
<1> DEFINE request == flight[sender].request
           source == flight[sender].source
<1>1. flight[sender] \in Outliving
  BY DEF AccessInv, Land, Idle, Arrived, Authenticated, Flights
<1>2. Key(source, request.path[3], request.id)
        \in [source : Names, collection : Collections, id : RecordIds]
  BY <1>1 DEF Outliving, Key
<1>3. stored' \subseteq [source : Names, collection : Collections, id : RecordIds]
  BY <1>2 DEF Land, Written, AccessInv
<1>4. flight' \in [Senders -> Flights]
  BY DEF Land, AccessInv, Flights
<1> QED
  BY <1>3, <1>4 DEF AccessInv, Land

\* A restart ends what has not been sent to the database.
LEMMA RestartKept ==
    ASSUME AccessInv, Restart
    PROVE  AccessInv'
<1>1. PICK outliving \in SUBSET {sender \in Senders :
            flight[sender].phase = "authenticated" /\ Acceptable(flight[sender].request)} :
         flight' = [sender \in Senders |->
             IF sender \in outliving THEN [flight[sender] EXCEPT !.phase = "sent"]
             ELSE IF flight[sender].phase = "sent" THEN flight[sender]
             ELSE Idle]
  BY DEF Restart
<1>2. ASSUME NEW sender \in Senders PROVE flight'[sender] \in Flights
  <2>1. CASE sender \in outliving
    <3>1. flight[sender] \in Authenticated /\ Acceptable(flight[sender].request)
      BY <2>1 DEF AccessInv, Flights, Idle, Arrived, Outliving
    <3>2. [flight[sender] EXCEPT !.phase = "sent"] \in Outliving
      BY <3>1 DEF Authenticated, Outliving, Acceptable, AccessInv
    <3> QED
      BY <1>1, <2>1, <3>2 DEF Flights
  <2>2. CASE sender \notin outliving
    BY <1>1, <2>2 DEF AccessInv, Flights
  <2> QED
    BY <2>1, <2>2
<1>3. flight' \in [Senders -> Flights]
  BY <1>1, <1>2
<1> QED
  BY <1>3 DEF AccessInv, Restart

LEMMA AuthenticateKept ==
    ASSUME AccessInv, NEW sender \in Senders, Authenticate(sender)
    PROVE  AccessInv'
<1>1. flight[sender] \in Arrived
  BY DEF AccessInv, Authenticate, Idle, Authenticated, Outliving, Flights
<1>2. Authentic(flight[sender].token) =>
        credentials[<<flight[sender].token, secret>>].source \in Names
  BY DEF Authentic, AccessInv, Row
<1>3. flight' \in [Senders -> Flights]
  BY <1>1, <1>2 DEF Authenticate, AccessInv, Arrived, Authenticated, Flights
<1> QED
  BY <1>3 DEF AccessInv, Authenticate

LEMMA SendKept ==
    ASSUME AccessInv, NEW sender \in Senders, NEW request \in Requests, NEW token \in Tokens,
           Send(sender, request, token)
    PROVE  AccessInv'
<1>1. flight' \in [Senders -> Flights]
  BY DEF Send, AccessInv, Arrived, Flights
<1> QED
  BY <1>1 DEF AccessInv, Send

LEMMA AccessStep == AccessInv /\ [AccessNext]_accessVars => AccessInv'
<1> SUFFICES ASSUME AccessInv, [AccessNext]_accessVars PROVE AccessInv'
  OBVIOUS
<1>1. ASSUME NEW new \in Secrets, Rotate(new) PROVE AccessInv'
  BY <1>1 DEF Rotate, AccessInv
<1>2. ASSUME NEW sender \in Senders, Fail(sender) PROVE AccessInv'
  BY <1>2 DEF Fail, AccessInv, Flights
<1>3. CASE UNCHANGED accessVars
  BY <1>3 DEF accessVars, AccessInv
<1> QED
  BY MintKept, RevokeKept, SendKept, AuthenticateKept, ApplyKept, LandKept, RestartKept,
     <1>1, <1>2, <1>3
     DEF AccessNext

LEMMA InvHolds == AccessSpec => []AccessInv
BY InvInit, AccessStep, PTL DEF AccessSpec

\* No stored record has a key that is no key, whatever was asked for at
\* whatever URL: names and ids are checked before they are stored.
THEOREM AccessTypeCorrect == AccessSpec => []AccessTypeOK
BY InvHolds, InvImpliesType, PTL

-----------------------------------------------------------------------------
(* Routes. *)

Listing == <<"v1", Capture, Capture>>
Changes == <<"v1", Capture, Capture, "changes">>
ManifestRoute == <<"v1", Capture, Capture, "manifest">>
Item == <<"v1", Capture, Capture, Capture>>
Batch == <<"v1", "ingest", Capture>>
Digests == <<"v1", "ingest", Capture, "digests">>
Record == <<"v1", "ingest", Capture, Capture>>

LEMMA RoutePaths ==
    {route.path : route \in Routes}
      = {<<"health">>, Listing, Changes, ManifestRoute, Item, Batch, Digests, Record}
BY DEF Routes, PublicRoutes, IngestRoutes, Listing, Changes, ManifestRoute, Item, Batch, Digests,
       Record

LEMMA Segments ==
    /\ Len(<<"health">>) = 1
    /\ Len(Listing) = 3 /\ Listing[1] = "v1" /\ Listing[2] = Capture /\ Listing[3] = Capture
    /\ Len(Batch) = 3 /\ Batch[2] = "ingest"
    /\ Len(Item) = 4
    /\ Item[1] = "v1" /\ Item[2] = Capture /\ Item[3] = Capture /\ Item[4] = Capture
    /\ Len(Changes) = 4
    /\ Changes[1] = "v1" /\ Changes[2] = Capture /\ Changes[3] = Capture /\ Changes[4] = "changes"
    /\ Len(ManifestRoute) = 4 /\ ManifestRoute[1] = "v1" /\ ManifestRoute[2] = Capture
    /\ ManifestRoute[3] = Capture /\ ManifestRoute[4] = "manifest"
    /\ Len(Digests) = 4
    /\ Digests[1] = "v1" /\ Digests[2] = "ingest" /\ Digests[3] = Capture
    /\ Digests[4] = "digests"
    /\ Len(Record) = 4
    /\ Record[1] = "v1" /\ Record[2] = "ingest" /\ Record[3] = Capture /\ Record[4] = Capture
BY DEF Listing, Batch, Changes, ManifestRoute, Item, Digests, Record

LEMMA Literals ==
    \A literal \in {"v1", "ingest", "changes", "manifest", "digests"} : literal # Capture
BY DEF Capture

LEMMA MatchesSegments ==
    /\ \A p, path : Len(p) = 3 /\ Len(path) = 3 /\ DOMAIN path = 1..3 =>
         (Matches(p, path) <=> /\ p[1] = Capture \/ p[1] = path[1]
                               /\ p[2] = Capture \/ p[2] = path[2]
                               /\ p[3] = Capture \/ p[3] = path[3])
    /\ \A p, path : Len(p) = 4 /\ Len(path) = 4 /\ DOMAIN path = 1..4 =>
         (Matches(p, path) <=> /\ p[1] = Capture \/ p[1] = path[1]
                               /\ p[2] = Capture \/ p[2] = path[2]
                               /\ p[3] = Capture \/ p[3] = path[3]
                               /\ p[4] = Capture \/ p[4] = path[4])
    /\ \A p, path : Len(p) # Len(path) => ~Matches(p, path)
<1>1. 1..3 = {1, 2, 3} /\ 1..4 = {1, 2, 3, 4}
  OBVIOUS
<1> QED
  BY <1>1 DEF Matches

\* Which routes a path of three segments matches.
LEMMA MatchesOfThree ==
    ASSUME NEW path, Len(path) = 3, DOMAIN path = 1..3, path[1] = "v1", path[2] # "ingest"
    PROVE  Patterns(path) = {Listing}
<1>1. Matches(Listing, path)
  BY MatchesSegments, Segments
<1>3. ~Matches(Batch, path)
  <2>1. Batch[2] # Capture /\ Batch[2] # path[2]
    BY Segments, Literals
  <2> QED
    BY MatchesSegments, Segments, <2>1
<1>2. /\ ~Matches(<<"health">>, path) /\ ~Matches(Changes, path) /\ ~Matches(ManifestRoute, path)
      /\ ~Matches(Item, path) /\ ~Matches(Digests, path) /\ ~Matches(Record, path)
  BY MatchesSegments, Segments
<1> QED
  BY <1>1, <1>2, <1>3, RoutePaths DEF Patterns

\* And which a path of four.
LEMMA MatchesOfFour ==
    ASSUME NEW path, Len(path) = 4, DOMAIN path = 1..4, path[1] = "v1"
    PROVE  Patterns(path) = {Item}
             \cup {p \in {Changes} : path[4] = "changes"}
             \cup {p \in {ManifestRoute} : path[4] = "manifest"}
             \cup {p \in {Digests} : path[2] = "ingest" /\ path[4] = "digests"}
             \cup {p \in {Record} : path[2] = "ingest"}
<1>1. Matches(Item, path)
  BY MatchesSegments, Segments
<1>2. /\ Matches(Changes, path) <=> path[4] = "changes"
      /\ Matches(ManifestRoute, path) <=> path[4] = "manifest"
  <2>1. Changes[4] # Capture /\ ManifestRoute[4] # Capture
    BY Segments, Literals
  <2> QED
    BY MatchesSegments, Segments, <2>1
<1>3. /\ Matches(Digests, path) <=> path[2] = "ingest" /\ path[4] = "digests"
      /\ Matches(Record, path) <=> path[2] = "ingest"
  <2>1. Digests[2] # Capture /\ Digests[4] # Capture /\ Record[2] # Capture
    BY Segments, Literals
  <2>2. Matches(Record, path) <=> path[2] = "ingest"
    BY MatchesSegments, Segments, <2>1
  <2> QED
    BY MatchesSegments, Segments, <2>1, <2>2
<1>4. ~Matches(<<"health">>, path) /\ ~Matches(Listing, path) /\ ~Matches(Batch, path)
  BY MatchesSegments, Segments
<1> QED
  BY <1>1, <1>2, <1>3, <1>4, RoutePaths DEF Patterns

\* Among the routes of four segments, the one that is literal first.
LEMMA Precedence ==
    /\ \A p \in {Changes, ManifestRoute} : Literal(p, Item) /\ ~Literal(Item, p)
    /\ \A p \in {Item, Changes, ManifestRoute} : Literal(Record, p) /\ ~Literal(p, Record)
    /\ \A p \in {Listing, Item, Changes, ManifestRoute, Record} : ~Literal(p, p)
<1>1. /\ 1..(4 - 1) = {1, 2, 3} /\ 1..(2 - 1) = {1}
      /\ 2 \in 1..(3 - 1) /\ 2 \in 1..(4 - 1)
  OBVIOUS
<1>2. \A p \in {Item, Changes, ManifestRoute, Record} : DOMAIN p = {1, 2, 3, 4}
  BY DEF Item, Changes, ManifestRoute, Record
<1>3. ASSUME NEW p \in {Changes, ManifestRoute}
      PROVE  Literal(p, Item)
  <2>1. p[4] # Item[4] /\ p[4] # Capture
    BY Segments DEF Capture
  <2>2. p[1] = Item[1] /\ p[2] = Item[2] /\ p[3] = Item[3]
    BY Segments
  <2>3. \A k \in 1..(4 - 1) : p[k] = Item[k]
    BY <1>1, <2>2
  <2> QED
    BY <1>2, <2>1, <2>3 DEF Literal
<1>4. ASSUME NEW p \in {Changes, ManifestRoute}
      PROVE  ~Literal(Item, p)
  BY <1>2, Segments DEF Literal
<1>5. ASSUME NEW p \in {Item, Changes, ManifestRoute}
      PROVE  Literal(Record, p) /\ ~Literal(p, Record)
  <2>1. Record[2] # p[2] /\ Record[2] # Capture /\ Record[1] = p[1]
    BY Segments DEF Capture
  <2>2. Literal(Record, p)
    BY <1>1, <1>2, <2>1 DEF Literal
  <2>3. ASSUME NEW n \in {1, 2, 3, 4}, p[n] # Record[n], p[n] # Capture
        PROVE  2 \in 1..(n - 1)
    BY <1>1, <2>3, Segments
  <2> QED
    BY <1>2, <2>1, <2>2, <2>3 DEF Literal
<1> QED
  BY <1>3, <1>4, <1>5 DEF Literal

\* A route that is chosen alone serves its method.
LEMMA ChosenServes ==
    ASSUME NEW path, NEW route \in Routes, Chosen(path) = {route.path},
           \A r \in Routes : r.path = route.path => r = route
    PROVE  Handler(route.method, path) = route.handler
<1>1. {r \in Routes : r.path \in Chosen(path)} = {route}
  OBVIOUS
<1> QED
  BY <1>1 DEF Handler

RouteOf(method, path, handler) == [method |-> method, path |-> path, handler |-> handler]

\* No two routes of these have one path.
LEMMA RoutesOfPaths ==
    /\ RouteOf("GET", Listing, "list_collection") \in Routes
    /\ RouteOf("GET", Item, "get_record") \in Routes
    /\ RouteOf("GET", Changes, "changes") \in Routes
    /\ RouteOf("GET", ManifestRoute, "manifest") \in Routes
    /\ RouteOf("DELETE", Record, "delete_record") \in Routes
    /\ \A r, s \in Routes : r.path = s.path => r = s
<1>1. Routes = { RouteOf("GET", <<"health">>, "health"),
                 RouteOf("GET", Listing, "list_collection"), RouteOf("GET", Changes, "changes"),
                 RouteOf("GET", ManifestRoute, "manifest"), RouteOf("GET", Item, "get_record"),
                 RouteOf("POST", Batch, "ingest"), RouteOf("GET", Digests, "digests"),
                 RouteOf("DELETE", Record, "delete_record") }
  BY DEF RouteOf, Routes, PublicRoutes, IngestRoutes, Listing, Item, Changes, ManifestRoute,
         Batch, Digests, Record
<1>2. /\ <<"health">> \notin {Listing, Changes, ManifestRoute, Item, Batch, Digests, Record}
      /\ Listing \notin {Changes, ManifestRoute, Item, Batch, Digests, Record}
      /\ Changes \notin {ManifestRoute, Item, Batch, Digests, Record}
      /\ ManifestRoute \notin {Item, Batch, Digests, Record}
      /\ Item \notin {Batch, Digests, Record}
      /\ Batch \notin {Digests, Record} /\ Digests # Record
  BY Segments DEF Capture
<1>3. \A m, p, h : RouteOf(m, p, h).path = p
  BY DEF RouteOf
<1> QED
  BY <1>1, <1>2, <1>3

\* The views of a collection, and the deletion of a record.
LEMMA ListingRoute ==
    ASSUME NEW path, Len(path) = 3, DOMAIN path = 1..3, path[1] = "v1", path[2] # "ingest"
    PROVE  Handler("GET", path) = "list_collection"
<1>1. Chosen(path) = {Listing}
  BY MatchesOfThree DEF Chosen, Literal
<1> DEFINE route == RouteOf("GET", Listing, "list_collection")
<1>2. route \in Routes /\ route.path = Listing /\ route.method = "GET"
      /\ route.handler = "list_collection"
  BY RoutesOfPaths DEF RouteOf
<1> HIDE DEF route
<1>3. Handler(route.method, path) = route.handler
  BY <1>1, <1>2, RoutesOfPaths, ChosenServes
<1> QED
  BY <1>2, <1>3

LEMMA ViewRoute ==
    ASSUME NEW path, Len(path) = 4, DOMAIN path = 1..4, path[1] = "v1", path[2] # "ingest"
    PROVE  /\ path[4] = "changes" => Handler("GET", path) = "changes"
           /\ path[4] = "manifest" => Handler("GET", path) = "manifest"
           /\ path[4] \notin {"changes", "manifest"} => Handler("GET", path) = "get_record"
<1>1. /\ path[4] = "changes" => Patterns(path) = {Item, Changes}
      /\ path[4] = "manifest" => Patterns(path) = {Item, ManifestRoute}
      /\ path[4] \notin {"changes", "manifest"} => Patterns(path) = {Item}
  BY MatchesOfFour
<1>2. /\ path[4] = "changes" => Chosen(path) = {Changes}
      /\ path[4] = "manifest" => Chosen(path) = {ManifestRoute}
      /\ path[4] \notin {"changes", "manifest"} => Chosen(path) = {Item}
  BY <1>1, Precedence DEF Chosen
<1>3. ASSUME NEW handler, NEW pattern, RouteOf("GET", pattern, handler) \in Routes,
             Chosen(path) = {pattern}
      PROVE  Handler("GET", path) = handler
  <2> DEFINE route == RouteOf("GET", pattern, handler)
  <2>1. route \in Routes /\ route.path = pattern /\ route.method = "GET"
        /\ route.handler = handler
    BY <1>3 DEF RouteOf
  <2> HIDE DEF route
  <2>2. Handler(route.method, path) = route.handler
    BY <1>3, <2>1, RoutesOfPaths, ChosenServes
  <2> QED
    BY <2>1, <2>2
<1> QED
  BY <1>2, <1>3, RoutesOfPaths

LEMMA DeleteRoute ==
    ASSUME NEW path, Len(path) = 4, DOMAIN path = 1..4, path[1] = "v1", path[2] = "ingest",
           path[4] # "digests"
    PROVE  Handler("DELETE", path) = "delete_record"
<1>1. /\ Record \in Patterns(path)
      /\ Patterns(path) \subseteq {Item, Changes, ManifestRoute, Record}
  BY MatchesOfFour
<1>2. Chosen(path) = {Record}
  BY <1>1, Precedence DEF Chosen
<1> DEFINE route == RouteOf("DELETE", Record, "delete_record")
<1>3. route \in Routes /\ route.path = Record /\ route.method = "DELETE"
      /\ route.handler = "delete_record"
  BY RoutesOfPaths DEF RouteOf
<1> HIDE DEF route
<1>4. Handler(route.method, path) = route.handler
  BY <1>2, <1>3, RoutesOfPaths, ChosenServes
<1> QED
  BY <1>3, <1>4

\* A stored record of a served collection is read at its URL and deleted at its URL,
\* and the views of its collection are reached, with the exceptions the property names.
THEOREM UrlsReachRecords == AccessSpec => []RecordsHaveTheirUrls
<1>1. ASSUME NEW key, key \in [source : Names, collection : Collections, id : RecordIds]
      PROVE  /\ key.source # "ingest" =>
                  /\ Handler("GET", SubSeq(ReadUrl(key), 1, 3)) = "list_collection"
                  /\ \A view \in {"changes", "manifest"} :
                       Handler("GET", ReadUrl([key EXCEPT !.id = view])) = view
                  /\ key.id \notin {"changes", "manifest"} =>
                       Handler("GET", ReadUrl(key)) = "get_record"
             /\ key.id # "digests" => Handler("DELETE", WriteUrl(key)) = "delete_record"
  <2>1. ASSUME NEW k, k.source # "ingest"
        PROVE  /\ k.id = "changes" => Handler("GET", ReadUrl(k)) = "changes"
               /\ k.id = "manifest" => Handler("GET", ReadUrl(k)) = "manifest"
               /\ k.id \notin {"changes", "manifest"} =>
                    Handler("GET", ReadUrl(k)) = "get_record"
    <3> DEFINE path == ReadUrl(k)
    <3>1. /\ Len(path) = 4 /\ DOMAIN path = 1..4
          /\ path[1] = "v1" /\ path[2] = k.source /\ path[4] = k.id
      BY DEF ReadUrl
    <3> HIDE DEF path
    <3>2. /\ k.id = "changes" => Handler("GET", path) = "changes"
          /\ k.id = "manifest" => Handler("GET", path) = "manifest"
          /\ k.id \notin {"changes", "manifest"} => Handler("GET", path) = "get_record"
      BY <2>1, <3>1, ViewRoute
    <3> QED
      BY <3>2 DEF path
  <2>2. ASSUME key.source # "ingest"
        PROVE  Handler("GET", SubSeq(ReadUrl(key), 1, 3)) = "list_collection"
    <3> DEFINE path == SubSeq(ReadUrl(key), 1, 3)
    <3>1. /\ Len(path) = 3 /\ DOMAIN path = 1..3
          /\ path[1] = "v1" /\ path[2] = key.source
      BY DEF ReadUrl
    <3> HIDE DEF path
    <3>2. Handler("GET", path) = "list_collection"
      BY <2>2, <3>1, ListingRoute
    <3> QED
      BY <3>2 DEF path
  <2>3. ASSUME key.id # "digests"
        PROVE  Handler("DELETE", WriteUrl(key)) = "delete_record"
    <3> DEFINE path == WriteUrl(key)
    <3>1. /\ Len(path) = 4 /\ DOMAIN path = 1..4
          /\ path[1] = "v1" /\ path[2] = "ingest" /\ path[4] = key.id
      BY DEF WriteUrl
    <3> HIDE DEF path
    <3>2. Handler("DELETE", path) = "delete_record"
      BY <2>3, <3>1, DeleteRoute
    <3> QED
      BY <3>2 DEF path
  <2>4. ASSUME NEW view \in {"changes", "manifest"}
        PROVE  /\ [key EXCEPT !.id = view].id = view
               /\ [key EXCEPT !.id = view].source = key.source
    BY <1>1
  <2>5. ASSUME key.source # "ingest", NEW view \in {"changes", "manifest"}
        PROVE  Handler("GET", ReadUrl([key EXCEPT !.id = view])) = view
    BY <2>1, <2>4, <2>5
  <2> QED
    BY <2>1, <2>2, <2>3, <2>5
<1>2. AccessInv => RecordsHaveTheirUrls
  BY <1>1 DEF AccessInv, RecordsHaveTheirUrls
<1> QED
  BY <1>2, InvHolds, PTL

-----------------------------------------------------------------------------
(* Writes. *)

\* A step that leaves the records and the flight of a source alone, or only ends requests.
LEMMA FewerWriters ==
    ASSUME AccessInv, NEW source,
           \A sender \in Senders : flight'[sender] = flight[sender]
                                   \/ flight'[sender].phase \in {"idle", "arrived"}
    PROVE  Writers(source)' \subseteq Writers(source)
BY DEF Writers

\* Applying a batch changes records of the source it was authenticated for.
LEMMA ApplyWritesOwn ==
    ASSUME AccessInv, NEW sender \in Senders, Apply(sender) \/ Land(sender), NEW source \in Names,
           {key \in stored : key.source = source} # {key \in stored' : key.source = source}
    PROVE  Writers(source) # {}
<1> DEFINE own == flight[sender].source
           written == Key(own, flight[sender].request.path[3], flight[sender].request.id)
<1>1. written.source = own
  BY DEF Key
<1>2. stored' \in {stored, stored \cup {written}, stored \ {written}}
  BY DEF Apply, Land, Written
<1>3. own = source
  BY <1>1, <1>2
<1> QED
  BY <1>3 DEF Writers, Apply, Land

\* A request is authenticated only where the credential it carries opens its source.
LEMMA AuthenticatedWhereOpen ==
    ASSUME AccessInv, NEW sender \in Senders, Authenticate(sender), NEW source \in Names,
           ~Open(source)
    PROVE  Writers(source)' \subseteq Writers(source)
<1> DEFINE hash == <<flight[sender].token, secret>>
<1>1. flight \in [Senders -> Flights]
  BY DEF AccessInv
<1>2. Authentic(flight[sender].token) => credentials[hash].source # source
  <2>1. hash[2] = secret
    OBVIOUS
  <2> QED
    BY <2>1 DEF Authentic, Open
<1>3. \A other \in Senders \ {sender} : flight'[other] = flight[other]
  BY <1>1 DEF Authenticate
<1>4. flight'[sender].phase = "idle" \/ flight'[sender].source # source
  BY <1>1, <1>2 DEF Authenticate, Idle
<1> QED
  BY <1>3, <1>4 DEF Writers

\* Records of a source change only by requests that were authenticated for it, and a
\* source whose credentials are all revoked gets no new writers.
THEOREM WritesNeedCredentials == AccessSpec => WritesFollowCredentials
<1> DEFINE Follows == \A source \in Names :
        /\ {key \in stored : key.source = source} # {key \in stored' : key.source = source}
             => Writers(source) # {}
        /\ ~Open(source) => Writers(source)' \subseteq Writers(source)
<1>1. ASSUME AccessInv, stored' = stored, UNCHANGED flight PROVE Follows
  BY <1>1 DEF Writers
<1>2. ASSUME AccessInv, NEW sender \in Senders, NEW request \in Requests, NEW token \in Tokens,
             Send(sender, request, token)
      PROVE  Follows
  <2>1. \A other \in Senders : flight'[other] = flight[other]
                                 \/ flight'[other].phase \in {"idle", "arrived"}
    BY <1>2 DEF Send, AccessInv
  <2> QED
    BY <1>2, <2>1, FewerWriters DEF Send
<1>3. ASSUME AccessInv, NEW sender \in Senders, Apply(sender) PROVE Follows
  <2>1. \A other \in Senders : flight'[other] = flight[other]
                                 \/ flight'[other].phase \in {"idle", "arrived"}
    BY <1>3 DEF Apply, AccessInv, Idle
  <2> QED
    BY <1>3, <2>1, FewerWriters, ApplyWritesOwn
<1>4. ASSUME AccessInv, NEW sender \in Senders, Fail(sender) PROVE Follows
  <2>1. \A other \in Senders : flight'[other] = flight[other]
                                 \/ flight'[other].phase \in {"idle", "arrived"}
    BY <1>4 DEF Fail, AccessInv, Idle
  <2> QED
    BY <1>4, <2>1, FewerWriters DEF Fail
<1>5. ASSUME AccessInv, NEW sender \in Senders, Authenticate(sender) PROVE Follows
  BY <1>5, AuthenticatedWhereOpen DEF Authenticate
<1>6. ASSUME AccessInv, Restart PROVE Follows
  <2>1. \A other \in Senders :
          \/ flight'[other] = flight[other]
          \/ flight'[other].phase = "idle"
          \/ /\ flight[other].phase = "authenticated"
             /\ flight'[other].source = flight[other].source
    BY <1>6 DEF Restart, Idle, AccessInv, Flights, Authenticated, Arrived, Outliving
  <2>2. \A source \in Names : Writers(source)' \subseteq Writers(source)
    BY <2>1 DEF Writers
  <2> QED
    BY <1>6, <2>2 DEF Restart
<1>7. ASSUME AccessInv, NEW sender \in Senders, Land(sender) PROVE Follows
  <2>1. \A other \in Senders : flight'[other] = flight[other]
                                 \/ flight'[other].phase \in {"idle", "arrived"}
    BY <1>7 DEF Land, AccessInv, Idle
  <2> QED
    BY <1>7, <2>1, FewerWriters, ApplyWritesOwn
<1>8. AccessInv /\ [AccessNext]_accessVars => [Follows]_accessVars
  <2> SUFFICES ASSUME AccessInv, AccessNext PROVE Follows
    OBVIOUS
  <2> HIDE DEF Follows
  <2>1. ASSUME NEW token \in Tokens, NEW source \in Names, NEW label \in Labels,
               Mint(token, source, label)
        PROVE  Follows
    BY <1>1, <2>1 DEF Mint
  <2>2. ASSUME NEW label \in Labels, Revoke(label) PROVE Follows
    BY <1>1, <2>2 DEF Revoke
  <2>3. ASSUME NEW new \in Secrets, Rotate(new) PROVE Follows
    BY <1>1, <2>3 DEF Rotate
  <2> QED
    BY <1>2, <1>3, <1>4, <1>5, <1>6, <1>7, <2>1, <2>2, <2>3 DEF AccessNext
<1> QED
  BY <1>8, InvHolds, PTL DEF AccessSpec, WritesFollowCredentials
=============================================================================
