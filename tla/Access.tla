------------------------------- MODULE Access -------------------------------
(***************************************************************************)
(* Who may write what, and at which URL it is read: the routes             *)
(* (router and ingest_router in api/src/lib.rs), the grammar of names and  *)
(* ids (core/src/ident.rs) and the credentials of senders (token.rs,       *)
(* ingest_token, Authenticated in api/src/ingest.rs).                      *)
(*                                                                         *)
(* A credential is looked up when a request arrives; the batch is applied  *)
(* later, and in between the operator may revoke the credential.  What is  *)
(* stored of a token is its HMAC, here the pair of token and secret.       *)
(* Statements of the store are one step here; RecordStore has them in full.*)
(***************************************************************************)
EXTENDS Naturals, Sequences

CONSTANTS
    Names,        \* the source and collection names validate_name accepts
    RecordIds,    \* the ids validate_id accepts
    Collections,  \* the collections a schema may declare
    Tokens, Secrets, Labels,
    Senders,      \* as many requests are in flight
    Requests      \* what senders send, apart from their token

\* A name is an id too: the grammar of ids is wider, and so is their length.
ASSUME GrammarAssumption == Names \subseteq RecordIds /\ Collections \subseteq Names

VARIABLES
    credentials,  \* ingest_token: from a token's HMAC to its row
    config,       \* the secret in the configuration
    secret,       \* the secret of the running service
    served,       \* the collections of the running service
    stored,       \* the keys of the live records
    flight        \* the request of each sender

accessVars == <<credentials, config, secret, served, stored, flight>>

-----------------------------------------------------------------------------
(* Routing. *)

\* A segment that is captured, whatever it is.
Capture == "{}"

\* router() and ingest_router(), merged into one.
PublicRoutes ==
    { [method |-> "GET", path |-> <<"health">>, handler |-> "health"],
      [method |-> "GET", path |-> <<"v1", Capture, Capture>>, handler |-> "list_collection"],
      [method |-> "GET", path |-> <<"v1", Capture, Capture, "changes">>, handler |-> "changes"],
      [method |-> "GET", path |-> <<"v1", Capture, Capture, "manifest">>, handler |-> "manifest"],
      [method |-> "GET", path |-> <<"v1", Capture, Capture, Capture>>, handler |-> "get_record"] }

IngestRoutes ==
    { [method |-> "POST", path |-> <<"v1", "ingest", Capture>>, handler |-> "ingest"],
      [method |-> "GET", path |-> <<"v1", "ingest", Capture, "digests">>, handler |-> "digests"],
      [method |-> "DELETE", path |-> <<"v1", "ingest", Capture, Capture>>,
       handler |-> "delete_record"] }

\* Mutant: a record is deleted at the URL it is read at.
DeletedWhereRead ==
    PublicRoutes \cup {route \in IngestRoutes : route.method # "DELETE"} \cup
    { [method |-> "DELETE", path |-> <<"v1", Capture, Capture, Capture>>,
       handler |-> "delete_record"] }

Routes == PublicRoutes \cup IngestRoutes

Matches(pattern, path) ==
    Len(pattern) = Len(path) /\ \A n \in DOMAIN path : pattern[n] \in {Capture, path[n]}

\* Whether a pattern is literal where the other one first differs from it.
Literal(pattern, other) ==
    \E n \in DOMAIN pattern :
        /\ pattern[n] # other[n] /\ pattern[n] # Capture
        /\ \A k \in 1..(n - 1) : pattern[k] = other[k]

Patterns(path) == {pattern \in {route.path : route \in Routes} : Matches(pattern, path)}

\* A literal segment goes before a capture, from the left.
Chosen(path) ==
    {pattern \in Patterns(path) : \A other \in Patterns(path) : ~Literal(other, pattern)}

\* The path alone chooses the route: a method it has no handler for is a 405.
Handler(method, path) ==
    LET routes == {route \in Routes : route.path \in Chosen(path)} IN
    IF routes = {} THEN "404"
    ELSE IF \A route \in routes : route.method # method THEN "405"
    ELSE (CHOOSE route \in routes : route.method = method).handler

IngestHandlers == {"ingest", "digests", "delete_record"}

Key(source, collection, id) == [source |-> source, collection |-> collection, id |-> id]
ReadUrl(key) == <<"v1", key.source, key.collection, key.id>>
WriteUrl(key) == <<"v1", "ingest", key.collection, key.id>>

-----------------------------------------------------------------------------
(* Credentials. *)

\* Mutant: the look-up does not ask whether the token was revoked.
EverMinted(token) == <<token, secret>> \in DOMAIN credentials

\* authenticate(): a row under the HMAC of the token, not revoked.
Authentic(token) ==
    <<token, secret>> \in DOMAIN credentials /\ ~credentials[<<token, secret>>].revoked

\* hydrant token mint: a new random token, hashed with the configured secret.
Mint(token, source, label) ==
    /\ \A hash \in DOMAIN credentials : hash[1] # token
    /\ credentials' = [hash \in DOMAIN credentials \cup {<<token, config>>} |->
         IF hash = <<token, config>> THEN [source |-> source, label |-> label, revoked |-> FALSE]
                                     ELSE credentials[hash]]
    /\ UNCHANGED <<config, secret, served, stored, flight>>

\* UPDATE ingest_token SET revoked_at = now() WHERE label = ...
Revoke(label) ==
    /\ \E hash \in DOMAIN credentials :
         credentials[hash].label = label /\ ~credentials[hash].revoked
    /\ credentials' = [hash \in DOMAIN credentials |->
         IF credentials[hash].label = label THEN [credentials[hash] EXCEPT !.revoked = TRUE]
                                            ELSE credentials[hash]]
    /\ UNCHANGED <<config, secret, served, stored, flight>>

\* The operator changes the secret; the running service keeps its own.
Rotate(new) ==
    /\ new # config /\ config' = new
    /\ UNCHANGED <<credentials, secret, served, stored, flight>>

-----------------------------------------------------------------------------
(* Requests to the ingest surface. *)

Idle == [phase |-> "idle"]

\* Anything else changes nothing.
Send(sender, request, token) ==
    /\ flight[sender] = Idle
    /\ Handler(request.method, request.path) \in IngestHandlers
    /\ flight' = [flight EXCEPT
         ![sender] = [phase |-> "arrived", request |-> request, token |-> token]]
    /\ UNCHANGED <<credentials, config, secret, served, stored>>

\* The extractor, before anything else of the request is looked at: 401, or a source.
Authenticate(sender) ==
    /\ flight[sender].phase = "arrived"
    /\ flight' = [flight EXCEPT ![sender] =
         IF Authentic(@.token)
           THEN [phase |-> "authenticated", request |-> @.request,
                 source |-> credentials[<<@.token, secret>>].source]
           ELSE Idle]
    /\ UNCHANGED <<credentials, config, secret, served, stored>>

\* Mutant: an id that came in a body is taken as it is.
BodiesTrusted(request) ==
    request.path[3] \in served /\ (request.method = "DELETE" => request.path[4] \in RecordIds)

\* The refusals: an ill-formed name is no collection, an undeclared collection a 404,
\* an ill-formed id, in the path or in the body, a 400.
Acceptable(request) ==
    /\ request.path[3] \in served
    /\ request.id \in RecordIds

Written(source, request) ==
    LET key == Key(source, request.path[3], request.id) IN
    CASE request.op = "upsert" -> stored \cup {key}
      [] request.op = "delete" -> stored \ {key}
      [] OTHER -> stored

\* Mutant: what a connection once authenticated as, its later requests are too.
KeepAuthenticated(sender) ==
    /\ flight[sender].phase = "authenticated"
    /\ stored' = IF Acceptable(flight[sender].request)
                   THEN Written(flight[sender].source, flight[sender].request) ELSE stored
    /\ \E request \in Requests : flight' = [flight EXCEPT ![sender].request = request]
    /\ UNCHANGED <<credentials, config, secret, served>>

\* The handler writes to the source of the credential, or refuses the request.
Apply(sender) ==
    /\ flight[sender].phase = "authenticated"
    /\ stored' = IF Acceptable(flight[sender].request)
                   THEN Written(flight[sender].source, flight[sender].request) ELSE stored
    /\ flight' = [flight EXCEPT ![sender] = Idle]
    /\ UNCHANGED <<credentials, config, secret, served>>

\* A write that the database still had to do when the service ended.
Land(sender) ==
    /\ flight[sender].phase = "sent"
    /\ stored' = Written(flight[sender].source, flight[sender].request)
    /\ flight' = [flight EXCEPT ![sender] = Idle]
    /\ UNCHANGED <<credentials, config, secret, served>>

\* A failure of the store, the request timeout or the sender ends a request early.
Fail(sender) ==
    /\ flight[sender] # Idle
    /\ flight' = [flight EXCEPT ![sender] = Idle]
    /\ UNCHANGED <<credentials, config, secret, served, stored>>

\* A restart reads the configuration and the schemas.  Requests end with the service,
\* but a statement or COMMIT it has sent may outlive it.
Restart ==
    /\ secret' = config
    /\ served' \in SUBSET Collections
    /\ \E outliving \in SUBSET {sender \in Senders :
            flight[sender].phase = "authenticated" /\ Acceptable(flight[sender].request)} :
         flight' = [sender \in Senders |->
             IF sender \in outliving THEN [flight[sender] EXCEPT !.phase = "sent"]
             ELSE IF flight[sender].phase = "sent" THEN flight[sender]
             ELSE Idle]
    /\ UNCHANGED <<credentials, config, stored>>

-----------------------------------------------------------------------------
AccessInit ==
    /\ credentials = <<>>
    /\ config \in Secrets /\ secret = config
    /\ served = Collections
    /\ stored = {}
    /\ flight = [sender \in Senders |-> Idle]

AccessNext ==
    \/ \E token \in Tokens, source \in Names, label \in Labels : Mint(token, source, label)
    \/ \E label \in Labels : Revoke(label)
    \/ \E new \in Secrets : Rotate(new)
    \/ \E sender \in Senders, request \in Requests, token \in Tokens :
         Send(sender, request, token)
    \/ \E sender \in Senders :
         Authenticate(sender) \/ Apply(sender) \/ Land(sender) \/ Fail(sender)
    \/ Restart

AccessSpec ==
    /\ AccessInit /\ [][AccessNext]_accessVars
    /\ \A sender \in Senders : /\ WF_accessVars(Authenticate(sender))
                               /\ WF_accessVars(Apply(sender)) /\ WF_accessVars(Land(sender))

-----------------------------------------------------------------------------
(* Properties. *)

Writers(source) ==
    {sender \in Senders :
        flight[sender].phase \in {"authenticated", "sent"} /\ flight[sender].source = source}

\* Whether anyone may write to a source: a credential under the secret the service
\* runs with, and not revoked.
Open(source) ==
    \E hash \in DOMAIN credentials :
        /\ hash[2] = secret
        /\ credentials[hash].source = source /\ ~credentials[hash].revoked

\* No record has a key that is no key: names and ids are checked before they are
\* stored, so every stored id fits a URL segment.
AccessTypeOK ==
    /\ \A hash \in DOMAIN credentials :
         /\ hash \in Tokens \X Secrets
         /\ credentials[hash] \in [source : Names, label : Labels, revoked : BOOLEAN]
    /\ config \in Secrets /\ secret \in Secrets
    /\ served \subseteq Collections
    /\ stored \subseteq [source : Names, collection : Collections, id : RecordIds]
    /\ \A sender \in Senders : flight[sender].phase \in {"idle", "arrived", "authenticated", "sent"}

\* A stored record of a served collection is read at its URL and deleted at its URL,
\* and the views of its collection are reached; except that `changes` and `manifest`
\* are no ids to read, `digests` none to delete, and `ingest` no source to read.
RecordsHaveTheirUrls ==
    \A key \in stored :
        key.collection \in served =>
            /\ key.source # "ingest" =>
                 /\ Handler("GET", SubSeq(ReadUrl(key), 1, 3)) = "list_collection"
                 /\ \A view \in {"changes", "manifest"} :
                      Handler("GET", ReadUrl([key EXCEPT !.id = view])) = view
                 /\ key.id \notin {"changes", "manifest"} =>
                      Handler("GET", ReadUrl(key)) = "get_record"
            /\ key.id # "digests" => Handler("DELETE", WriteUrl(key)) = "delete_record"

\* Records change only by the requests that were authenticated for their source, and
\* a source all of whose credentials are revoked, or were minted under another
\* secret, gets no new ones.
WritesFollowCredentials ==
    [][ \A source \in Names :
          /\ {key \in stored : key.source = source} # {key \in stored' : key.source = source}
               => Writers(source) # {}
          /\ ~Open(source) => Writers(source)' \subseteq Writers(source) ]_accessVars

\* Revocation takes effect: the requests that were authenticated before it end, and
\* from then on nobody writes to the source until it is opened again.
RevocationTakesEffect ==
    \A source \in Names : ~Open(source) ~> Writers(source) = {} \/ Open(source)
=============================================================================
