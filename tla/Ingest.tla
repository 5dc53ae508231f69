------------------------------- MODULE Ingest -------------------------------
(***************************************************************************)
(* The way of a pushed document to the public: what the ingest handler     *)
(* refuses, what it stores of a batch (api/src/ingest.rs), the schema the  *)
(* service was started with, and the filters of a listing (core/src/       *)
(* filter.rs).  A batch is applied at once here; RecordStore is about how. *)
(***************************************************************************)
EXTENDS Projection

CONSTANTS
    Ids,           \* texts that are record ids
    NumberTexts,   \* texts that are numbers, one for each number
    IntegerTexts,  \* those that are integers
    MaxSize,       \* max_payload_bytes, in the units of Size
    MaxBatch,      \* MAX_BATCH
    Schemas,       \* the collection's schema files the operator deploys
    Batches,       \* the batches senders post
    Queries        \* the filters consumers ask for: [field, text]

NoId == "no id"

\* A parsed Envelope.
Envelopes == [op : {"upsert", "delete"}, id : Ids \cup {NoId}, payload : Json \cup {Absent}]

ASSUME IngestAssumption ==
    /\ NoId \notin Ids /\ IntegerTexts \subseteq NumberTexts
    /\ MaxSize \in Nat /\ MaxBatch \in Nat
    /\ \A schema \in Schemas : DocumentSpec(schema) \in Specs
    /\ \E schema \in Schemas : Accepted(schema)
    /\ Batches \subseteq Seq(Envelopes)

VARIABLES
    schema,    \* the schema the service was started with
    running,   \* whether it started
    records,   \* the live records, by id, with the history of each
    answer     \* the answer to the latest batch

vars == <<schema, running, records, answer>>

Init ==
    /\ schema \in {s \in Schemas : Accepted(s)}
    /\ running = TRUE
    /\ records = << >>
    /\ answer = "none"

\* Mutant: any number is taken.
ExtractedNumber(value) ==
    IF \/ value.kind = "string" /\ value.is \in Ids
       \/ value.kind = "number"
      THEN value.is ELSE NoId

\* A string is taken as it stands, an integer in decimal; nothing else is an id.
Extracted(value) ==
    IF \/ value.kind = "string" /\ value.is \in Ids
       \/ value.kind = "number" /\ value.is \in IntegerTexts \cap Ids
      THEN value.is ELSE NoId

\* The id the envelope states, or else the one the id path finds.
IdOf(envelope) ==
    IF envelope.id # NoId THEN envelope.id
                          ELSE Extracted(Resolve(schema.id, envelope.payload))

\* The size of what would be stored counts, not of what was sent.
TooLarge(envelope) == Size[Project(schema, envelope.payload).payload] > MaxSize

\* The envelope's payload is optional: null is read as if it were not there.
NoPayload(envelope) == envelope.payload.kind \in {"absent", "null"}

RefusedUpsert(envelope) ==
    IF NoPayload(envelope) THEN "missing_payload"
    ELSE IF IdOf(envelope) = NoId THEN "missing_id"
    ELSE IF envelope.payload.kind # "object" THEN "invalid_payload"
    ELSE IF TooLarge(envelope) THEN "payload_too_large"
    ELSE "none"

RefusedDelete(envelope) ==
    IF ~NoPayload(envelope) THEN "payload_on_delete"
    ELSE IF envelope.id = NoId THEN "missing_id"
    ELSE "none"

\* prepare: why an envelope is refused, "none" if it is not.
Refused(envelope) ==
    IF envelope.op = "upsert" THEN RefusedUpsert(envelope) ELSE RefusedDelete(envelope)

\* The record an upsert leaves: its stored payload, beside what was received
\* and under which schema.
Stored(envelope) ==
    LET projection == Project(schema, envelope.payload)
    IN  [payload |-> projection.payload, dropped |-> projection.dropped,
         received |-> envelope.payload, by |-> schema]

Applied(current, envelope) ==
    LET id == IdOf(envelope)
    IN  IF envelope.op = "upsert"
          THEN [i \in DOMAIN current \cup {id} |-> IF i = id THEN Stored(envelope) ELSE current[i]]
          ELSE [i \in DOMAIN current \ {envelope.id} |-> current[i]]

\* The position of the first envelope that is refused, 0 without one.
FirstRefused(batch) == SelectInSeq(batch, LAMBDA envelope : Refused(envelope) # "none")

Verdict(batch) ==
    IF Len(batch) > MaxBatch THEN "batch_too_large"
    ELSE IF FirstRefused(batch) # 0 THEN Refused(batch[FirstRefused(batch)])
    ELSE "ok"

\* POST: the whole batch, or nothing of it and the first refusal.
Post(batch) ==
    /\ running
    /\ answer' = Verdict(batch)
    /\ records' = IF answer' = "ok" THEN FoldLeft(Applied, records, batch) ELSE records
    /\ UNCHANGED <<schema, running>>

\* Mutant: what is stored is projected again, as if it had been pushed under
\* the new schema.
RestartReprojects(deployed) ==
    /\ running' = Accepted(deployed)
    /\ schema' = IF running' THEN deployed ELSE schema
    /\ answer' = "none"
    /\ records' = IF running'
         THEN [id \in DOMAIN records |->
                 [records[id] EXCEPT !.payload = Project(deployed, @).payload, !.by = deployed]]
         ELSE records

\* The operator deploys another schema and restarts the service, which does
\* not start with one it cannot accept.  Nothing stored is projected again.
Restart(deployed) ==
    /\ running' = Accepted(deployed)
    /\ schema' = IF running' THEN deployed ELSE schema
    /\ answer' = "none"
    /\ UNCHANGED records

Next == \/ \E batch \in Batches : Post(batch)
        \/ \E deployed \in Schemas : Restart(deployed)

Spec == Init /\ [][Next]_vars

-----------------------------------------------------------------------------
(* Filters of a listing. *)

\* Mutant: a filter compares the text, whatever the field's type.
CoerceToText(spec, text) == [kind |-> "string", is |-> text]

\* The text of a filter, as a value of the field's type.
Coerce(spec, text) == [kind |-> IF spec.kind = "scalar" THEN "string" ELSE spec.kind,
                       is |-> text]

FilterAccepted(query) ==
    /\ query.field \in Range(schema.filters)
    /\ schema.fields[query.field].kind = "number" => query.text \in NumberTexts
    /\ schema.fields[query.field].kind = "boolean" => query.text \in {"true", "false"}

\* payload @> filter, for a filter on one field.
Listed(query, payload) ==
    /\ query.field \in DOMAIN payload.fields
    /\ payload.fields[query.field] = Coerce(schema.fields[query.field], query.text)

-----------------------------------------------------------------------------
(* Properties. *)

Codes == {"none", "ok", "batch_too_large", "missing_payload", "missing_id",
          "invalid_payload", "payload_too_large", "payload_on_delete"}

\* The types, of ids in particular: whatever they were extracted from, they obey
\* the grammar of ids.
IngestTypeOK ==
    /\ schema \in Schemas
    /\ running \in BOOLEAN
    /\ DOMAIN records \subseteq Ids
    /\ answer \in Codes

\* What is stored is released, at every depth and in every array element, by the
\* schema it was pushed under: a key that schema does not name never gets in.
OnlyReleasedIsStored ==
    \A id \in DOMAIN records : Releases[<<DocumentSpec(records[id].by), records[id].payload>>]

\* What was received is stored or reported, and nothing is both: the stored
\* document is the one received without exactly the parts at the reported paths,
\* by its own keys and array indexes.  Each path leads to a part of it, and no part
\* is reported twice, or once more inside one that is reported.
NothingIsDroppedSilently ==
    \A id \in DOMAIN records :
        LET r == records[id]
        IN  /\ r.payload = Without[<<r.received, {drop.path : drop \in r.dropped}>>]
            /\ \A drop \in r.dropped : At(drop.path, r.received) # Absent
            /\ \A drop, other \in r.dropped : IsPrefix(drop.path, other.path) => other = drop

\* What a consumer reads can be pushed back: it is within the size limit and
\* nothing of it is dropped, so the record stays as it is.
ReadsBackUnchanged ==
    \A id \in DOMAIN records :
        /\ Size[records[id].payload] <= MaxSize
        /\ Project(records[id].by, records[id].payload)
             = [payload |-> records[id].payload, dropped |-> {}]

\* A schema that withdraws fields can be applied to what is stored: the result
\* is what the sender would get by pushing the original again.
ReprojectionNeedsNoSender ==
    \A id \in DOMAIN records :
        Narrower[<<DocumentSpec(schema), DocumentSpec(records[id].by)>>] =>
            Project(schema, records[id].payload).payload
              = Project(schema, records[id].received).payload

\* A filter that is accepted lists the records whose pushed document has the
\* field, with the declared type and the text asked for, and no others.
FiltersSeeWhatWasPushed ==
    \A id \in DOMAIN records : \A query \in Queries :
        FilterAccepted(query) /\ records[id].by = schema =>
            LET pushed == records[id].received.fields
            IN  Listed(query, records[id].payload) <=>
                  /\ query.field \in DOMAIN pushed
                  /\ pushed[query.field] =
                       [kind |-> schema.fields[query.field].kind, is |-> query.text]

\* A response has "the released fields, and nothing else": what is served of a
\* record, which is what is stored, is released by the schema the service runs
\* with.  Violated: a restart with a narrower schema leaves what is stored.
ServedIsReleased ==
    running => \A id \in DOMAIN records : Releases[<<DocumentSpec(schema), records[id].payload>>]
=============================================================================
