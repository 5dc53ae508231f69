------------------------------- MODULE Sender -------------------------------
(***************************************************************************)
(* A sender that keeps the collection of RecordStore equal to its own      *)
(* records.  It pushes what it changes, in a batch or record by record     *)
(* with DELETE.  What is not acknowledged it sends again, or gives up for  *)
(* what its records ask for by then; each request goes to another          *)
(* connection, while those before may still be at work.  When there is     *)
(* nothing to push it walks the digests and repairs what differs, which is *)
(* what the service has them for.                                          *)
(***************************************************************************)
EXTENDS DigestWalk, SequencesExt

CONSTANTS
    Versions,   \* the payloads the sender may have of each id
    First,      \* what it has of each id at first, a payload or Nothing
    MaxEdits,   \* bound of the exploration: changes of the sender's records
    MaxFaults   \* bound of the exploration: failures the sender is told of

ASSUME VersionsAssumption ==
    /\ Versions \in [Ids -> SUBSET Payloads]
    /\ First \in [Ids -> Values]

VARIABLES
    truth,     \* what the sender has of each id, a payload or Nothing
    dirty,     \* the ids it knows it has to push
    batch,     \* the operations it is getting stored, << >> if none
    single,    \* whether they go to the DELETE endpoint
    serving,   \* the connection that serves them, if they were sent
    racing,    \* history: the connections that were still at work on requests
               \* given up before, when these were sent
    acked,     \* history: what it was last told is stored of each id
    doubts,    \* history: what requests it had no answer to may make of each id
    edits,     \* how often the sender's records changed
    faults     \* how many of its requests failed

told == <<acked, doubts>>
sending == <<truth, dirty, batch, single, serving, racing, told, edits>>
senderVars == <<walkVars, sending, faults>>

\* Mutant: what was removed is pushed as an empty payload.
UpsertFor(i) == [kind |-> "upsert", id |-> i, payload |-> truth[i]]

OpFor(i) == IF truth[i] = Nothing
              THEN [kind |-> "delete", id |-> i, payload |-> EmptyDoc]
              ELSE [kind |-> "upsert", id |-> i, payload |-> truth[i]]

\* A batch for the ids of S.
BatchFor(S) == LET ids == SetToSeq(S) IN [n \in DOMAIN ids |-> OpFor(ids[n])]

\* What is served once an operation has taken effect.
Effect(op) == IF op.kind = "delete" THEN Nothing ELSE op.payload

\* What the operations of a request ask to be served of an id.
Asked(ops, i) == {Effect(op) : op \in {o \in Range(ops) : o.id = i}}

SenderInit ==
    /\ Init /\ WalkInit
    /\ truth = First
    /\ dirty = {i \in Ids : truth[i] # Nothing}
    /\ batch = << >> /\ single = FALSE
    /\ serving = {} /\ racing = {}
    /\ acked = [i \in Ids |-> Nothing]
    /\ doubts = [i \in Ids |-> {}]
    /\ edits = 0
    /\ faults = 0

\* A record of the sender changes.  That it has to be pushed may get lost: that is
\* how the two drift apart.
Edit(i) ==
    /\ edits < MaxEdits
    /\ edits' = edits + 1
    /\ \E value \in (Versions[i] \cup {Nothing}) \ {truth[i]} :
         truth' = [truth EXCEPT ![i] = value]
    /\ dirty' \in {dirty, dirty \cup {i}}
    /\ UNCHANGED <<walkVars, batch, single, serving, racing, told, faults>>

\* All that is to be pushed goes into a batch.
Push ==
    /\ batch = << >> /\ walk = "off"
    /\ dirty # {}
    /\ batch' = BatchFor(dirty)
    /\ dirty' = {}
    /\ UNCHANGED <<walkVars, truth, single, serving, racing, told, edits, faults>>

\* Or a record that was removed is deleted by itself.
PushDelete(i) ==
    /\ batch = << >> /\ walk = "off"
    /\ i \in dirty /\ truth[i] = Nothing
    /\ batch' = <<OpFor(i)>> /\ single' = TRUE
    /\ dirty' = dirty \ {i}
    /\ UNCHANGED <<walkVars, truth, serving, racing, told, edits, faults>>

\* Nobody waits for it any more, and yet it may take effect: a DELETE, whatever
\* has become of it, or a batch whose COMMIT was sent.
StillAtWork(v) == pc[v] # "idle" /\ (request[v].auto \/ pc[v] = "commit")

\* The request is sent, for the first time or again, on any free connection.
Send(w) ==
    /\ batch # << >>
    /\ serving = {}
    /\ Begin(w)
    /\ request'[w] = [auto |-> single, ops |-> batch]
    /\ serving' = {w}
    /\ racing' = {v \in Writers : StillAtWork(v)}
    /\ UNCHANGED <<walking, truth, dirty, batch, single, told, edits, faults>>

\* What may come after the operation and undo it: for an upsert a DELETE that is
\* still at work, for a delete a batch whose COMMIT it did not wait for.
Undoing(op) ==
    UNION {Asked(request[v].ops, op.id) :
             v \in {u \in racing : request[u].auto <=> op.kind = "upsert"}}

\* The operations of the batch have been acknowledged.
Acknowledged ==
    LET op(i) == CHOOSE o \in Range(batch) : o.id = i
        known == {o.id : o \in Range(batch)}
    IN  /\ acked' = [i \in Ids |-> IF i \in known THEN Effect(op(i)) ELSE acked[i]]
        /\ doubts' = [i \in Ids |-> IF i \in known THEN Undoing(op(i)) ELSE doubts[i]]

\* The batch is given up: what it asked for may be stored or not, and what the
\* sender has of these ids by then is pushed later, or not until a walk.
GivenUp ==
    /\ acked' = acked
    /\ doubts' = [i \in Ids |-> doubts[i] \cup Asked(batch, i)]
    /\ dirty' \in {dirty, dirty \cup {o.id : o \in Range(batch)}}

\* The answer arrives: after anything but a success the request is sent again,
\* or given up.
TakeAnswer(w) ==
    /\ w \in serving
    /\ answer[w] # "none"
    /\ serving' = {} /\ racing' = {}
    /\ \/ /\ answer[w] = "ok" /\ Acknowledged
          /\ batch' = << >> /\ single' = FALSE /\ UNCHANGED dirty
       \/ /\ answer[w] # "ok" /\ GivenUp
          /\ batch' = << >> /\ single' = FALSE
       \/ /\ answer[w] # "ok"
          /\ UNCHANGED <<dirty, batch, single, told>>
    /\ UNCHANGED <<walkVars, truth, edits, faults>>

Walk ==
    /\ batch = << >>
    /\ (dirty = {} /\ StartWalk) \/ ReadDigests
    /\ UNCHANGED <<sending, faults>>

\* The walk is over, and shows what differs.
Repair ==
    /\ walk = "done"
    /\ walk' = "off"
    /\ batch' = BatchFor({i \in Ids : found[i] # truth[i]})
    /\ found' = [i \in Ids |-> Nothing]
    /\ during' = [i \in Ids |-> {}]
    /\ UNCHANGED <<vars, after, repeated, truth, dirty, single, serving, racing, told, edits,
                   faults>>

\* The store goes on with a request; the sender is told of so many failures.
StoreStep(w) ==
    /\ Advance(w) \/ RequestTimesOut(w) \/ StoreFails(w) \/ DeadlockDetected(w)
    /\ Watch
    /\ faults' = IF answer'[w] \in {answer[w], "ok"} THEN faults ELSE faults + 1
    /\ faults' <= MaxFaults
    /\ UNCHANGED sending

SenderNext ==
    \/ Push \/ Walk \/ Repair
    \/ \E i \in Ids : Edit(i) \/ PushDelete(i)
    \/ \E w \in Writers : Send(w) \/ TakeAnswer(w) \/ StoreStep(w)

\* The store and the sender keep going; nothing is assumed of edits and faults.
SenderSpec ==
    /\ SenderInit /\ [][SenderNext]_senderVars
    /\ WF_senderVars(Push \/ Walk \/ Repair)
    /\ \A w \in Writers :
         /\ WF_senderVars(Send(w) \/ TakeAnswer(w))
         /\ WF_senderVars(Advance(w) /\ StoreStep(w))

-----------------------------------------------------------------------------
(* Properties. *)

SenderTypeOK ==
    /\ WalkTypeOK
    /\ truth \in [Ids -> Values]
    /\ dirty \subseteq Ids
    /\ batch \in Seq(Ops) /\ single \in BOOLEAN
    /\ serving \subseteq Writers /\ Cardinality(serving) <= 1
    /\ racing \subseteq Writers \ serving
    /\ acked \in [Ids -> Values]
    /\ doubts \in [Ids -> SUBSET Values]
    /\ edits \in Nat /\ faults \in Nat

\* What is served of a record is what the sender was last told is stored of it,
\* but for what it asked for and had no answer to: what it is pushing, what it
\* gave up since, and what a request it gave up before and that was still at
\* work when it sent the acknowledged one may do after it.  That is a DELETE
\* (after an upsert) or a batch whose COMMIT was on its way (after a delete), and
\* nothing else: a batch given up earlier than that never takes an acknowledged
\* write back, and no repetition or failure does.
LatestAcknowledgedIsServed ==
    \A i \in Ids : Served(table[i]) \in {acked[i]} \cup doubts[i] \cup Asked(batch, i)

\* Once its records stop changing, what is served is what the sender has, also
\* of the changes it lost track of, and stays so.
SenderConverges == <>[](\A i \in Ids : Served(table[i]) = truth[i])
=============================================================================
