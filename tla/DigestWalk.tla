----------------------------- MODULE DigestWalk -----------------------------
(***************************************************************************)
(* A walk of the digests of RecordStore's collection, with which a sender  *)
(* finds what differs from its own records: a page per request             *)
(* (GET /v1/ingest/{collection}/digests), and each page one statement      *)
(* (digests in store/src/postgres.rs), with any writes in between.         *)
(*                                                                         *)
(* The walk goes by id, in the order of the database.  A digest is the     *)
(* content hash of a payload, so the model has the payload.                *)
(***************************************************************************)
EXTENDS RecordStore, Paging

CONSTANTS
    Rank,      \* the order of the ids in the database
    Limit,     \* the page limit that is asked for
    MaxLimit   \* PageLimit::MAX

ASSUME RankAssumption ==
    /\ Rank \in [Ids -> Nat \ {0}]
    /\ \A i, j \in Ids : Rank[i] = Rank[j] => i = j

ASSUME LimitAssumption == Limit \in Nat /\ MaxLimit \in Nat \ {0}

\* A table has finitely many rows.
ASSUME TableAssumption == IsFiniteSet(Ids)

VARIABLES
    walk,      \* "off", "on", "done"
    after,     \* the cursor: the id already seen, as its rank
    found,     \* the digests that were read, Nothing for an id not listed
    repeated,  \* history: the ids that were listed more than once
    during     \* history: what was served of each id since the walk began

walking == <<walk, after, found, repeated, during>>
walkVars == <<vars, walking>>

Nothing == "nothing"
Values == Payloads \cup {Nothing}

Served(row) == IF Live(row) THEN row.payload ELSE Nothing

\* Mutant: the walk goes by feed position, as the listing does.
FeedOrder(i) == table[i].seq

\* What the walk is ordered and continued by.
WalkOrder(i) == Rank[i]

\* WHERE deleted_at IS NULL AND id > after ORDER BY id LIMIT limit.
Ahead == {i \in Ids : Live(table[i]) /\ WalkOrder(i) > after}
DigestEntries(limit) ==
    {i \in Ahead : Cardinality({j \in Ahead : WalkOrder(j) <= WalkOrder(i)}) <= limit}

\* Mutant: every page offers a cursor.
AlwaysNext(entries, limit) == Max({1} \cup {WalkOrder(i) : i \in entries})

\* The cursor: the last id of a full page, 0 (null) otherwise.
DigestNext(entries, limit) ==
    IF Cardinality(entries) = limit THEN Max({WalkOrder(i) : i \in entries}) ELSE 0

WalkInit ==
    /\ walk = "off"
    /\ after = 0
    /\ found = [i \in Ids |-> Nothing]
    /\ repeated = {}
    /\ during = [i \in Ids |-> {}]

StartWalk ==
    /\ walk = "off"
    /\ walk' = "on"
    /\ after' = 0
    /\ found' = [i \in Ids |-> Nothing]
    /\ repeated' = {}
    /\ during' = [i \in Ids |-> {Served(table[i])}]
    /\ UNCHANGED vars

ReadDigests ==
    /\ walk = "on"
    /\ LET limit == Clamp(Limit, MaxLimit)
           entries == DigestEntries(limit)
       IN  /\ found' = [i \in Ids |-> IF i \in entries THEN table[i].payload ELSE found[i]]
           /\ repeated' = repeated \cup {i \in entries : found[i] # Nothing}
           /\ after' = DigestNext(entries, limit)
    /\ walk' = IF after' = 0 THEN "done" ELSE "on"
    /\ UNCHANGED during
    /\ UNCHANGED vars

\* While the walk is on, what is served is taken down.
Watch ==
    /\ during' = [i \in Ids |-> IF walk = "on" THEN during[i] \cup {Served(table'[i])}
                                               ELSE during[i]]
    /\ UNCHANGED <<walk, after, found, repeated>>

WalkSpec ==
    /\ Init /\ WalkInit
    /\ [][(Next /\ Watch) \/ StartWalk \/ ReadDigests]_walkVars
    /\ \A w \in Writers : WF_vars(Advance(w)) /\ WF_vars(DeadlockDetected(w))
    /\ WF_walkVars(ReadDigests)

-----------------------------------------------------------------------------
(* Properties. *)

WalkTypeOK ==
    /\ walk \in {"off", "on", "done"}
    /\ after \in Nat
    /\ found \in [Ids -> Values]
    /\ repeated \subseteq Ids
    /\ during \in [Ids -> SUBSET Values]

\* A walk over several pages, with commits in between, lists each id at most
\* once, with a payload it had while the walk went on, and leaves out none that
\* was live all along.
WalkIsExact ==
    walk = "done" => /\ repeated = {}
                     /\ \A i \in Ids : found[i] \in during[i]

\* The walk comes to its end, whatever is written meanwhile.
WalkEnds == walk = "on" ~> walk = "done"
=============================================================================
