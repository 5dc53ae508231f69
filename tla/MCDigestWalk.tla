---------------------------- MODULE MCDigestWalk ----------------------------
(***************************************************************************)
(* Instances of DigestWalk for TLC.                                        *)
(***************************************************************************)
EXTENDS DigestWalk

CONSTANTS a, b, c, doc, empty, w1, w2

Up(id, payload) == [kind |-> "upsert", id |-> id, payload |-> payload]
Del(id) == [kind |-> "delete", id |-> id, payload |-> empty]
Batch(ops) == [auto |-> FALSE, ops |-> ops]

\* Batches that meet in opposite orders, and the delete endpoint: records are
\* created, changed and removed ahead of the walk and behind it.
CrossingRequests ==
    { Batch(<<Up(a, doc), Up(b, doc)>>), Batch(<<Up(c, doc), Up(b, empty), Up(a, empty)>>),
      [auto |-> TRUE, ops |-> <<Del(a)>>] }

Ranks == [i \in Ids |-> IF i = a THEN 1 ELSE IF i = b THEN 2 ELSE 3]
=============================================================================
