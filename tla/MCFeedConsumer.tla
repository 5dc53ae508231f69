--------------------------- MODULE MCFeedConsumer ---------------------------
(***************************************************************************)
(* Instances of FeedConsumer for TLC: one page holds at most two records,  *)
(* and a full document exceeds the byte budget by itself.                  *)
(***************************************************************************)
EXTENDS FeedConsumer, TLC

CONSTANTS a, b, doc, empty, w1, w2

Up(id) == [kind |-> "upsert", id |-> id, payload |-> doc]
Del(id) == [kind |-> "delete", id |-> id, payload |-> empty]
Batch(ops) == [auto |-> FALSE, ops |-> ops]

\* A change to each record, to both, and a deletion.
FeedRequests ==
    { Batch(<<Up(a)>>), Batch(<<Up(b), Up(a)>>), Batch(<<[Up(b) EXCEPT !.payload = empty]>>),
      [auto |-> TRUE, ops |-> <<Del(a)>>] }

OneEach == { Batch(<<Up(a)>>), Batch(<<Up(b)>>) }

DocSizes == (doc :> 3) @@ (empty :> 1)
=============================================================================
