--------------------------- MODULE MCRecordStore ---------------------------
(***************************************************************************)
(* Instances of RecordStore for TLC.                                       *)
(***************************************************************************)
EXTENDS RecordStore, TLC

CONSTANTS a, b, doc, empty, w1, w2, w3

Up(id) == [kind |-> "upsert", id |-> id, payload |-> doc]
Del(id) == [kind |-> "delete", id |-> id, payload |-> empty]
Batch(ops) == [auto |-> FALSE, ops |-> ops]

\* Batches that meet in opposite orders, the delete endpoint, the same id twice, an
\* empty batch and an empty document.
MixedRequests ==
    { Batch(<<Up(a), Up(b)>>), Batch(<<Up(b), Del(a)>>),
      Batch(<<Del(a), Up(a)>>), Batch(<<[Up(a) EXCEPT !.payload = empty]>>), Batch(<< >>),
      [auto |-> TRUE, ops |-> <<Del(a)>>] }

Symmetry == Permutations({w1, w2, w3})
=============================================================================
