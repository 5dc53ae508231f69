------------------------------ MODULE MCSender ------------------------------
(***************************************************************************)
(* Instances of Sender for TLC.                                            *)
(***************************************************************************)
EXTENDS Sender

CONSTANTS a, b, doc, empty, w1, w2

\* Against the order they are usually pushed in.
Ranks == [i \in Ids |-> IF i = a THEN 1 ELSE 2]

\* One record is changed, created and removed, the other only created and removed.
OneChanges == [i \in Ids |-> IF i = a THEN {doc, empty} ELSE {doc}]

AllAreNew == [i \in Ids |-> doc]

\* Every batch and every DELETE.
AllRequests ==
    {[auto |-> FALSE, ops |-> ops] : ops \in
        UNION {[1..n -> Ops] : n \in 1..Cardinality(Ids)}}
    \cup {[auto |-> TRUE, ops |-> <<op>>] : op \in {o \in Ops : o.kind = "delete"}}
=============================================================================
