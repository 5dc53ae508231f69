---------------------------- MODULE AtomicStore ----------------------------
(***************************************************************************)
(* What the store promises its readers: the collection changes only by     *)
(* whole publications.  A publication replaces the rows of some ids at     *)
(* once, each at a feed position above its old one that no row ever had    *)
(* before and no other row gets, and a deleted row carries no payload.     *)
(* Seq (core/src/ident.rs) and the Store trait (store/src/store.rs) say    *)
(* so; RecordStore implements it with statements, locks and transactions.  *)
(***************************************************************************)
EXTENDS Naturals

CONSTANTS Ids, Payloads, EmptyDoc

VARIABLES
    table,      \* the committed row of every id; seq 0 where there is none
    published   \* every position a committed row ever had

Rows == [seq : Nat, payload : Payloads, deleted : BOOLEAN]
NoRow == [seq |-> 0, payload |-> EmptyDoc, deleted |-> FALSE]

Init ==
    /\ table = [i \in Ids |-> NoRow]
    /\ published = {}

Changed == {i \in Ids : table'[i] # table[i]}

Publish ==
    /\ table' \in [Ids -> Rows]
    /\ \A i \in Changed :
         /\ table'[i].seq > table[i].seq
         /\ table'[i].seq \notin published
         /\ table'[i].deleted => table'[i].payload = EmptyDoc
    /\ \A i, j \in Changed : i # j => table'[i].seq # table'[j].seq
    /\ published' = published \cup {table'[i].seq : i \in Changed}

Spec == Init /\ [][Publish]_<<table, published>>
=============================================================================
