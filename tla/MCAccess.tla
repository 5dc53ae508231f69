------------------------------ MODULE MCAccess ------------------------------
(***************************************************************************)
(* Instance of Access for TLC: a source that shares its name with a        *)
(* literal segment, ids that do, an ill-formed id, and an undeclared       *)
(* collection.                                                             *)
(***************************************************************************)
EXTENDS Access

Post(op, id) ==
    [method |-> "POST", path |-> <<"v1", "ingest", "s">>, op |-> op, id |-> id]
Delete(id) ==
    [method |-> "DELETE", path |-> <<"v1", "ingest", "s", id>>, op |-> "delete", id |-> id]

AccessRequests ==
    { Post("upsert", "1"), Post("upsert", "changes"), Post("upsert", "/"),
      Delete("1"), Delete("changes"), Delete("digests"),
      [method |-> "GET", path |-> <<"v1", "ingest", "s", "digests">>, op |-> "read", id |-> "1"],
      [method |-> "POST", path |-> <<"v1", "ingest", "ingest">>, op |-> "upsert", id |-> "1"] }
=============================================================================
