--------------------------- MODULE MCMessageRetry ---------------------------
(* Instance of MessageRetry: the insert of a server row, made under a      *)
(* selector that raises when it cannot look.                               *)
EXTENDS MessageRetry

ServerInsert ==
    {[insert |-> TRUE, selector |-> "exact", unique |-> TRUE, raises |-> TRUE, records |-> FALSE]}
=============================================================================
