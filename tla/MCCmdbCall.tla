----------------------------- MODULE MCCmdbCall -----------------------------
(* Instances of CmdbCall: the shapes of the call sites in handler.py.      *)
EXTENDS CmdbCall

Shape(insert, selector, unique, raises, records) ==
    [insert |-> insert, selector |-> selector, unique |-> unique,
     raises |-> raises, records |-> records]

\* _recreate_server_row; the endpoints and ips of create; attach's endpoint.
ExactInserts ==
    { Shape(TRUE, "exact", TRUE, TRUE, FALSE),
      Shape(TRUE, "exact", TRUE, FALSE, TRUE) }

\* An exact insert without a constraint behind it: recovery stands alone.
UnconstrainedInsert == Shape(TRUE, "exact", FALSE, FALSE, TRUE)

\* attach's ip insert, with and without a prefix_id for the constraint.
AttachIpInserts ==
    { Shape(TRUE, "lenient", TRUE, TRUE, FALSE),
      Shape(TRUE, "lenient", FALSE, TRUE, FALSE) }

\* Selects, updates and deletes: those of attach, detach and delete, those
\* of create that record, and the batch update and lookups that do neither.
Repeatable ==
    { Shape(FALSE, "none", FALSE, TRUE, FALSE),
      Shape(FALSE, "none", FALSE, FALSE, TRUE),
      Shape(FALSE, "none", FALSE, TRUE, TRUE),
      Shape(FALSE, "none", FALSE, FALSE, FALSE) }

\* Every shape but an ip of attach without a prefix_id, which can land twice.
SafeShapes == ExactInserts \cup {UnconstrainedInsert} \cup Repeatable
                  \cup {s \in AttachIpInserts : s.unique}
=============================================================================
