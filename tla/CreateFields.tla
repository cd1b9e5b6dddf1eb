---------------------------- MODULE CreateFields ----------------------------
(***************************************************************************)
(* The server fields of a create: how they are resolved from the message,  *)
(* its cmdb.* tags and two lookups, merged into one update, and written    *)
(* one by one when the CMDB refuses that.  Transport failures end a run of *)
(* the message and are in ServerLifecycle.                                 *)
(***************************************************************************)
EXTENDS Integers, Sequences, SequencesExt, FiniteSetsExt

\* A value is <<source, detail>>; a tag cmdb.<class>.<sub> is <<class, sub>>,
\* with sub "" when it has none, and stands for its own value.
NoValue == <<"", "">>

VARIABLES writes,     \* FieldWrites still to replay, by their place in the order
          row,        \* the fields of the server's row, by column
          errors,     \* FieldErrors: [field, mark_state_error, include_in_status_details]
          state,      \* the state of the row
          details,    \* status_details: the fields it reports on
          unknown     \* how many more writes may fail in an unknown way

fieldVars == <<writes, row, errors, state, details, unknown>>

Columns == {"dc", "cloud_resource_project_id", "tenant", "owner", "owner_id", "responsible",
            "responsible_id", "flavor", "server_monthly_payment", "cost_center",
            "cost_center_id", "role", "project", "task"}

FieldInit(failures) ==
    /\ unknown = failures
    /\ writes = <<>> /\ row = [c \in Columns |-> NoValue]
    /\ errors = {} /\ state = "setup" /\ details = {}

AddError(field, mark, include) ==
    errors' = errors \cup {[field |-> field, mark_state_error |-> mark,
                            include_in_status_details |-> include]}

-----------------------------------------------------------------------------
(* Resolving                                                               *)

CMDB_FIELDS_WHITELIST == {"state", "responsible", "owner", "role", "project", "task"}

CapTag == <<"cap_tenant", "name">>
StateTag == <<"state", "">>

\* Mutation of IsListed: the whole key is looked up, not the part to the dot.
IsListedWhole(tag) == tag[1] \in CMDB_FIELDS_WHITELIST /\ tag[2] = ""

IsListed(tag) == tag[1] \in CMDB_FIELDS_WHITELIST

\* The tags of the context, by their place in the message: without the state,
\* the tenant, and those not on the list unless the tenant was found or the
\* host is a k8s node.
cmdb_tags(m) ==
    {i \in DOMAIN m.tags :
        /\ m.tags[i] # CapTag /\ m.tags[i][1] # "state"
        /\ m.cap_tenant = "found" \/ m.k8s \/ IsListed(m.tags[i])}

\* The tag "state" names the state of a server without failures.
ready_state(m) == IF StateTag \in Range(m.tags) THEN "state tag" ELSE "ready"

\* The tags of one class; of those tags2cmdb_field keeps the last.
tag_fields(m, class) == {i \in cmdb_tags(m) : m.tags[i][1] = class}

FieldWrite(field, column, value) == [field |-> field, column |-> column, value |-> value]

Steps == <<"dc", "cloud_resource_project", "tenant", "owner", "responsible", "flavor",
           "server_monthly_payment", "cost_center">>

\* The column a rung of cap_tenant or resource_cloud writes.
IdColumn == [owner |-> "owner_id", responsible |-> "responsible_id",
             cost_center |-> "cost_center_id"]

\* cap_tenant, then tags, then resource_cloud, then a default.
Ladder(m, name) ==
    LET tags == tag_fields(m, name) IN
    IF m.cap_tenant = "found" THEN FieldWrite(<<name, "">>, IdColumn[name], <<"cap_tenant", name>>)
    ELSE IF tags # {} THEN FieldWrite(<<name, "">>, name, m.tags[Max(tags)])
    ELSE IF name \in m.resource_cloud
         THEN FieldWrite(<<name, "">>, IdColumn[name], <<"resource_cloud", name>>)
    ELSE FieldWrite(<<name, "">>, name, <<"default", name>>)

\* Whether a step of _CREATE_STEPS resolves to anything, and to what.
Resolves(m, name) ==
    /\ name = "cloud_resource_project" => m.resource_cloud # {}
    /\ name = "server_monthly_payment" => m.total_price

Resolve(m, name) ==
    IF name \in DOMAIN IdColumn THEN Ladder(m, name)
    ELSE IF name = "cloud_resource_project"
         THEN FieldWrite(<<name, "">>, "cloud_resource_project_id", <<"resource_cloud", name>>)
    ELSE FieldWrite(<<name, "">>, name, <<"message", name>>)

\* Tags no step in the table consumed, one write each.
leftover_tags(m) == {i \in cmdb_tags(m) : m.tags[i][1] \notin Range(Steps)}

\* The writes by their place: first those of the steps, then the tags.
create_writes(m) ==
    LET n == Len(Steps) IN
    [i \in {k \in 1 .. n : Resolves(m, Steps[k])} \cup {n + k : k \in leftover_tags(m)} |->
        IF i <= n THEN Resolve(m, Steps[i])
        ELSE LET tag == m.tags[i - n] IN FieldWrite(tag, tag[1], tag)]

\* The flags of a FieldStep; leftover tags have the defaults.
MarksState(field) == field \notin {<<"tenant", "">>, <<"flavor", "">>}
InDetails(field) == field # <<"flavor", "">>

-----------------------------------------------------------------------------
(* Writing                                                                 *)

\* The lookups: a tag that names no tenant is recorded.
FindTenant(m) ==
    /\ IF m.cap_tenant = "missing" THEN AddError(<<"cap_tenant", "">>, TRUE, TRUE)
       ELSE UNCHANGED errors
    /\ UNCHANGED <<writes, row, state, details, unknown>>

ResolveFields(m) ==
    /\ writes' = create_writes(m)
    /\ UNCHANGED <<row, errors, state, details, unknown>>

WritesOf(column) == {i \in DOMAIN writes : writes[i].column = column}

\* Mutation of LastWrite: the first write of a column wins.
FirstWrite(column) == writes[Min(WritesOf(column))].value

\* The value of a column in the batch: merged shallowly, the last one wins.
LastWrite(column) == writes[Max(WritesOf(column))].value

Batch == [c \in {w.column : w \in Range(writes)} |-> LastWrite(c)]

ApplyBatch == row' = [c \in Columns |-> IF c \in DOMAIN Batch THEN Batch[c] ELSE row[c]]

\* One update for all fields, refused as a whole for any value in bad.
BatchLands(bad) ==
    /\ Range(Batch) \cap bad = {}
    /\ ApplyBatch
    /\ writes' = <<>>
    /\ UNCHANGED <<errors, state, details, unknown>>

UnknownFailure == unknown > 0 /\ unknown' = unknown - 1

\* Refused, or failed in an unknown way, which may have applied it; neither
\* is recorded.
BatchFails(bad) ==
    /\ \/ Range(Batch) \cap bad # {} /\ UNCHANGED <<row, unknown>>
       \/ Range(Batch) \cap bad = {} /\ UnknownFailure /\ (ApplyBatch \/ UNCHANGED row)
    /\ UNCHANGED <<writes, errors, state, details>>

Apply(w) == row' = [row EXCEPT ![w.column] = w.value]

\* Mutation of RecordFailure: the two flags swapped.
RecordSwapped(w) == AddError(w.field, InDetails(w.field), MarksState(w.field))

RecordFailure(w) == AddError(w.field, MarksState(w.field), InDetails(w.field))

\* The replay: each write lands, or fails and is recorded.
ReplayWrite(bad) ==
    LET next == Min(DOMAIN writes)
        w == writes[next]
    IN
    /\ DOMAIN writes # {}
    /\ writes' = [i \in DOMAIN writes \ {next} |-> writes[i]]
    /\ \/ w.value \notin bad /\ Apply(w) /\ UNCHANGED <<errors, unknown>>
       \/ w.value \in bad /\ RecordFailure(w) /\ UNCHANGED <<row, unknown>>
       \/ /\ w.value \notin bad /\ UnknownFailure
          /\ RecordFailure(w) /\ (Apply(w) \/ UNCHANGED row)
    /\ UNCHANGED <<state, details>>

failed == \E e \in errors : e.mark_state_error

status_details == {e.field : e \in {d \in errors : d.include_in_status_details}}

StateLands(m) ==
    \/ failed /\ state' = "error" /\ details' = status_details
    \/ ~failed /\ state' = ready_state(m) /\ UNCHANGED details

\* The CMDB has no such state as the tag names.
StateRefused(m) == ~failed /\ StateTag \in Range(m.tags) \cap m.bad

\* The last write of create_instances: it lands, or it is refused or fails in
\* an unknown way, which is recorded and changes nothing of the message's end.
SetState(m) ==
    /\ \/ ~StateRefused(m) /\ StateLands(m) /\ UNCHANGED <<errors, unknown>>
       \/ /\ StateRefused(m) /\ AddError(<<"state", "">>, TRUE, TRUE)
          /\ UNCHANGED <<state, details, unknown>>
       \/ /\ ~StateRefused(m) /\ UnknownFailure
          /\ AddError(<<"state", "">>, TRUE, TRUE)
          /\ StateLands(m) \/ UNCHANGED <<state, details>>
    /\ UNCHANGED <<writes, row>>
=============================================================================
