----------------------------- MODULE InsertOnce -----------------------------
(***************************************************************************)
(* What a caller of an insert through InstanceHandler._cmdb_call relies    *)
(* on: the row lands at most once, at any moment before the call ends, and *)
(* the call hands a row back only when that row is in the CMDB.  A call    *)
(* that ends without a row promises nothing about whether one landed.      *)
(***************************************************************************)
EXTENDS Naturals

VARIABLES landed,    \* how many rows this call has put in the CMDB
          outcome    \* "pending", "row" (handed back) or "none" (no row handed back)

vars == <<landed, outcome>>

Init == landed = 0 /\ outcome = "pending"

Land == landed = 0 /\ landed' = 1

\* One exchange with the CMDB: the row may land, and the call may end.
Exchange ==
    /\ outcome = "pending"
    /\ Land \/ UNCHANGED landed
    /\ outcome' \in {"pending", "row", "none"}
    /\ outcome' = "row" => landed' = 1

Next == Exchange

Spec == Init /\ [][Next]_vars
=============================================================================
