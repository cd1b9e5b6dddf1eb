---------------------------- MODULE HandlerUtils ----------------------------
(***************************************************************************)
(* The pure functions of handler_utils that the handlers decide by.        *)
(* Endpoint name n stands for "bond<n>"; other names never count.          *)
(***************************************************************************)
EXTENDS Integers, FiniteSets

\* The lowest free bondN.
next_bond_name(taken) ==
    CHOOSE n \in 0 .. Cardinality(taken) : n \notin taken /\ 0 .. (n - 1) \subseteq taken

\* Mutation of resolve_ip_type: the types in use are not looked at.
TypeOfPrefix(prefix, used) == IF prefix \in {"be", "fe"} THEN prefix ELSE "int"

resolve_ip_type(prefix, used) ==
    IF prefix \in {"be", "fe"} \ used THEN prefix ELSE "int"
=============================================================================
