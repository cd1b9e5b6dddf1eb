--------------------------- MODULE InstanceHandler ---------------------------
(***************************************************************************)
(* process_message over all of InstanceHandler: the tasks of AttachDetach  *)
(* and of ServerLifecycle, working on one CMDB.                            *)
(***************************************************************************)
EXTENDS HandlerTasks

CONSTANTS PrefixOf, Tables, LookupErrors, Refusals    \* see the two modules

\* What the two modules assume of messages and tables.
ASSUME InstanceAssumption ==
    /\ \A t \in Tasks :
          /\ Body[t].kind \in {"create", "delete", "attach", "detach", "resize"}
          /\ Body[t].kind = "resize" => Body[t].sets \subseteq {"price", "flavor"}
    /\ \A n \in Tables :
          /\ n.serial \in Nat \ {0}
          /\ \A s \in n.servers :
                /\ s = [id |-> s.id, uuid |-> s.uuid, hostname |-> s.hostname,
                        raw_info |-> s.raw_info, state |-> s.state, fields |-> s.fields]
                /\ s.id \in 1 .. n.serial - 1
          /\ \A r, s \in n.servers : r.id = s.id => r = s
          /\ \A e \in n.endpoints : e.id \in 1 .. n.serial - 1 /\ e.server \in 1 .. n.serial - 1
          /\ \A d, e \in n.endpoints : d.id = e.id => d = e
          /\ \A i \in n.ips : i.id \in 1 .. n.serial - 1 /\ i.endpoint \in 1 .. n.serial - 1

VARIABLES plan,         \* what each attach carries from call to call
          work,         \* what each create, delete and resize carries
          overridden    \* tasks whose effect one started later may undo

vars == <<cmdb, tasks, plan, work, overridden>>

Ports == INSTANCE AttachDetach WITH Networks <- Tables
Rows == INSTANCE ServerLifecycle

Init ==
    /\ Rows!Init
    /\ plan = [t \in Tasks |-> Ports!NoPlan]
    /\ overridden = {}

IsPort(t) == Body[t].kind \in {"attach", "detach"}

\* Whether t, started after u, may undo what u does.
Overrides(t, u) ==
    /\ t # u /\ Body[t].uuid = Body[u].uuid
    /\ \/ Body[t].kind \in {"create", "delete"}
       \/ IsPort(t) /\ IsPort(u) /\ Body[t].kind # Body[u].kind /\ Body[t].ip = Body[u].ip
       \/ {Body[t].kind, Body[u].kind} = {"resize"} /\ Body[t].sets \cap Body[u].sets # {}

\* process_message routes on action_type.
Start(t) ==
    /\ \/ IsPort(t) /\ Ports!Start(t) /\ UNCHANGED work
       \/ ~IsPort(t) /\ Rows!Start(t) /\ UNCHANGED plan
    /\ overridden' = (overridden \ {t}) \cup {u \in Tasks : Overrides(t, u)}

PortStep(t) ==
    /\ IsPort(t)
    /\ Ports!Attach(t) \/ Ports!Detach(t) \/ Ports!Unreachable(t) \/ Ports!Refuses(t)
    /\ UNCHANGED <<work, overridden>>

RowStep(t) ==
    /\ ~IsPort(t)
    /\ Rows!Create(t) \/ Rows!Removal(t) \/ Rows!Resize(t) \/ Rows!NotApplied(t)
    /\ UNCHANGED <<plan, overridden>>

Next ==
    \/ \E t \in Tasks :
          \/ Start(t)
          \/ PortStep(t)
          \/ RowStep(t)
          \/ AckLost(t) /\ UNCHANGED <<plan, work, overridden>>
    \/ Crash /\ UNCHANGED <<plan, work, overridden>>

Spec == Init /\ [][Next]_vars

-----------------------------------------------------------------------------
(* What the messages in hand may be to each other.  The queue promises     *)
(* neither; the handlers take no lock, so what they promise rests on it.   *)

\* None undoes what another one asks for.
NoneUndone == \A t, u \in Busy : ~Overrides(t, u)

\* No two put rows on one instance, and no two creates share a hostname.
WritersApart ==
    \A t, u \in Busy :
        t # u /\ {Body[t].kind, Body[u].kind} \subseteq {"create", "attach"} =>
            /\ Body[t].uuid # Body[u].uuid
            /\ {Body[t].kind, Body[u].kind} = {"create"} => Body[t].hostname # Body[u].hostname

-----------------------------------------------------------------------------
\* What a message asks for is in the CMDB, if it knows the server.
HasEffect(t) ==
    LET found == ServersOf(Body[t].uuid) IN
    CASE Body[t].kind = "create" -> \E s \in found : s.state \in {"ready", "error"}
      [] Body[t].kind = "delete" -> found = {}
      [] Body[t].kind = "attach" -> found # {} => Attached(Body[t].ip, Body[t].uuid) # {}
      [] Body[t].kind = "detach" -> Attached(Body[t].ip, Body[t].uuid) = {}
      [] OTHER -> \A s \in found, f \in Body[t].sets : s.fields[f] = t

(* What an acknowledged message did stands until a message that asks for   *)
(* something else is started, redeliveries included: no handler undoes     *)
(* what another one did to the rows they share, whatever was retried, cut  *)
(* off or delivered again in between.                                      *)
EffectStands == \A t \in Tasks \ overridden : pc[t] = "acked" => HasEffect(t)

\* The properties of attach, with servers that come and go.
PortOnItsCard == Ports!PortOnItsCard

OneOfEachType == Ports!OneOfEachType
=============================================================================
