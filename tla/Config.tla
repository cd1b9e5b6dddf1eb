------------------------------- MODULE Config -------------------------------
(***************************************************************************)
(* The settings of the process, read from its environment.  None and a     *)
(* raised RuntimeError are the empty set, and any other value a singleton: *)
(* from_env is the set of the configurations the process can start with.   *)
(* A variable is what it says as text, and as an integer if it is one.     *)
(***************************************************************************)
EXTENDS Integers, TLAPS

CONSTANT Text       \* what a variable may say

Optional(S) == {{}} \cup {{v} : v \in S}

Variable == {v \in [text : Optional(Text), int : Optional(Int)] :
                v.int # {} => v.text # {}}

env_str(var, default) == IF var.text # {} THEN var.text ELSE default

env_int(var, default, minimum) ==
    LET value == {i \in var.int : \A m \in minimum : i >= m} IN
    IF value # {} THEN value ELSE default

Required == {"CMDB_URL", "CMDB_USERNAME", "CMDB_PASSWORD", "AMQP_HOST", "AMQP_USERNAME",
             "AMQP_PASSWORD", "AMQP_VHOST", "AMQP_QUEUE"}

Environment ==
    [Required \cup {"AMQP_PORT", "AMQP_PREFETCH_COUNT", "MAX_MESSAGE_PROCESS_RETRIES",
                    "MIN_MESSAGE_PROCESS_RETRY_DELAY", "CMDB_TRANSPORT_ATTEMPTS"} -> Variable]

\* The settings with a default that are only passed on are left out.
from_env(env) ==
    [required :
        {f \in [Required -> Text] : \A name \in Required : f[name] \in env_str(env[name], {})},
     amqp_port : env_int(env["AMQP_PORT"], {}, {1}),
     amqp_prefetch_count : env_int(env["AMQP_PREFETCH_COUNT"], {10}, {1}),
     max_message_process_retries : env_int(env["MAX_MESSAGE_PROCESS_RETRIES"], {3}, {1}),
     min_message_process_retry_delay : env_int(env["MIN_MESSAGE_PROCESS_RETRY_DELAY"], {2}, {0}),
     cmdb_transport_attempts : env_int(env["CMDB_TRANSPORT_ATTEMPTS"], {5}, {1})]

-----------------------------------------------------------------------------
(* Whatever the environment says, the process starts with at least one     *)
(* message in hand, one run of a message and one attempt of a call: what   *)
(* the other modules assume of their constants (config.py, from_env).      *)
Bounded(c) ==
    /\ c.amqp_port \in Nat \ {0}
    /\ c.amqp_prefetch_count \in Nat \ {0}
    /\ c.max_message_process_retries \in Nat \ {0}
    /\ c.min_message_process_retry_delay \in Nat
    /\ c.cmdb_transport_attempts \in Nat \ {0}

(* An integer setting is never below its minimum, as its default is not.   *)
LEMMA IntAtLeast ==
    ASSUME NEW var \in Variable, NEW default, NEW min \in Int, \A d \in default : d \in Int /\ d >= min
    PROVE  \A i \in env_int(var, default, {min}) : i \in Int /\ i >= min
<1>1. var.int \subseteq Int
  BY DEF Variable, Optional
<1>2. QED
  BY <1>1 DEF env_int

(* Every configuration the process can start with is within its bounds.    *)
THEOREM ConfigBounded ==
    ASSUME NEW env \in Environment
    PROVE  \A c \in from_env(env) : Bounded(c)
<1> TAKE c \in from_env(env)
<1>1. /\ env["AMQP_PORT"] \in Variable
      /\ env["AMQP_PREFETCH_COUNT"] \in Variable
      /\ env["MAX_MESSAGE_PROCESS_RETRIES"] \in Variable
      /\ env["MIN_MESSAGE_PROCESS_RETRY_DELAY"] \in Variable
      /\ env["CMDB_TRANSPORT_ATTEMPTS"] \in Variable
  BY DEF Environment
<1>2. \A i \in env_int(env["AMQP_PORT"], {}, {1}) : i \in Int /\ i >= 1
  BY <1>1, IntAtLeast
<1>3. \A i \in env_int(env["AMQP_PREFETCH_COUNT"], {10}, {1}) : i \in Int /\ i >= 1
  BY <1>1, IntAtLeast
<1>4. \A i \in env_int(env["MAX_MESSAGE_PROCESS_RETRIES"], {3}, {1}) : i \in Int /\ i >= 1
  BY <1>1, IntAtLeast
<1>5. \A i \in env_int(env["MIN_MESSAGE_PROCESS_RETRY_DELAY"], {2}, {0}) : i \in Int /\ i >= 0
  BY <1>1, IntAtLeast
<1>6. \A i \in env_int(env["CMDB_TRANSPORT_ATTEMPTS"], {5}, {1}) : i \in Int /\ i >= 1
  BY <1>1, IntAtLeast
<1>7. QED
  BY <1>2, <1>3, <1>4, <1>5, <1>6 DEF from_env, Bounded

(* Nothing but a required setting, or the port, keeps the process from     *)
(* starting: a bad value of an optional one falls back to its default.     *)
THEOREM OnlyRequiredStop ==
    ASSUME NEW env \in Environment
    PROVE  from_env(env) # {} <=>
               /\ \A name \in Required : env[name].text # {}
               /\ \E port \in env["AMQP_PORT"].int : port >= 1
<1> DEFINE required == {f \in [Required -> Text] :
                           \A name \in Required : f[name] \in env_str(env[name], {})}
           port == env_int(env["AMQP_PORT"], {}, {1})
<1>1. from_env(env) # {} <=> required # {} /\ port # {}
  <2>1. ASSUME NEW c \in from_env(env) PROVE required # {} /\ port # {}
    BY DEF from_env
  <2>2. ASSUME NEW f \in required, NEW p \in port PROVE from_env(env) # {}
    <3>1. \A var, min : \A d : \E i : i \in env_int(var, {d}, {min})
      BY DEF env_int
    <3>2. PICK a : a \in env_int(env["AMQP_PREFETCH_COUNT"], {10}, {1})
      BY <3>1
    <3>3. PICK b : b \in env_int(env["MAX_MESSAGE_PROCESS_RETRIES"], {3}, {1})
      BY <3>1
    <3>4. PICK c : c \in env_int(env["MIN_MESSAGE_PROCESS_RETRY_DELAY"], {2}, {0})
      BY <3>1
    <3>5. PICK d : d \in env_int(env["CMDB_TRANSPORT_ATTEMPTS"], {5}, {1})
      BY <3>1
    <3>6. [required |-> f, amqp_port |-> p, amqp_prefetch_count |-> a,
           max_message_process_retries |-> b, min_message_process_retry_delay |-> c,
           cmdb_transport_attempts |-> d] \in from_env(env)
      BY <2>2, <3>2, <3>3, <3>4, <3>5 DEF from_env
    <3>7. QED
      BY <3>6
  <2>3. QED
    BY <2>1, <2>2
<1>2. port # {} <=> \E p \in env["AMQP_PORT"].int : p >= 1
  BY DEF env_int
<1>3. required # {} <=> \A name \in Required : env[name].text # {}
  <2>1. ASSUME NEW f \in required, NEW name \in Required PROVE env[name].text # {}
    BY <2>1 DEF env_str
  <2>2. ASSUME \A name \in Required : env[name].text # {} PROVE required # {}
    <3>1. \A name \in Required : env[name].text \in SUBSET Text /\ env[name].text # {}
      BY <2>2 DEF Environment, Variable, Optional
    <3> DEFINE f == [name \in Required |-> CHOOSE v : v \in env[name].text]
    <3>2. f \in [Required -> Text] /\ \A name \in Required : f[name] \in env[name].text
      BY <3>1
    <3>3. f \in required
      BY <3>1, <3>2 DEF env_str
    <3>4. QED
      BY <3>3
  <2>3. QED
    BY <2>1, <2>2
<1>4. QED
  BY <1>1, <1>2, <1>3
=============================================================================
