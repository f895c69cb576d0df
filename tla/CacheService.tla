---------------------------- MODULE CacheService ----------------------------
(***************************************************************************)
(* What lightcache promises its clients, with no memory in it: a store of  *)
(* values that expire, one setting, and for every connection at most one   *)
(* reply under way.  A command takes effect at one instant; the reply it   *)
(* produces does not change until the connection has sent it or is closed. *)
(***************************************************************************)
EXTENDS Integers

CONSTANTS
  Conns,     \* connections
  Keys,      \* keys
  Vals,      \* values a client may store
  Timeouts,  \* lifetimes of an entry, and idle timeouts, in seconds
  STATS,     \* the body of a GET_STATS reply
  NULL       \* no entry, no reply, no body

VARIABLES
  store,     \* key -> entry or NULL
  reply,     \* connection -> reply under way or NULL
  idle,      \* the one setting: idle_conn_timeout
  now        \* the clock, in seconds

svars == <<store, reply, idle, now>>

Reply(op, code, body) == [opcode |-> op, code |-> code, body |-> body]

Fresh(k) == store[k] # NULL /\ now <= store[k].till

\* A connection has one request in service at a time.
Answer(c, op, code, body) ==
  /\ reply[c] = NULL
  /\ reply' = [reply EXCEPT ![c] = Reply(op, code, body)]
  /\ UNCHANGED now

Remove(K) == store' = [k \in Keys |-> IF k \in K THEN NULL ELSE store[k]]

\* An expired entry is removed by the GET that finds it.
Get(c, k) ==
  /\ \/ Fresh(k)  /\ Answer(c, "GET", "SUCCESS", store[k].val) /\ UNCHANGED store
     \/ ~Fresh(k) /\ Answer(c, "GET", "KEY_NOTEXISTS", NULL) /\ Remove({k})
  /\ UNCHANGED idle

Set(c, k, v, t) ==
  /\ Answer(c, "SET", "SUCCESS", NULL)
  /\ store' = [store EXCEPT ![k] = [val |-> v, till |-> now + t]]
  /\ UNCHANGED idle

Delete(c, k) ==
  /\ Answer(c, "DELETE", IF store[k] = NULL THEN "KEY_NOTEXISTS" ELSE "SUCCESS", NULL)
  /\ Remove({k})
  /\ UNCHANGED idle

FlushAll(c) ==
  /\ Answer(c, "FLUSH_ALL", "SUCCESS", NULL)
  /\ Remove(Keys)
  /\ UNCHANGED idle

ChgSetting(c, t) ==
  /\ Answer(c, "CHG_SETTING", "SUCCESS", NULL)
  /\ idle' = t
  /\ UNCHANGED store

GetSetting(c) ==
  /\ Answer(c, "GET_SETTING", "SUCCESS", idle)
  /\ UNCHANGED <<store, idle>>

GetStats(c) ==
  /\ Answer(c, "GET_STATS", "SUCCESS", STATS)
  /\ UNCHANGED <<store, idle>>

\* A refused request changes nothing.
Refuse(c, op) ==
  /\ \E code \in {"INVALID_PARAM", "INVALID_PARAM_SIZE", "INVALID_COMMAND", "OUT_OF_MEMORY"} :
       Answer(c, op, code, NULL)
  /\ UNCHANGED <<store, idle>>

\* The replies have been sent in full, or their connections were closed.
Done(C) ==
  /\ reply' = [c \in Conns |-> IF c \in C THEN NULL ELSE reply[c]]
  /\ UNCHANGED <<store, idle, now>>

Tick == now' = now + 1 /\ UNCHANGED <<store, reply, idle>>

Opcodes == {"GET", "SET", "CHG_SETTING", "GET_SETTING", "GET_STATS", "DELETE",
            "FLUSH_ALL", "unknown"}

SInit ==
  /\ store = [k \in Keys |-> NULL]
  /\ reply = [c \in Conns |-> NULL]
  /\ idle \in Nat
  /\ now = 0

SNext ==
  \/ Tick
  \/ \E C \in SUBSET Conns : Done(C)
  \/ \E c \in Conns :
       \/ FlushAll(c)
       \/ GetSetting(c)
       \/ GetStats(c)
       \/ \E op \in Opcodes : Refuse(c, op)
       \/ \E t \in Timeouts : ChgSetting(c, t)
       \/ \E k \in Keys : \/ Get(c, k)
                          \/ Delete(c, k)
                          \/ \E v \in Vals, t \in Timeouts : Set(c, k, v, t)

SSpec == SInit /\ [][SNext]_svars
=============================================================================
