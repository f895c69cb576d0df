----------------------------- MODULE LightCache -----------------------------
(***************************************************************************)
(* The server of src/src/lightcache.c: one thread that waits for epoll     *)
(* events, runs one handler at a time to its end, and every second or so   *)
(* disconnects idle connections.  What makes it hard is who owns memory: a *)
(* request becomes the cached entry when SET succeeds, while conn->in goes *)
(* on pointing at it, and a GET reply points into the cached entry while   *)
(* it is sent a byte at a time, with other handlers running in between.    *)
(*                                                                         *)
(* Memory is a pool of request blocks and a pool of body blocks; `live' is *)
(* what is allocated.  Contents outlive a free, as they do in the slabs,   *)
(* and freeing a block that is not allocated is the failed assertion of    *)
(* scfree.  The buffers rkey and rextra share the fate of their request    *)
(* block.  The hash table is a map from keys to request blocks.            *)
(*                                                                         *)
(* A definition whose name continues another's after an underscore is that *)
(* definition with a plausible mistake in it; PROJECT.json names the       *)
(* property that tells them apart.                                         *)
(***************************************************************************)
EXTENDS Integers, Sequences, FiniteSets

CONSTANTS
  Conns,         \* connection structures
  Keys,          \* keys clients name
  KeysOf,        \* KeysOf[c]: the keys the client of connection c names
  Texts,         \* contents of data and extra sections
  Timeouts,      \* those texts that are positive decimal numbers, as numbers
  Headers,       \* the request headers clients send
  Reqs,          \* request blocks
  Bufs,          \* blocks for rdata and for reply bodies
  IDLE,          \* the setting name "idle_conn_timeout"
  DefaultIdle,   \* its value at start
  STATS,         \* the text of a GET_STATS reply
  NULL,          \* the null pointer
  BLANK,         \* a buffer that is allocated and not yet read
  FailSites,     \* where an allocation can fail besides the two pools: the buffers
                 \* "rkey" and "rextra", a new "item" of the hash table or its key,
                 \* and the table when it has to "grow"
  DirtyStructs,  \* can a new connection structure reuse a block that held data?
  MaxTime        \* bound on the clock

Opcodes == {"GET", "SET", "CHG_SETTING", "GET_SETTING", "GET_STATS", "DELETE",
            "FLUSH_ALL", "unknown"}

\* Whether each section is present, and whether all are within the size limits.
HeaderType == [op : Opcodes, klen : BOOLEAN, dlen : BOOLEAN, elen : BOOLEAN,
               fits : BOOLEAN]

ASSUME ConnsAssumption    == IsFiniteSet(Conns)
ASSUME KeysAssumption     == KeysOf \in [Conns -> SUBSET Keys]
ASSUME TextsAssumption    == Timeouts \subseteq Texts \cap (Nat \ {0})
ASSUME HeadersAssumption  == Headers \subseteq HeaderType
ASSUME SettingAssumption  == DefaultIdle \in Nat \ {0}
ASSUME FailAssumption     == FailSites \subseteq {"rkey", "rextra", "item", "grow"}
ASSUME DirtyAssumption    == DirtyStructs \in BOOLEAN
ASSUME TimeAssumption     == MaxTime \in Nat
ASSUME BlocksAssumption   == /\ Reqs \cap Bufs = {}
                             /\ NULL \notin Reqs \cup Bufs \cup Keys \cup Texts
                             /\ BLANK \notin Keys \cup Texts \cup {NULL}
ASSUME EntriesAssumption  == NULL \notin [val : Texts \cup Nat \cup {STATS, NULL}, till : Int]

VARIABLES
  conns,              \* the connections ever made, newest first, without the
                      \* listening one, which stays at the tail
  conn,               \* the structures
  reg,                \* what epoll watches for each: "none", "read" or "write"
  cache,              \* key -> cached request block or NULL
  req,                \* contents of the request blocks
  buf,                \* contents of the body blocks, NULL when never written
  live,               \* the allocated blocks
  idle_conn_timeout,
  curr_connections,
  now, ctime, ptime,  \* the clock, and the two readings kept by the main loop
  status              \* "running", or how the process died

memory == <<cache, req, buf, live>>
clocks == <<now, ctime, ptime>>
vars == <<conns, conn, reg, memory, idle_conn_timeout, curr_connections,
          clocks, status>>
-----------------------------------------------------------------------------
(* Memory                                                                  *)

NoHeader == [op |-> "unknown", klen |-> FALSE, dlen |-> FALSE, elen |-> FALSE,
             fits |-> FALSE]

\* The header and the time are written before they are next read.
EmptyRequest_kept == [hdr |-> NoHeader, rkey |-> NULL, rdata |-> NULL, rextra |-> NULL,
                      received |-> 0, can_free |-> FALSE]

EmptyRequest == [hdr |-> NoHeader, rkey |-> NULL, rdata |-> NULL, rextra |-> NULL,
                 received |-> 0, can_free |-> TRUE]

Response(op, code, sdata, len, can_free) ==
  [opcode |-> op, code |-> code, sdata |-> sdata, len |-> len, can_free |-> can_free]

NoReply == Response("unknown", "none", NULL, FALSE, TRUE)

\* A structure that is free or was never made.
Closed == [free |-> TRUE, state |-> "CONN_CLOSED", in |-> NULL, out |-> NoReply,
           last_heard |-> 0]

\* The structure after an event for it.
Heard(c, state, in, out) ==
  [free |-> conn[c].free, state |-> state, in |-> in, out |-> out, last_heard |-> now]

\* The blocks del_cached_req and free_request give back.
RequestBlocks_shallow(q, r) == {r}

RequestBlocks(q, r) == {r, q[r].rdata} \ {NULL}

free_request_always(c) == IF conn[c].in # NULL THEN RequestBlocks(req, conn[c].in) ELSE {}

free_request(c) ==
  LET r == conn[c].in
  IN  IF r # NULL /\ req[r].can_free THEN RequestBlocks(req, r) ELSE {}

free_response_always(c) == {conn[c].out.sdata} \ {NULL}

free_response(c) ==
  IF conn[c].out.can_free THEN {conn[c].out.sdata} \ {NULL} ELSE {}

Frees(c) == free_request(c) \cup free_response(c)

\* No block is freed twice when the connections in C give back what they hold.
FreeOK(C) ==
  \A c \in C : /\ Frees(c) \subseteq live
               /\ free_request(c) \cap free_response(c) = {}
               /\ \A d \in C \ {c} : Frees(c) \cap Frees(d) = {}

Running == status = "running"

Crash(why) ==
  /\ status' = why
  /\ UNCHANGED <<conns, conn, reg, memory, idle_conn_timeout, curr_connections,
                 clocks>>
-----------------------------------------------------------------------------
(* Connections                                                             *)

disconnect_conn_watched(C) ==
  /\ conn' = [c \in Conns |-> IF c \in C THEN Closed ELSE conn[c]]
  /\ live' = live \ UNION {Frees(c) : c \in C}
  /\ curr_connections' = curr_connections - Cardinality(C)
  /\ UNCHANGED <<conns, reg, cache, req, buf, idle_conn_timeout, status>>

disconnect_conn_stale(C) ==
  /\ conn' = [c \in Conns |->
                IF c \in C THEN [Closed EXCEPT !.state = conn[c].state] ELSE conn[c]]
  /\ reg' = [c \in Conns |-> IF c \in C THEN "none" ELSE reg[c]]
  /\ live' = live \ UNION {Frees(c) : c \in C}
  /\ curr_connections' = curr_connections - Cardinality(C)
  /\ UNCHANGED <<conns, cache, req, buf, idle_conn_timeout, status>>

disconnect_conn(C) ==
  /\ conn' = [c \in Conns |-> IF c \in C THEN Closed ELSE conn[c]]
  /\ reg' = [c \in Conns |-> IF c \in C THEN "none" ELSE reg[c]]
  /\ live' = live \ UNION {Frees(c) : c \in C}
  /\ curr_connections' = curr_connections - Cardinality(C)
  /\ UNCHANGED <<conns, cache, req, buf, idle_conn_timeout, status>>

\* set_conn_state(READ_HEADER): free what the connection holds, take a request
\* block, wait for the next header; with no memory for it, disconnect.
init_resources(c) ==
  \/ /\ ~FreeOK({c})
     /\ Crash("assert")
  \/ /\ FreeOK({c})
     /\ \E r \in Reqs \ (live \ Frees(c)) :
          /\ live' = (live \ Frees(c)) \cup {r}
          /\ req' = [req EXCEPT ![r] = EmptyRequest]
          /\ conn' = [conn EXCEPT ![c] = Heard(c, "READ_HEADER", r, NoReply)]
     /\ reg' = [reg EXCEPT ![c] = "read"]
     /\ UNCHANGED <<conns, cache, buf, idle_conn_timeout, curr_connections, clocks,
                    status>>
  \/ /\ FreeOK({c})
     /\ Reqs \subseteq live \ Frees(c)
     /\ disconnect_conn({c})
     /\ UNCHANGED clocks

\* make_conn takes the free structure nearest the head.
FirstFree == {c \in Conns : \E i \in 1..Len(conns) :
                /\ conns[i] = c
                /\ conn[c].free
                /\ \A j \in 1..(i - 1) : ~conn[conns[j]].free}

Made == {conns[i] : i \in 1..Len(conns)}

make_conn_relinks(c) == c \in FirstFree \cup (Conns \ Made) /\ conns' = <<c>> \o conns

\* The structure and its place in the list; the second alternative is a new one.
make_conn(c) ==
  \/ c \in FirstFree /\ conns' = conns
  \/ FirstFree = {} /\ c \notin Made /\ conns' = <<c>> \o conns

\* event_handler on the listening socket.  A structure that gets no request block
\* is closed again at once.
Accept(c) ==
  /\ Running
  /\ make_conn(c)
  /\ \/ /\ \E r \in Reqs \ live :
             /\ live' = live \cup {r}
             /\ req' = [req EXCEPT ![r] = EmptyRequest]
             /\ conn' = [conn EXCEPT ![c] = [free |-> FALSE, state |-> "READ_HEADER",
                                             in |-> r, out |-> NoReply,
                                             last_heard |-> now]]
        /\ reg' = [reg EXCEPT ![c] = "read"]
        /\ curr_connections' = curr_connections + 1
        /\ UNCHANGED <<cache, buf>>
     \/ /\ Reqs \subseteq live
        /\ UNCHANGED <<conn, reg, memory, curr_connections>>
  /\ UNCHANGED <<idle_conn_timeout, clocks, status>>

\* make_conn leaves `out' of a new structure as it finds it, and init_resources
\* frees what it says.
AcceptDirty(c) ==
  /\ Running
  /\ FirstFree = {} /\ c \notin Made
  /\ DirtyStructs
  /\ \E b \in Bufs \ live : buf[b] # NULL
  /\ Crash("assert")
-----------------------------------------------------------------------------
(* Commands.  m is the memory, [req, buf], as the last read left it.       *)

\* add_response: m is the memory with what the command has written.
add_response(c, m, sdata, len, code, can_free) ==
  /\ conn' = [conn EXCEPT ![c] = Heard(c, "SEND_HEADER", conn[c].in,
                                       Response(m.req[conn[c].in].hdr.op, code, sdata,
                                                len, can_free))]
  /\ reg' = [reg EXCEPT ![c] = "write"]
  /\ req' = m.req /\ buf' = m.buf
  /\ UNCHANGED <<conns, curr_connections, clocks, status>>

send_response(c, m, code) == add_response(c, m, NULL, FALSE, code, TRUE)

Refuse(c, m, code) ==
  /\ send_response(c, m, code)
  /\ UNCHANGED <<cache, live, idle_conn_timeout>>

\* del_cached_req and hfree for the entries of the keys in K.
CachedBlocks(m, K) == UNION {RequestBlocks(m.req, cache[k]) : k \in {k \in K : cache[k] # NULL}}

CanDelete(m, K) ==
  /\ CachedBlocks(m, K) \subseteq live
  /\ \A j, k \in K : j # k /\ cache[j] # NULL /\ cache[k] # NULL =>
       RequestBlocks(m.req, cache[j]) \cap RequestBlocks(m.req, cache[k]) = {}

Delete_linked(m, K) ==
  /\ live' = live \ CachedBlocks(m, K)
  /\ UNCHANGED <<cache, idle_conn_timeout>>

Delete_wipes(m, K) ==
  /\ cache' = [k \in Keys |-> NULL]
  /\ live' = live \ CachedBlocks(m, K)
  /\ UNCHANGED idle_conn_timeout

Delete(m, K) ==
  /\ cache' = [k \in Keys |-> IF k \in K THEN NULL ELSE cache[k]]
  /\ live' = live \ CachedBlocks(m, K)
  /\ UNCHANGED idle_conn_timeout

\* hget with no key compares the null pointer with every key in its bucket.
Keyless(c, m) ==
  /\ m.req[conn[c].in].hdr.op \in {"GET", "DELETE"} /\ m.req[conn[c].in].rkey = NULL
  /\ \/ Refuse(c, m, "KEY_NOTEXISTS")
     \/ (\E k \in Keys : cache[k] # NULL) /\ Crash("segv")

\* What strtoull makes of a lifetime; of one that is not filled yet, anything.
Lifetimes(text) == IF text = BLANK THEN Texts ELSE {text}

Expired_early(cached, val) == now - cached.received >= val

Expired(cached, val) == now - cached.received > val

Get(c, m, k) ==
  /\ m.req[conn[c].in].hdr.op = "GET"
  /\ \/ cache[k] = NULL /\ Refuse(c, m, "KEY_NOTEXISTS")
     \/ /\ cache[k] # NULL
        /\ LET cached == m.req[cache[k]] IN
           \/ cached.rextra = NULL /\ Crash("segv")
           \/ /\ cached.rextra # NULL
              /\ \E val \in Lifetimes(cached.rextra) :
                   \/ val \notin Timeouts /\ Crash("assert")
                   \/ /\ val \in Timeouts /\ ~Expired(cached, val)
                      /\ add_response(c, m, cached.rdata, cached.hdr.dlen, "SUCCESS", FALSE)
                      /\ UNCHANGED <<cache, live, idle_conn_timeout>>
                   \/ /\ val \in Timeouts /\ Expired(cached, val)
                      /\ CanDelete(m, {k})
                      /\ Delete(m, {k})
                      /\ send_response(c, m, "KEY_NOTEXISTS")
                   \/ /\ val \in Timeouts /\ Expired(cached, val)
                      /\ ~CanDelete(m, {k})
                      /\ Crash("assert")

\* The request is the cache's now.
Keep_forgets(m, r) == m

Keep(m, r) == [m EXCEPT !.req[r].can_free = FALSE]

\* hset: a live key is updated in place; a new one may fail for want of an item or
\* of a key buffer, and a failure to grow is reported after the insertion.
Set(c, m) ==
  LET r == conn[c].in IN
  /\ m.req[r].hdr.op = "SET"
  /\ \/ m.req[r].rdata = NULL /\ Refuse(c, m, "INVALID_PARAM")
     \/ m.req[r].rdata # NULL /\ m.req[r].rextra = NULL /\ Crash("segv")
     \/ /\ m.req[r].rdata # NULL /\ m.req[r].rextra \notin Timeouts \cup {NULL}
        /\ Refuse(c, m, "INVALID_PARAM")
     \/ /\ m.req[r].rdata # NULL /\ m.req[r].rextra \in Timeouts
        /\ \E k \in Keys :
             /\ m.req[r].rkey = k
             /\ \/ /\ cache[k] = NULL
                   /\ "item" \in FailSites
                   /\ Refuse(c, m, "OUT_OF_MEMORY")
                \/ /\ cache[k] = NULL
                   /\ "grow" \in FailSites
                   /\ cache' = [cache EXCEPT ![k] = r]
                   /\ send_response(c, m, "OUT_OF_MEMORY")
                   /\ UNCHANGED <<live, idle_conn_timeout>>
                \/ /\ CanDelete(m, {k})
                   /\ cache' = [cache EXCEPT ![k] = r]
                   /\ live' = live \ CachedBlocks(m, {k})
                   /\ send_response(c, Keep(m, r), "SUCCESS")
                   /\ UNCHANGED idle_conn_timeout
                \/ ~CanDelete(m, {k}) /\ Crash("assert")

DeleteKey(c, m, k) ==
  /\ m.req[conn[c].in].hdr.op = "DELETE"
  /\ \/ cache[k] = NULL /\ Refuse(c, m, "KEY_NOTEXISTS")
     \/ /\ cache[k] # NULL /\ CanDelete(m, {k})
        /\ Delete(m, {k})
        /\ send_response(c, m, "SUCCESS")
     \/ cache[k] # NULL /\ ~CanDelete(m, {k}) /\ Crash("assert")

FlushAll(c, m) ==
  /\ m.req[conn[c].in].hdr.op = "FLUSH_ALL"
  /\ \/ CanDelete(m, Keys) /\ Delete(m, Keys) /\ send_response(c, m, "SUCCESS")
     \/ ~CanDelete(m, Keys) /\ Crash("assert")

ChgSetting(c, m) ==
  LET r     == conn[c].in
      valid == /\ m.req[r].rdata # NULL /\ m.req[r].rkey = IDLE
               /\ m.buf[m.req[r].rdata] \in Timeouts
  IN
  /\ m.req[r].hdr.op = "CHG_SETTING"
  /\ \/ ~valid /\ Refuse(c, m, "INVALID_PARAM")
     \/ /\ valid
        /\ idle_conn_timeout' = m.buf[m.req[r].rdata]
        /\ send_response(c, m, "SUCCESS")
        /\ UNCHANGED <<cache, live>>

\* A reply whose body is made for it.
Produce(c, m, text) ==
  \/ \E b \in Bufs \ live :
       /\ live' = live \cup {b}
       /\ add_response(c, [m EXCEPT !.buf[b] = text], b, TRUE, "SUCCESS", TRUE)
       /\ UNCHANGED <<cache, idle_conn_timeout>>
  \/ Bufs \subseteq live /\ Refuse(c, m, "OUT_OF_MEMORY")

GetSetting(c, m) ==
  LET r == conn[c].in IN
  /\ m.req[r].hdr.op = "GET_SETTING"
  /\ \/ m.req[r].rkey = NULL /\ Crash("segv")
     \/ m.req[r].rkey \notin {NULL, IDLE} /\ Refuse(c, m, "INVALID_PARAM")
     \/ m.req[r].rkey = IDLE /\ Produce(c, m, idle_conn_timeout)

GetStats(c, m) ==
  /\ m.req[conn[c].in].hdr.op = "GET_STATS"
  /\ Produce(c, m, STATS)

Unknown(c, m) ==
  /\ m.req[conn[c].in].hdr.op = "unknown"
  /\ Refuse(c, m, "INVALID_COMMAND")

\* The request is complete: stamp it and carry it out.
execute_cmd(c, read) ==
  LET m == [read EXCEPT !.req[conn[c].in].received = now] IN
  \/ Keyless(c, m)
  \/ \E k \in Keys : m.req[conn[c].in].rkey = k /\ (Get(c, m, k) \/ DeleteKey(c, m, k))
  \/ Set(c, m)
  \/ FlushAll(c, m)
  \/ ChgSetting(c, m)
  \/ GetSetting(c, m)
  \/ GetStats(c, m)
  \/ Unknown(c, m)
-----------------------------------------------------------------------------
(* Reading a request: each step is the event that completes a section.     *)

OnEvent(c, ev, state) == Running /\ reg[c] = ev /\ conn[c].state = state

Memory == [req |-> req, buf |-> buf]

\* The section that comes next has its buffer in m.
Await(c, m, state) ==
  /\ conn' = [conn EXCEPT ![c] = Heard(c, state, conn[c].in, conn[c].out)]
  /\ req' = m.req /\ buf' = m.buf
  /\ UNCHANGED <<conns, reg, cache, idle_conn_timeout, curr_connections, clocks,
                 status>>

OutOfMemory(c, m, site) == site \in FailSites /\ Refuse(c, m, "OUT_OF_MEMORY")

ReadHeader(c) ==
  /\ OnEvent(c, "read", "READ_HEADER")
  /\ \E h \in Headers :
       LET m == [Memory EXCEPT !.req[conn[c].in].hdr = h] IN
       \/ ~h.fits /\ Refuse(c, m, "INVALID_PARAM_SIZE")
       \/ h.fits /\ ~h.klen /\ execute_cmd(c, m)
       \/ /\ h.fits /\ h.klen
          /\ \/ /\ Await(c, [m EXCEPT !.req[conn[c].in].rkey = BLANK], "READ_KEY")
                /\ UNCHANGED live
             \/ OutOfMemory(c, m, "rkey")

ReadKey(c) ==
  LET r == conn[c].in IN
  /\ OnEvent(c, "read", "READ_KEY")
  /\ \/ (req[r].rkey = NULL \/ ~req[r].hdr.klen) /\ Crash("assert")
     \/ /\ req[r].rkey # NULL /\ req[r].hdr.klen
        /\ \E k \in KeysOf[c] :
             LET m == [Memory EXCEPT !.req[r].rkey = k] IN
             \/ ~req[r].hdr.dlen /\ execute_cmd(c, m)
             \/ /\ req[r].hdr.dlen
                /\ \/ \E b \in Bufs \ live :
                        /\ Await(c, [m EXCEPT !.req[r].rdata = b], "READ_DATA")
                        /\ live' = live \cup {b}
                   \/ Bufs \subseteq live /\ Refuse(c, [m EXCEPT !.req[r].rdata = NULL], "OUT_OF_MEMORY")

ReadData(c) ==
  LET r == conn[c].in IN
  /\ OnEvent(c, "read", "READ_DATA")
  /\ \/ (req[r].rdata = NULL \/ ~req[r].hdr.dlen) /\ Crash("assert")
     \/ /\ req[r].rdata # NULL /\ req[r].hdr.dlen
        /\ \E text \in Texts :
             LET m == [Memory EXCEPT !.buf[req[r].rdata] = text] IN
             \/ ~req[r].hdr.elen /\ execute_cmd(c, m)
             \/ /\ req[r].hdr.elen
                /\ \/ /\ Await(c, [m EXCEPT !.req[r].rextra = BLANK], "READ_EXTRA")
                      /\ UNCHANGED live
                   \/ OutOfMemory(c, m, "rextra")

\* A read into the null pointer fails like one that has to wait.
ReadExtra(c) ==
  /\ OnEvent(c, "read", "READ_EXTRA")
  /\ req[conn[c].in].rextra # NULL
  /\ \E text \in Texts : execute_cmd(c, [Memory EXCEPT !.req[conn[c].in].rextra = text])

Reading == {"READ_HEADER", "READ_KEY", "READ_DATA", "READ_EXTRA"}
Sending == {"SEND_HEADER", "SEND_DATA"}

\* A byte that does not complete its section, or none.
NeedMore(c) ==
  /\ Running /\ reg[c] # "none" /\ conn[c].state \in Reading \cup Sending
  /\ conn[c].last_heard # now
  /\ conn' = [conn EXCEPT ![c] = Heard(c, conn[c].state, conn[c].in, conn[c].out)]
  /\ UNCHANGED <<conns, reg, memory, idle_conn_timeout, curr_connections, clocks,
                 status>>
-----------------------------------------------------------------------------
(* Sending a reply, closing, and the main loop.                            *)

SendHeader(c) ==
  /\ OnEvent(c, "write", "SEND_HEADER")
  /\ \/ /\ conn[c].out.len
        /\ conn' = [conn EXCEPT ![c] = Heard(c, "SEND_DATA", conn[c].in, conn[c].out)]
        /\ UNCHANGED <<conns, reg, memory, idle_conn_timeout, curr_connections,
                       clocks, status>>
     \/ ~conn[c].out.len /\ init_resources(c)

\* A write from the null pointer is a write error.
SendData(c) ==
  /\ OnEvent(c, "write", "SEND_DATA")
  /\ conn[c].out.sdata # NULL
  /\ init_resources(c)

\* READ_ERR or SEND_ERR: the peer closed, or the socket broke.
Hangup(c) ==
  /\ Running
  /\ \/ reg[c] = "read" /\ conn[c].state \in Reading
     \/ reg[c] = "write" /\ conn[c].state \in Sending
  /\ \/ FreeOK({c}) /\ disconnect_conn({c}) /\ UNCHANGED clocks
     \/ ~FreeOK({c}) /\ Crash("assert")

\* The connections the walk from the head reaches: it ends at the first free one.
Walked == {conns[i] : i \in {i \in 1..Len(conns) :
                               \A j \in 1..i : ~conn[conns[j]].free}}

Idle == {c \in Walked : now - conn[c].last_heard > idle_conn_timeout}

\* An iteration of the main loop ends with the audit if one is due by the time read
\* before its events, and the next one begins by reading the clock.
disconnect_idle_conns ==
  /\ Running
  /\ ctime - ptime > 1
  /\ \/ /\ FreeOK(Idle) /\ disconnect_conn(Idle)
        /\ ptime' = ctime /\ ctime' = now /\ UNCHANGED now
     \/ ~FreeOK(Idle) /\ Crash("assert")

NextIteration ==
  /\ Running
  /\ ctime - ptime <= 1
  /\ ctime' = now
  /\ UNCHANGED <<conns, conn, reg, memory, idle_conn_timeout, curr_connections,
                 now, ptime, status>>

Tick ==
  /\ Running
  /\ now < MaxTime
  /\ now' = now + 1
  /\ UNCHANGED <<conns, conn, reg, memory, idle_conn_timeout, curr_connections,
                 ctime, ptime, status>>
-----------------------------------------------------------------------------
\* The listening connection is counted.  ptime starts long before the clock.
Init ==
  /\ conns = <<>>
  /\ conn = [c \in Conns |-> Closed]
  /\ reg = [c \in Conns |-> "none"]
  /\ cache = [k \in Keys |-> NULL]
  /\ req = [r \in Reqs |-> EmptyRequest]
  /\ buf = [b \in Bufs |-> NULL]
  /\ live = {}
  /\ idle_conn_timeout = DefaultIdle
  /\ curr_connections = 1
  /\ now = 0 /\ ctime = 0 /\ ptime = -2
  /\ status = "running"

Next ==
  \/ Tick
  \/ NextIteration
  \/ disconnect_idle_conns
  \/ \E c \in Conns :
       \/ Accept(c)
       \/ AcceptDirty(c)
       \/ ReadHeader(c)
       \/ ReadKey(c)
       \/ ReadData(c)
       \/ ReadExtra(c)
       \/ NeedMore(c)
       \/ SendHeader(c)
       \/ SendData(c)
       \/ Hangup(c)

Spec == Init /\ [][Next]_vars
-----------------------------------------------------------------------------
(* Properties                                                              *)

ReqType  == [hdr : HeaderType, rkey : Keys \cup {NULL, BLANK},
             rdata : Bufs \cup {NULL}, rextra : Texts \cup {NULL, BLANK},
             received : Int, can_free : BOOLEAN]

Codes == {"KEY_NOTEXISTS", "INVALID_PARAM", "INVALID_PARAM_SIZE", "SUCCESS",
          "INVALID_COMMAND", "OUT_OF_MEMORY", "none"}

OutType  == [opcode : Opcodes, code : Codes, sdata : Bufs \cup {NULL},
             len : BOOLEAN, can_free : BOOLEAN]

ConnType == [free : BOOLEAN, state : Reading \cup Sending \cup {"CONN_CLOSED"},
             in : Reqs \cup {NULL}, out : OutType, last_heard : Int]

\* The shape of the state: every structure holds what its C declaration allows, and an
\* open connection has a request, which the handlers follow unchecked.
TypeOK ==
  /\ conns \in Seq(Conns)
  /\ conn \in [Conns -> ConnType]
  /\ \A c \in Conns : conn[c].state # "CONN_CLOSED" => conn[c].in # NULL
  /\ reg \in [Conns -> {"none", "read", "write"}]
  /\ cache \in [Keys -> Reqs \cup {NULL}]
  /\ req \in [Reqs -> ReqType]
  /\ buf \in [Bufs -> Texts \cup Nat \cup {STATS, NULL}]
  /\ live \subseteq Reqs \cup Bufs
  /\ idle_conn_timeout \in Nat \ {0}
  /\ curr_connections \in Int
  /\ now \in Nat /\ ctime \in Int /\ ptime \in Int
  /\ status \in {"running", "assert", "segv"}

\* epoll watches a connection for exactly what its state can handle, so the
\* INVALID_STATE branches of try_read_request and try_send_response are never taken,
\* and a structure is up for recycling exactly when it is closed.
EventMatchesState ==
  \A c \in Conns :
    /\ reg[c] = CASE conn[c].state \in Reading -> "read"
                  [] conn[c].state \in Sending -> "write"
                  [] OTHER -> "none"
    /\ conn[c].free <=> conn[c].state = "CONN_CLOSED"

\* make_conn and disconnect_conn keep the list and the counter true: a structure is
\* in the list once, an open connection is in it, and curr_connections, which
\* GET_STATS reports, is the listening connection and the open ones.
ConnectionsListed ==
  /\ \A i, j \in 1..Len(conns) : conns[i] = conns[j] => i = j
  /\ {c \in Conns : ~conn[c].free} \subseteq Made
  /\ curr_connections = 1 + Cardinality({c \in Conns : ~conn[c].free})

CachedReqs == {cache[k] : k \in Keys} \ {NULL}

AllCached == CachedBlocks(Memory, Keys)

\* Whatever is freed next is freed by one owner only: a block belongs to one
\* connection's request, to one connection's reply, or to one cached entry.
ExclusiveOwnership ==
  /\ \A c \in Conns : free_request(c) \cap free_response(c) = {}
  /\ \A c, d \in Conns : c # d => Frees(c) \cap Frees(d) = {}
  /\ \A c \in Conns : Frees(c) \cap AllCached = {}
  /\ \A j, k \in Keys : j # k /\ cache[j] # NULL => cache[j] # cache[k]
  /\ \A r, s \in CachedReqs : r # s => req[r].rdata # req[s].rdata

\* No handler follows a pointer to a freed block: the request a connection reads
\* into, the body it sends, a cached entry and its data are all allocated.
NoDangling ==
  /\ AllCached \subseteq live
  /\ \A c \in Conns : conn[c].state # "CONN_CLOSED" => conn[c].in \in live
  /\ \A c \in Conns : Frees(c) \subseteq live
  /\ \A c \in Conns : conn[c].state \in Sending /\ conn[c].out.len =>
                        conn[c].out.sdata \in live

\* Every allocated block can still be freed by somebody, whichever replies, failed
\* allocations and disconnections came before.
NoLeak == live \subseteq AllCached \cup UNION {Frees(c) : c \in Conns}

\* No assertion fails and no null pointer is followed.
NeverDies == Running

\* scfree never meets a pointer that is not allocated, or not its own, and execute_cmd
\* and try_read_request find what they assert.
NoFailedAssertion == status # "assert"

\* After an audit no open connection has been idle for longer than the timeout.
AuditReachesAll ==
  [][ptime' # ptime => \A c \in Conns : \/ conn'[c].free
                                        \/ now - conn'[c].last_heard <= idle_conn_timeout]_vars

\* A cached entry is not one a connection is still reading into or may give back.
CachedIsKept ==
  \A r \in CachedReqs :
    /\ ~req[r].can_free
    /\ req[r].rdata # NULL /\ req[r].rextra \in Timeouts
    /\ \A c \in Conns : conn[c].in = r => conn[c].state \in Sending

\* The discipline under which memory is safe: clients keep to keys of their own, no
\* one flushes the keys of others, every section a handler takes for granted is sent,
\* the hash table always finds memory to grow, and new structures come zeroed.
WellFormed(h) ==
  /\ h.op \in {"GET", "DELETE", "GET_SETTING"} => h.klen
  /\ h.op = "SET" /\ h.klen /\ h.dlen => h.elen

Disciplined ==
  /\ \A c, d \in Conns : c # d => KeysOf[c] \cap KeysOf[d] = {}
  /\ \A h \in Headers : /\ WellFormed(h)
                        /\ h.op = "FLUSH_ALL" => \A c, d \in Conns : c = d
  /\ "grow" \notin FailSites
  /\ ~DirtyStructs

Open(c) == conn[c].state # "CONN_CLOSED"

\* The request blocks somebody points at.
Held == CachedReqs \cup {conn[c].in : c \in {d \in Conns : Open(d)}}

OwnsBody(c) == Open(c) /\ conn[c].out.can_free /\ conn[c].out.sdata # NULL

\* Who owns which block, with q for the contents of the request blocks, which a
\* handler changes before it changes anything else.
ConnOwnership(q, c) ==
  LET r == conn[c].in
      out == conn[c].out
  IN  /\ r \in live
      /\ q[r].can_free <=> r \notin CachedReqs
      /\ conn[c].state \in Reading => out = NoReply /\ r \notin CachedReqs
      /\ r \in CachedReqs => \E k \in KeysOf[c] : cache[k] = r
      /\ out.len => out.sdata # NULL
      /\ ~out.can_free => \E k \in KeysOf[c] : /\ cache[k] # NULL
                                               /\ out.sdata = q[cache[k]].rdata
      /\ OwnsBody(c) => out.sdata \in live /\ \A s \in Held : q[s].rdata # out.sdata

EntryOwnership(q, k) ==
  LET r == cache[k] IN
  /\ r \in live
  /\ ~q[r].can_free
  /\ q[r].rdata # NULL /\ q[r].rextra \in Timeouts

Ownership(q) ==
  /\ \A c \in Conns : IF Open(c) THEN ConnOwnership(q, c) ELSE conn[c] = Closed
  /\ \A k \in Keys : cache[k] # NULL => EntryOwnership(q, k)
  /\ \A c, d \in Conns : c # d /\ Open(c) /\ Open(d) => conn[c].in # conn[d].in
  /\ \A c, d \in Conns : c # d /\ OwnsBody(c) /\ OwnsBody(d) =>
                           conn[c].out.sdata # conn[d].out.sdata
  /\ \A j, k \in Keys : j # k /\ cache[j] # NULL => cache[j] # cache[k]
  /\ \A r \in Held : q[r].rdata # NULL =>
       q[r].rdata \in live /\ \A s \in Held : q[s].rdata = q[r].rdata => s = r
  /\ \A b \in live : \/ b \in Held
                     \/ \E r \in Held : b = q[r].rdata
                     \/ \E c \in Conns : OwnsBody(c) /\ b = conn[c].out.sdata

\* How much of its request a connection has read.
Sections(c) ==
  LET x == req[conn[c].in] IN
  /\ conn[c].state \in Reading \ {"READ_HEADER"} =>
       x.hdr \in Headers /\ x.hdr.klen /\ x.rkey # NULL
  /\ conn[c].state = "READ_HEADER" => x.rkey = NULL
  /\ conn[c].state \in {"READ_HEADER", "READ_KEY"} => x.rdata = NULL
  /\ conn[c].state \in {"READ_DATA", "READ_EXTRA"} =>
       x.rkey \in KeysOf[c] /\ x.rdata # NULL /\ x.hdr.dlen
  /\ conn[c].state \in Reading \ {"READ_EXTRA"} => x.rextra = NULL

\* The inductive invariant: with TypeOK and EventMatchesState it is kept by every
\* step of a disciplined system, and implies the properties above.
IInv ==
  /\ Running
  /\ Ownership(req)
  /\ \A c \in Conns : Sections(c)

Body(c) == IF conn[c].out.len THEN buf[conn[c].out.sdata] ELSE NULL

\* The store and the replies under way, as clients see them.
Stored == [k \in Keys |->
             IF cache[k] = NULL THEN NULL
             ELSE LET r == req[cache[k]]
                  IN  [val |-> buf[r.rdata], till |-> r.received + r.rextra]]

Replies == [c \in Conns |->
              IF conn[c].state \in Sending
              THEN [opcode |-> conn[c].out.opcode, code |-> conn[c].out.code, body |-> Body(c)]
              ELSE NULL]

\* What clients see is the abstract service.
Service == INSTANCE CacheService WITH
  Vals <- Texts, store <- Stored, reply <- Replies,
  idle <- idle_conn_timeout

\* Every handler is one step of the service or invisible to clients: replies carry the
\* value last SET and not expired, refused requests change nothing, and neither
\* disconnections, failed allocations nor the audit touch the store.
RefinesService == Service!SSpec
=============================================================================
