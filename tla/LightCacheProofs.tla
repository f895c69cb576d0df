-------------------------- MODULE LightCacheProofs --------------------------
(***************************************************************************)
(* Theorems about LightCache for every value of its constants: types and   *)
(* connections first, then memory, then the service.                       *)
(*                                                                         *)
(* A disciplined system (LightCache!Disciplined) is safe: every block of   *)
(* memory has one owner from its allocation to its one free, so no block   *)
(* is freed twice, used after it is freed or lost, and the process never   *)
(* dies.  The invariant IInv is inductive together with TypeOK; there is   *)
(* one lemma per command and per event.                                    *)
(*                                                                         *)
(* And it is the service of CacheService: every handler is one step of it, *)
(* or changes nothing that a client can see.  The heart of that is what a  *)
(* handler leaves alone: it writes only blocks of its own connection or    *)
(* blocks nobody holds, so the entries and the replies under way keep the  *)
(* contents they point at.                                                 *)
(***************************************************************************)
EXTENDS LightCache, FiniteSetTheorems, TLAPS

BufType == Texts \cup Nat \cup {STATS, NULL}
MemType == [req : [Reqs -> ReqType], buf : [Bufs -> BufType]]

USE DEF Running
-----------------------------------------------------------------------------
(* Type correctness                                                        *)

\* A connection that can take an event has a request to follow.
LEMMA OpenHasRequest ==
  ASSUME TypeOK, NEW c \in Conns, conn[c].state # "CONN_CLOSED"
  PROVE  conn[c].in \in Reqs
BY DEF TypeOK, ConnType

\* The blocks are well typed before a handler writes to them.
LEMMA MemoryType == TypeOK => Memory \in MemType
BY DEF TypeOK, Memory, MemType, BufType

\* The structure after an event is well typed.
LEMMA HeardType ==
  ASSUME TypeOK, NEW c \in Conns, NEW state \in Reading \cup Sending,
         NEW r \in Reqs, NEW out \in OutType
  PROVE  Heard(c, state, r, out) \in ConnType
BY DEF Heard, TypeOK, ConnType

\* add_response keeps the types if the command leaves well-typed memory, and a
\* well-typed cache, allocation map and setting.
LEMMA AddResponseType ==
  ASSUME TypeOK, NEW c \in Conns, conn[c].in \in Reqs,
         NEW m \in MemType, NEW sdata \in Bufs \cup {NULL}, NEW len \in BOOLEAN,
         NEW code \in Codes, NEW can_free \in BOOLEAN,
         add_response(c, m, sdata, len, code, can_free),
         cache' \in [Keys -> Reqs \cup {NULL}], live' \subseteq Reqs \cup Bufs,
         idle_conn_timeout' \in Nat \ {0}
  PROVE  TypeOK'
<1> USE DEF add_response
<1> DEFINE out == Response(m.req[conn[c].in].hdr.op, code, sdata, len, can_free)
<1>1. out \in OutType
  <2>1. m.req[conn[c].in] \in ReqType
    BY DEF MemType
  <2>2. m.req[conn[c].in].hdr.op \in Opcodes
    BY <2>1 DEF ReqType, HeaderType
  <2> QED BY <2>2 DEF OutType, Response
<1>2. conn' \in [Conns -> ConnType]
  <2> HIDE DEF out
  <2>1. conn' = [conn EXCEPT ![c] = Heard(c, "SEND_HEADER", conn[c].in, out)]
    BY DEF out
  <2>2. Heard(c, "SEND_HEADER", conn[c].in, out) \in ConnType
    BY <1>1, HeardType DEF Sending
  <2> QED BY <2>1, <2>2 DEF TypeOK
<1>3. \A d \in Conns : conn'[d].state # "CONN_CLOSED" => conn'[d].in # NULL
  BY BlocksAssumption DEF TypeOK, Heard
<1>4. req' \in [Reqs -> ReqType] /\ buf' \in [Bufs -> BufType]
  BY DEF MemType
<1>5. reg' \in [Conns -> {"none", "read", "write"}]
  BY DEF TypeOK
<1> QED
  <2>1. /\ conns' = conns /\ curr_connections' = curr_connections
        /\ now' = now /\ ctime' = ctime /\ ptime' = ptime /\ status' = status
    BY DEF clocks
  <2> QED BY <1>2, <1>3, <1>4, <1>5, <2>1 DEF TypeOK, BufType

\* A reply without a body keeps the types.
LEMMA RefuseType ==
  ASSUME TypeOK, NEW c \in Conns, conn[c].in \in Reqs, NEW m \in MemType,
         NEW code \in Codes, Refuse(c, m, code)
  PROVE  TypeOK'
<1>1. add_response(c, m, NULL, FALSE, code, TRUE)
  BY DEF Refuse, send_response
<1>2. /\ cache' \in [Keys -> Reqs \cup {NULL}] /\ live' \subseteq Reqs \cup Bufs
      /\ idle_conn_timeout' \in Nat \ {0}
  BY DEF Refuse, TypeOK
<1> QED BY <1>1, <1>2, AddResponseType

\* So does deleting entries, whether for DELETE, for FLUSH_ALL or for an expired GET.
LEMMA DeleteType ==
  ASSUME TypeOK, NEW c \in Conns, conn[c].in \in Reqs, NEW m \in MemType,
         NEW K \in SUBSET Keys, NEW code \in Codes,
         Delete(m, K), send_response(c, m, code)
  PROVE  TypeOK'
<1>1. add_response(c, m, NULL, FALSE, code, TRUE)
  BY DEF send_response
<1>2. /\ cache' \in [Keys -> Reqs \cup {NULL}] /\ live' \subseteq Reqs \cup Bufs
      /\ idle_conn_timeout' \in Nat \ {0}
  BY DEF Delete, TypeOK
<1> QED BY <1>1, <1>2, AddResponseType

\* A process that dies leaves its memory as it is.
LEMMA CrashType ==
  ASSUME TypeOK, NEW why \in {"assert", "segv"}, Crash(why)
  PROVE  TypeOK'
BY DEF Crash, TypeOK, memory, clocks

\* Writing one section of a request block, or one body block, keeps the types.
LEMMA WriteType ==
  ASSUME NEW m \in MemType, NEW r \in Reqs
  PROVE  /\ \A h \in HeaderType : [m EXCEPT !.req[r].hdr = h] \in MemType
         /\ \A k \in Keys \cup {NULL, BLANK} : [m EXCEPT !.req[r].rkey = k] \in MemType
         /\ \A b \in Bufs \cup {NULL} : [m EXCEPT !.req[r].rdata = b] \in MemType
         /\ \A t \in Texts \cup {NULL, BLANK} : [m EXCEPT !.req[r].rextra = t] \in MemType
         /\ \A t \in Int : [m EXCEPT !.req[r].received = t] \in MemType
         /\ [m EXCEPT !.req[r].can_free = FALSE] \in MemType
         /\ \A b \in Bufs, t \in BufType : [m EXCEPT !.buf[b] = t] \in MemType
<1>1. m.req \in [Reqs -> ReqType] /\ m.buf \in [Bufs -> BufType] /\ m.req[r] \in ReqType
  BY DEF MemType
<1>2. ASSUME NEW q \in ReqType
      PROVE  [m EXCEPT !.req = [m.req EXCEPT ![r] = q]] \in MemType
  BY <1>1 DEF MemType
<1>3. ASSUME NEW h \in HeaderType PROVE [m EXCEPT !.req[r].hdr = h] \in MemType
  <2>1. [m.req[r] EXCEPT !.hdr = h] \in ReqType
    BY <1>1 DEF ReqType
  <2> QED BY <1>2, <2>1
<1>4. ASSUME NEW k \in Keys \cup {NULL, BLANK} PROVE [m EXCEPT !.req[r].rkey = k] \in MemType
  <2>1. [m.req[r] EXCEPT !.rkey = k] \in ReqType
    BY <1>1 DEF ReqType
  <2> QED BY <1>2, <2>1
<1>5. ASSUME NEW b \in Bufs \cup {NULL} PROVE [m EXCEPT !.req[r].rdata = b] \in MemType
  <2>1. [m.req[r] EXCEPT !.rdata = b] \in ReqType
    BY <1>1 DEF ReqType
  <2> QED BY <1>2, <2>1
<1>6. ASSUME NEW t \in Texts \cup {NULL, BLANK} PROVE [m EXCEPT !.req[r].rextra = t] \in MemType
  <2>1. [m.req[r] EXCEPT !.rextra = t] \in ReqType
    BY <1>1 DEF ReqType
  <2> QED BY <1>2, <2>1
<1>7. ASSUME NEW t \in Int PROVE [m EXCEPT !.req[r].received = t] \in MemType
  <2>1. [m.req[r] EXCEPT !.received = t] \in ReqType
    BY <1>1 DEF ReqType
  <2> QED BY <1>2, <2>1
<1>8. [m EXCEPT !.req[r].can_free = FALSE] \in MemType
  <2>1. [m.req[r] EXCEPT !.can_free = FALSE] \in ReqType
    BY <1>1 DEF ReqType
  <2> QED BY <1>2, <2>1
<1>9. ASSUME NEW b \in Bufs, NEW t \in BufType PROVE [m EXCEPT !.buf[b] = t] \in MemType
  BY <1>1 DEF MemType
<1> QED BY <1>3, <1>4, <1>5, <1>6, <1>7, <1>8, <1>9

\* GET keeps the types: it points the reply at the data of the entry.
LEMMA GetType ==
  ASSUME TypeOK, NEW c \in Conns, conn[c].in \in Reqs, NEW m \in MemType,
         NEW k \in Keys, Get(c, m, k)
  PROVE  TypeOK'
<1>1. CASE Refuse(c, m, "KEY_NOTEXISTS")
  BY <1>1, RefuseType DEF Codes
<1>2. CASE Crash("segv") \/ Crash("assert")
  BY <1>2, CrashType
<1> DEFINE cached == m.req[cache[k]]
<1>3. CASE /\ cache[k] # NULL
           /\ add_response(c, m, cached.rdata, cached.hdr.dlen, "SUCCESS", FALSE)
           /\ UNCHANGED <<cache, live, idle_conn_timeout>>
  <2>1. cached \in ReqType
    BY <1>3 DEF TypeOK, MemType
  <2>2. cached.rdata \in Bufs \cup {NULL} /\ cached.hdr.dlen \in BOOLEAN
    BY <2>1 DEF ReqType, HeaderType
  <2>3. "SUCCESS" \in Codes
    BY DEF Codes
  <2>4. /\ cache' \in [Keys -> Reqs \cup {NULL}] /\ live' \subseteq Reqs \cup Bufs
        /\ idle_conn_timeout' \in Nat \ {0}
    BY <1>3 DEF TypeOK
  <2> QED BY <1>3, <2>2, <2>3, <2>4, AddResponseType
<1>4. CASE Delete(m, {k}) /\ send_response(c, m, "KEY_NOTEXISTS")
  BY <1>4, DeleteType DEF Codes
<1> QED BY <1>1, <1>2, <1>3, <1>4 DEF Get

\* SET keeps the types: the cache points at the request of the connection.
LEMMA SetType ==
  ASSUME TypeOK, NEW c \in Conns, conn[c].in \in Reqs, NEW m \in MemType, Set(c, m)
  PROVE  TypeOK'
<1> DEFINE r == conn[c].in
<1> DEFINE kept == Keep(m, r)
<1>1. CASE \E code \in Codes : Refuse(c, m, code)
  BY <1>1, RefuseType
<1>2. CASE Crash("segv") \/ Crash("assert")
  BY <1>2, CrashType
<1>3. CASE \E k \in Keys : /\ cache' = [cache EXCEPT ![k] = r]
                           /\ send_response(c, m, "OUT_OF_MEMORY")
                           /\ UNCHANGED <<live, idle_conn_timeout>>
  <2>1. /\ cache' \in [Keys -> Reqs \cup {NULL}] /\ live' \subseteq Reqs \cup Bufs
        /\ idle_conn_timeout' \in Nat \ {0}
    BY <1>3 DEF TypeOK
  <2> QED BY <1>3, <2>1, AddResponseType DEF send_response, Codes
<1>4. CASE \E k \in Keys : /\ cache' = [cache EXCEPT ![k] = r]
                           /\ live' = live \ CachedBlocks(m, {k})
                           /\ send_response(c, kept, "SUCCESS")
                           /\ UNCHANGED idle_conn_timeout
  <2>1. /\ cache' \in [Keys -> Reqs \cup {NULL}] /\ live' \subseteq Reqs \cup Bufs
        /\ idle_conn_timeout' \in Nat \ {0}
    BY <1>4 DEF TypeOK
  <2>2. kept \in MemType
    BY WriteType DEF Keep
  <2> QED BY <1>4, <2>1, <2>2, AddResponseType DEF send_response, Codes
<1> QED BY <1>1, <1>2, <1>3, <1>4 DEF Set, Codes

\* GET_SETTING and GET_STATS keep the types: they write their text into a new buffer.
LEMMA ProduceType ==
  ASSUME TypeOK, NEW c \in Conns, conn[c].in \in Reqs, NEW m \in MemType,
         NEW text \in BufType, Produce(c, m, text)
  PROVE  TypeOK'
<1>1. CASE Refuse(c, m, "OUT_OF_MEMORY")
  BY <1>1, RefuseType DEF Codes
<1>2. ASSUME NEW b \in Bufs \ live,
             live' = live \cup {b},
             add_response(c, [m EXCEPT !.buf[b] = text], b, TRUE, "SUCCESS", TRUE),
             UNCHANGED <<cache, idle_conn_timeout>>
      PROVE  TypeOK'
  <2>1. [m EXCEPT !.buf[b] = text] \in MemType
    BY WriteType
  <2>2. /\ cache' \in [Keys -> Reqs \cup {NULL}] /\ live' \subseteq Reqs \cup Bufs
        /\ idle_conn_timeout' \in Nat \ {0}
    BY <1>2 DEF TypeOK
  <2> QED BY <1>2, <2>1, <2>2, AddResponseType DEF Codes
<1> QED BY <1>1, <1>2 DEF Produce

\* CHG_SETTING keeps the types: the timeout is a positive number.
LEMMA ChgSettingType ==
  ASSUME TypeOK, NEW c \in Conns, conn[c].in \in Reqs, NEW m \in MemType,
         ChgSetting(c, m)
  PROVE  TypeOK'
<1>1. CASE Refuse(c, m, "INVALID_PARAM")
  BY <1>1, RefuseType DEF Codes
<1>2. CASE /\ m.buf[m.req[conn[c].in].rdata] \in Timeouts
           /\ idle_conn_timeout' = m.buf[m.req[conn[c].in].rdata]
           /\ send_response(c, m, "SUCCESS")
           /\ UNCHANGED <<cache, live>>
  <2>1. /\ cache' \in [Keys -> Reqs \cup {NULL}] /\ live' \subseteq Reqs \cup Bufs
        /\ idle_conn_timeout' \in Nat \ {0}
    BY <1>2, TextsAssumption DEF TypeOK
  <2> QED BY <1>2, <2>1, AddResponseType DEF send_response, Codes
<1> QED BY <1>1, <1>2 DEF ChgSetting

\* Whatever request is carried out, the types hold after it.
LEMMA ExecuteType ==
  ASSUME TypeOK, NEW c \in Conns, conn[c].in \in Reqs, NEW read \in MemType,
         execute_cmd(c, read)
  PROVE  TypeOK'
<1> DEFINE m == [read EXCEPT !.req[conn[c].in].received = now]
<1>1. m \in MemType
  <2>1. now \in Int
    BY DEF TypeOK
  <2> QED BY <2>1, WriteType
<1> HIDE DEF m
<1>2. CASE Keyless(c, m)
  BY <1>1, <1>2, RefuseType, CrashType DEF Keyless, Codes
<1>3. CASE \E k \in Keys : Get(c, m, k)
  BY <1>1, <1>3, GetType
<1>4. CASE \E k \in Keys : DeleteKey(c, m, k)
  <2> PICK k \in Keys : DeleteKey(c, m, k)
    BY <1>4
  <2>1. {k} \in SUBSET Keys
    OBVIOUS
  <2> QED BY <1>1, <2>1, RefuseType, CrashType, DeleteType DEF DeleteKey, Codes
<1>5. CASE Set(c, m)
  BY <1>1, <1>5, SetType
<1>6. CASE FlushAll(c, m)
  BY <1>1, <1>6, CrashType, DeleteType DEF FlushAll, Codes
<1>7. CASE ChgSetting(c, m)
  BY <1>1, <1>7, ChgSettingType
<1>8. CASE GetSetting(c, m)
  <2>1. idle_conn_timeout \in BufType
    BY DEF TypeOK, BufType
  <2> QED BY <1>1, <1>8, <2>1, RefuseType, CrashType, ProduceType DEF GetSetting, Codes
<1>9. CASE GetStats(c, m)
  BY <1>1, <1>9, ProduceType DEF GetStats, BufType
<1>10. CASE Unknown(c, m)
  BY <1>1, <1>10, RefuseType DEF Unknown, Codes
<1> QED
  BY <1>2, <1>3, <1>4, <1>5, <1>6, <1>7, <1>8, <1>9, <1>10 DEF execute_cmd, m

\* Going on to the next section keeps the types.
LEMMA AwaitType ==
  ASSUME TypeOK, NEW c \in Conns, conn[c].in \in Reqs, NEW m \in MemType,
         NEW state \in Reading, Await(c, m, state), live' \subseteq Reqs \cup Bufs
  PROVE  TypeOK'
<1>1. Heard(c, state, conn[c].in, conn[c].out) \in ConnType
  BY HeardType DEF TypeOK, ConnType
<1>2. conn' \in [Conns -> ConnType]
  BY <1>1 DEF Await, TypeOK
<1>3. \A d \in Conns : conn'[d].state # "CONN_CLOSED" => conn'[d].in # NULL
  BY BlocksAssumption DEF Await, TypeOK, Heard
<1> QED BY <1>2, <1>3 DEF Await, TypeOK, MemType, BufType, clocks

\* try_read_request keeps the types, section by section.
LEMMA ReadHeaderType ==
  ASSUME TypeOK, NEW c \in Conns, ReadHeader(c)
  PROVE  TypeOK'
<1> DEFINE r == conn[c].in
<1>1. r \in Reqs
  BY OpenHasRequest DEF ReadHeader, OnEvent
<1> PICK h \in Headers :
      LET m == [Memory EXCEPT !.req[r].hdr = h] IN
      \/ ~h.fits /\ Refuse(c, m, "INVALID_PARAM_SIZE")
      \/ h.fits /\ ~h.klen /\ execute_cmd(c, m)
      \/ /\ h.fits /\ h.klen
         /\ \/ /\ Await(c, [m EXCEPT !.req[r].rkey = BLANK], "READ_KEY")
               /\ UNCHANGED live
            \/ OutOfMemory(c, m, "rkey")
  BY DEF ReadHeader
<1> DEFINE m == [Memory EXCEPT !.req[r].hdr = h]
<1>2. m \in MemType
  BY <1>1, MemoryType, WriteType, HeadersAssumption
<1>3. [m EXCEPT !.req[r].rkey = BLANK] \in MemType
  BY <1>1, <1>2, WriteType
<1>4. CASE Refuse(c, m, "INVALID_PARAM_SIZE") \/ OutOfMemory(c, m, "rkey")
  BY <1>1, <1>2, <1>4, RefuseType DEF OutOfMemory, Codes
<1>5. CASE execute_cmd(c, m)
  BY <1>1, <1>2, <1>5, ExecuteType
<1>6. CASE Await(c, [m EXCEPT !.req[r].rkey = BLANK], "READ_KEY") /\ UNCHANGED live
  <2>1. live' \subseteq Reqs \cup Bufs
    BY <1>6 DEF TypeOK
  <2> QED BY <1>1, <1>3, <1>6, <2>1, AwaitType DEF Reading
<1> QED BY <1>4, <1>5, <1>6

\* The key, read into its buffer.
LEMMA ReadKeyType ==
  ASSUME TypeOK, NEW c \in Conns, ReadKey(c)
  PROVE  TypeOK'
<1> DEFINE r == conn[c].in
<1>1. r \in Reqs
  BY OpenHasRequest DEF ReadKey, OnEvent
<1>2. CASE Crash("assert")
  BY <1>2, CrashType
<1>3. ASSUME NEW k \in KeysOf[c],
             LET m == [Memory EXCEPT !.req[r].rkey = k] IN
             \/ ~req[r].hdr.dlen /\ execute_cmd(c, m)
             \/ /\ req[r].hdr.dlen
                /\ \/ \E b \in Bufs \ live :
                        /\ Await(c, [m EXCEPT !.req[r].rdata = b], "READ_DATA")
                        /\ live' = live \cup {b}
                   \/ Bufs \subseteq live /\ Refuse(c, [m EXCEPT !.req[r].rdata = NULL], "OUT_OF_MEMORY")
      PROVE  TypeOK'
  <2> DEFINE m == [Memory EXCEPT !.req[r].rkey = k]
  <2>1. k \in Keys
    BY KeysAssumption
  <2>2. m \in MemType
    BY <1>1, <2>1, MemoryType, WriteType
  <2>3. CASE execute_cmd(c, m)
    BY <1>1, <2>2, <2>3, ExecuteType
  <2>4. CASE Refuse(c, [m EXCEPT !.req[r].rdata = NULL], "OUT_OF_MEMORY")
    <3>1. [m EXCEPT !.req[r].rdata = NULL] \in MemType
      BY <1>1, <2>2, WriteType
    <3> QED BY <1>1, <2>4, <3>1, RefuseType DEF Codes
  <2>5. ASSUME NEW b \in Bufs \ live, live' = live \cup {b},
               Await(c, [m EXCEPT !.req[r].rdata = b], "READ_DATA")
        PROVE  TypeOK'
    <3>1. [m EXCEPT !.req[r].rdata = b] \in MemType
      BY <1>1, <2>2, WriteType
    <3>2. live' \subseteq Reqs \cup Bufs
      BY <2>5 DEF TypeOK
    <3> QED BY <1>1, <2>5, <3>1, <3>2, AwaitType DEF Reading
  <2> QED BY <1>3, <2>3, <2>4, <2>5
<1> QED BY <1>2, <1>3 DEF ReadKey

\* The data, read into its buffer.
LEMMA ReadDataType ==
  ASSUME TypeOK, NEW c \in Conns, ReadData(c)
  PROVE  TypeOK'
<1> DEFINE r == conn[c].in
<1>1. r \in Reqs
  BY OpenHasRequest DEF ReadData, OnEvent
<1>2. CASE Crash("assert")
  BY <1>2, CrashType
<1>3. ASSUME req[r].rdata # NULL, NEW text \in Texts,
             LET m == [Memory EXCEPT !.buf[req[r].rdata] = text] IN
             \/ ~req[r].hdr.elen /\ execute_cmd(c, m)
             \/ /\ req[r].hdr.elen
                /\ \/ /\ Await(c, [m EXCEPT !.req[r].rextra = BLANK], "READ_EXTRA")
                      /\ UNCHANGED live
                   \/ OutOfMemory(c, m, "rextra")
      PROVE  TypeOK'
  <2> DEFINE m == [Memory EXCEPT !.buf[req[r].rdata] = text]
  <2>1. req[r].rdata \in Bufs /\ text \in BufType
    BY <1>1, <1>3 DEF TypeOK, ReqType, BufType
  <2>2. m \in MemType
    BY <1>1, <2>1, MemoryType, WriteType
  <2>3. [m EXCEPT !.req[r].rextra = BLANK] \in MemType
    BY <1>1, <2>2, WriteType
  <2>4. CASE execute_cmd(c, m)
    BY <1>1, <2>2, <2>4, ExecuteType
  <2>5. CASE OutOfMemory(c, m, "rextra")
    BY <1>1, <2>2, <2>5, RefuseType DEF OutOfMemory, Codes
  <2>6. CASE Await(c, [m EXCEPT !.req[r].rextra = BLANK], "READ_EXTRA") /\ UNCHANGED live
    <3>1. live' \subseteq Reqs \cup Bufs
      BY <2>6 DEF TypeOK
    <3> QED BY <1>1, <2>3, <2>6, <3>1, AwaitType DEF Reading
  <2> QED BY <1>3, <2>4, <2>5, <2>6
<1> QED BY <1>2, <1>3 DEF ReadData

\* The extra, read into its buffer.
LEMMA ReadExtraType ==
  ASSUME TypeOK, NEW c \in Conns, ReadExtra(c)
  PROVE  TypeOK'
<1> DEFINE r == conn[c].in
<1>1. r \in Reqs
  BY OpenHasRequest DEF ReadExtra, OnEvent
<1> PICK text \in Texts : execute_cmd(c, [Memory EXCEPT !.req[r].rextra = text])
  BY DEF ReadExtra
<1>2. [Memory EXCEPT !.req[r].rextra = text] \in MemType
  BY <1>1, MemoryType, WriteType
<1> QED BY <1>1, <1>2, ExecuteType

\* What init_resources and disconnect_conn give back are blocks.
LEMMA FreesType ==
  ASSUME TypeOK, NEW c \in Conns PROVE Frees(c) \subseteq Reqs \cup Bufs
<1>1. free_response(c) \subseteq Bufs
  BY DEF free_response, TypeOK, ConnType, OutType
<1>2. free_request(c) \subseteq Reqs \cup Bufs
  <2>1. CASE conn[c].in = NULL
    BY <2>1 DEF free_request
  <2>2. CASE conn[c].in \in Reqs
    BY <2>2 DEF free_request, RequestBlocks, TypeOK, ReqType
  <2> QED BY <2>1, <2>2 DEF TypeOK, ConnType
<1> QED BY <1>1, <1>2 DEF Frees

\* The initial values of requests, replies and connections have their types.
LEMMA RecordTypes ==
  /\ EmptyRequest \in ReqType
  /\ NoReply \in OutType
  /\ Closed \in ConnType
<1>1. NoHeader \in HeaderType
  BY DEF NoHeader, HeaderType, Opcodes
<1>2. EmptyRequest \in ReqType
  BY <1>1 DEF EmptyRequest, ReqType
<1>3. NoReply \in OutType
  BY DEF NoReply, Response, OutType, Opcodes, Codes
<1>4. Closed \in ConnType
  BY <1>3 DEF Closed, ConnType
<1> QED BY <1>2, <1>3, <1>4

\* disconnect_conn keeps the types, whatever the clocks show by then.
LEMMA DisconnectType ==
  ASSUME TypeOK, NEW C \in SUBSET Conns, disconnect_conn(C),
         now' \in Nat, ctime' \in Int, ptime' \in Int
  PROVE  TypeOK'
<1>1. conn' \in [Conns -> ConnType]
  BY RecordTypes DEF disconnect_conn, TypeOK
<1>2. \A d \in Conns : conn'[d].state # "CONN_CLOSED" => conn'[d].in # NULL
  BY DEF disconnect_conn, TypeOK, Closed
<1>3. curr_connections' \in Int
  <2>1. Cardinality(C) \in Nat
    BY ConnsAssumption, FS_Subset, FS_CardinalityType
  <2> QED BY <2>1 DEF disconnect_conn, TypeOK
<1>4. reg' \in [Conns -> {"none", "read", "write"}]
  BY DEF disconnect_conn, TypeOK
<1> QED BY <1>1, <1>2, <1>3, <1>4 DEF disconnect_conn, TypeOK

\* init_resources keeps the types, with a request block and without.
LEMMA InitResourcesType ==
  ASSUME TypeOK, NEW c \in Conns, init_resources(c)
  PROVE  TypeOK'
<1>1. CASE Crash("assert")
  BY <1>1, CrashType
<1>2. CASE disconnect_conn({c}) /\ UNCHANGED clocks
  <2>1. now' \in Nat /\ ctime' \in Int /\ ptime' \in Int
    BY <1>2 DEF TypeOK, clocks
  <2> QED BY <1>2, <2>1, DisconnectType
<1>3. ASSUME NEW r \in Reqs \ (live \ Frees(c)),
             live' = (live \ Frees(c)) \cup {r},
             req' = [req EXCEPT ![r] = EmptyRequest],
             conn' = [conn EXCEPT ![c] = Heard(c, "READ_HEADER", r, NoReply)],
             reg' = [reg EXCEPT ![c] = "read"],
             UNCHANGED <<conns, cache, buf, idle_conn_timeout, curr_connections, clocks,
                         status>>
      PROVE  TypeOK'
  <2>1. Heard(c, "READ_HEADER", r, NoReply) \in ConnType
    BY HeardType, RecordTypes DEF Reading
  <2>2. conn' \in [Conns -> ConnType]
    BY <1>3, <2>1 DEF TypeOK
  <2>3. \A d \in Conns : conn'[d].state # "CONN_CLOSED" => conn'[d].in # NULL
    BY <1>3, BlocksAssumption DEF TypeOK, Heard
  <2>4. req' \in [Reqs -> ReqType]
    BY <1>3, RecordTypes DEF TypeOK
  <2>5. live' \subseteq Reqs \cup Bufs
    BY <1>3 DEF TypeOK
  <2> QED BY <1>3, <2>2, <2>3, <2>4, <2>5 DEF TypeOK, clocks
<1> QED BY <1>1, <1>2, <1>3 DEF init_resources

\* So does accepting, into a structure that is recycled or new.
LEMMA AcceptType ==
  ASSUME TypeOK, NEW c \in Conns, Accept(c)
  PROVE  TypeOK'
<1>1. conns' \in Seq(Conns)
  <2>1. <<c>> \in Seq(Conns) /\ conns \in Seq(Conns)
    BY DEF TypeOK
  <2>2. <<c>> \o conns \in Seq(Conns)
    BY <2>1
  <2> QED BY <2>1, <2>2 DEF Accept, make_conn
<1>2. CASE UNCHANGED <<conn, reg, memory, curr_connections>>
  BY <1>1, <1>2 DEF Accept, TypeOK, memory, clocks
<1>3. ASSUME NEW r \in Reqs \ live,
             live' = live \cup {r},
             req' = [req EXCEPT ![r] = EmptyRequest],
             conn' = [conn EXCEPT ![c] = [free |-> FALSE, state |-> "READ_HEADER",
                                          in |-> r, out |-> NoReply,
                                          last_heard |-> now]],
             reg' = [reg EXCEPT ![c] = "read"],
             curr_connections' = curr_connections + 1,
             UNCHANGED <<cache, buf>>
      PROVE  TypeOK'
  <2>1. [free |-> FALSE, state |-> "READ_HEADER", in |-> r, out |-> NoReply,
         last_heard |-> now] \in ConnType
    BY RecordTypes DEF ConnType, TypeOK, Reading
  <2>2. conn' \in [Conns -> ConnType]
    BY <1>3, <2>1 DEF TypeOK
  <2>3. \A d \in Conns : conn'[d].state # "CONN_CLOSED" => conn'[d].in # NULL
    BY <1>3, BlocksAssumption DEF TypeOK
  <2>4. req' \in [Reqs -> ReqType]
    BY <1>3, RecordTypes DEF TypeOK
  <2> QED BY <1>1, <1>3, <2>2, <2>3, <2>4 DEF Accept, TypeOK, clocks
<1> QED BY <1>2, <1>3 DEF Accept

\* An event that only moves the state, or only the time, of one connection.
LEMMA HeardStepType ==
  ASSUME TypeOK, NEW c \in Conns, NEW state \in Reading \cup Sending,
         conn[c].state # "CONN_CLOSED",
         conn' = [conn EXCEPT ![c] = Heard(c, state, conn[c].in, conn[c].out)],
         UNCHANGED <<conns, reg, memory, idle_conn_timeout, curr_connections, clocks,
                     status>>
  PROVE  TypeOK'
<1>1. conn[c].in \in Reqs /\ conn[c].out \in OutType
  BY OpenHasRequest DEF TypeOK, ConnType
<1>2. Heard(c, state, conn[c].in, conn[c].out) \in ConnType
  BY <1>1, HeardType
<1>3. conn' \in [Conns -> ConnType]
  BY <1>2 DEF TypeOK
<1>4. \A d \in Conns : conn'[d].state # "CONN_CLOSED" => conn'[d].in # NULL
  BY <1>1, BlocksAssumption DEF TypeOK, Heard
<1> QED BY <1>3, <1>4 DEF TypeOK, memory, clocks

\* The structures, pointers and blocks keep the shape their C declarations give them,
\* and an open connection always has a request, through every handler and every
\* failed allocation: also when clients share keys.
THEOREM TypeCorrect == Spec => []TypeOK
<1>1. Init => TypeOK
  <2> SUFFICES ASSUME Init PROVE TypeOK
    OBVIOUS
  <2>1. conn \in [Conns -> ConnType] /\ req \in [Reqs -> ReqType]
    BY RecordTypes DEF Init
  <2>2. \A c \in Conns : conn[c].state = "CONN_CLOSED"
    BY DEF Init, Closed
  <2> QED BY <2>1, <2>2, SettingAssumption DEF Init, TypeOK
<1>2. TypeOK /\ [Next]_vars => TypeOK'
  <2> SUFFICES ASSUME TypeOK, [Next]_vars PROVE TypeOK'
    OBVIOUS
  <2>1. CASE Tick
    BY <2>1 DEF Tick, TypeOK, memory
  <2>2. CASE NextIteration
    BY <2>2 DEF NextIteration, TypeOK, memory
  <2>3. CASE disconnect_idle_conns
    <3>1. CASE Crash("assert")
      BY <3>1, CrashType
    <3>2. CASE disconnect_conn(Idle) /\ ptime' = ctime /\ ctime' = now /\ UNCHANGED now
      <4>1. Idle \in SUBSET Conns
        BY DEF Idle, Walked, TypeOK
      <4>2. now' \in Nat /\ ctime' \in Int /\ ptime' \in Int
        BY <3>2 DEF TypeOK
      <4> QED BY <3>2, <4>1, <4>2, DisconnectType
    <3> QED BY <2>3, <3>1, <3>2 DEF disconnect_idle_conns
  <2>4. ASSUME NEW c \in Conns, Accept(c) PROVE TypeOK'
    BY <2>4, AcceptType
  <2>5. ASSUME NEW c \in Conns, AcceptDirty(c) PROVE TypeOK'
    BY <2>5, CrashType DEF AcceptDirty
  <2>6. ASSUME NEW c \in Conns, ReadHeader(c) PROVE TypeOK'
    BY <2>6, ReadHeaderType
  <2>7. ASSUME NEW c \in Conns, ReadKey(c) PROVE TypeOK'
    BY <2>7, ReadKeyType
  <2>8. ASSUME NEW c \in Conns, ReadData(c) PROVE TypeOK'
    BY <2>8, ReadDataType
  <2>9. ASSUME NEW c \in Conns, ReadExtra(c) PROVE TypeOK'
    BY <2>9, ReadExtraType
  <2>10. ASSUME NEW c \in Conns, NeedMore(c) PROVE TypeOK'
    BY <2>10, HeardStepType DEF NeedMore, Reading, Sending
  <2>11. ASSUME NEW c \in Conns, SendHeader(c) PROVE TypeOK'
    BY <2>11, HeardStepType, InitResourcesType DEF SendHeader, OnEvent, Sending
  <2>12. ASSUME NEW c \in Conns, SendData(c) PROVE TypeOK'
    BY <2>12, InitResourcesType DEF SendData
  <2>13. ASSUME NEW c \in Conns, Hangup(c) PROVE TypeOK'
    <3>1. CASE Crash("assert")
      BY <3>1, CrashType
    <3>2. CASE disconnect_conn({c}) /\ UNCHANGED clocks
      <4>1. now' \in Nat /\ ctime' \in Int /\ ptime' \in Int
        BY <3>2 DEF TypeOK, clocks
      <4> QED BY <3>2, <4>1, DisconnectType
    <3> QED BY <2>13, <3>1, <3>2 DEF Hangup
  <2>14. CASE UNCHANGED vars
    BY <2>14 DEF vars, memory, clocks, TypeOK
  <2> QED
    BY <2>1, <2>2, <2>3, <2>4, <2>5, <2>6, <2>7, <2>8, <2>9, <2>10, <2>11, <2>12,
       <2>13, <2>14 DEF Next
<1> QED BY <1>1, <1>2, PTL DEF Spec
-----------------------------------------------------------------------------
(* Connections: what epoll watches, the list of connections and the counter *)
(* that GET_STATS reports agree with the states of the connections,         *)
(* whatever clients send and whichever allocation fails.                    *)

ConnInv == TypeOK /\ EventMatchesState /\ ConnectionsListed

Taken == {c \in Conns : ~conn[c].free}

\* The step answers c.
Answers(c) ==
  /\ conn'[c].free = FALSE /\ conn'[c].state = "SEND_HEADER"
  /\ \A d \in Conns \ {c} : conn'[d] = conn[d]
  /\ reg' = [reg EXCEPT ![c] = "write"]
  /\ conns' = conns /\ curr_connections' = curr_connections

\* An event for an open connection c that leaves it open.
LEMMA OpenStep ==
  ASSUME ConnInv, NEW c \in Conns, ~conn[c].free,
         conn'[c].free = FALSE,
         \A d \in Conns \ {c} : conn'[d] = conn[d] /\ reg'[d] = reg[d],
         \/ conn'[c].state \in Reading /\ reg'[c] = "read"
         \/ conn'[c].state \in Sending /\ reg'[c] = "write",
         conns' = conns, curr_connections' = curr_connections
  PROVE  EventMatchesState' /\ ConnectionsListed'
<1>1. EventMatchesState'
  <2> SUFFICES ASSUME NEW d \in Conns
               PROVE  /\ reg'[d] = CASE conn'[d].state \in Reading -> "read"
                                     [] conn'[d].state \in Sending -> "write"
                                     [] OTHER -> "none"
                      /\ conn'[d].free <=> conn'[d].state = "CONN_CLOSED"
    BY DEF EventMatchesState, Reading, Sending
  <2>1. CASE d = c
    BY <2>1 DEF Reading, Sending
  <2>2. CASE d # c
    BY <2>2 DEF ConnInv, EventMatchesState, Reading, Sending
  <2> QED BY <2>1, <2>2
<1>2. Taken' = Taken
  BY DEF Taken
<1>3. Made' = Made
  BY DEF Made
<1> QED BY <1>1, <1>2, <1>3 DEF ConnInv, ConnectionsListed, Taken

\* Closing connections (disconnect_conn, for one or for all the idle) takes them out of
\* epoll and out of the counter, and leaves them in the list.
LEMMA ClosedStep ==
  ASSUME ConnInv, NEW C \in SUBSET Conns, \A c \in C : ~conn[c].free, disconnect_conn(C)
  PROVE  EventMatchesState' /\ ConnectionsListed'
<1>1. /\ \A c \in C : conn'[c] = Closed /\ reg'[c] = "none"
      /\ \A c \in Conns \ C : conn'[c] = conn[c] /\ reg'[c] = reg[c]
      /\ conns' = conns
  BY DEF disconnect_conn
<1>2. EventMatchesState'
  <2> SUFFICES ASSUME NEW d \in Conns
               PROVE  /\ reg'[d] = CASE conn'[d].state \in Reading -> "read"
                                     [] conn'[d].state \in Sending -> "write"
                                     [] OTHER -> "none"
                      /\ conn'[d].free <=> conn'[d].state = "CONN_CLOSED"
    BY DEF EventMatchesState, Reading, Sending
  <2>1. CASE d \in C
    BY <1>1, <2>1 DEF Closed, Reading, Sending
  <2>2. CASE d \notin C
    BY <1>1, <2>2 DEF ConnInv, EventMatchesState, Reading, Sending
  <2> QED BY <2>1, <2>2
<1>3. Taken' = Taken \ C
  BY <1>1 DEF Taken, Closed
<1>4. Made' = Made
  BY <1>1 DEF Made
<1>5. curr_connections' = 1 + Cardinality(Taken')
  <2>1. IsFiniteSet(Taken) /\ IsFiniteSet(C)
    BY ConnsAssumption, FS_Subset DEF Taken
  <2>2. Taken \cap C = C
    BY DEF Taken
  <2>3. Cardinality(Taken \ C) = Cardinality(Taken) - Cardinality(C)
    BY <2>1, <2>2, FS_Difference
  <2>4. curr_connections = 1 + Cardinality(Taken)
    BY DEF ConnInv, ConnectionsListed, Taken
  <2>5. curr_connections' = curr_connections - Cardinality(C)
    BY DEF disconnect_conn
  <2>6. Cardinality(Taken) \in Nat /\ Cardinality(C) \in Nat
    BY <2>1, FS_CardinalityType
  <2> QED BY <1>3, <2>3, <2>4, <2>5, <2>6
<1> QED BY <1>1, <1>2, <1>3, <1>4, <1>5 DEF ConnInv, ConnectionsListed, Taken

\* A process that dies touches no connection.
LEMMA CrashConns ==
  ASSUME ConnInv, NEW why, Crash(why)
  PROVE  EventMatchesState' /\ ConnectionsListed'
BY DEF Crash, ConnInv, EventMatchesState, ConnectionsListed, Made

\* Where make_conn puts the structure.
LEMMA MakeConnList ==
  ASSUME ConnInv, NEW c \in Conns, make_conn(c)
  PROVE  /\ conn[c].free
         /\ \A i, j \in 1..Len(conns') : conns'[i] = conns'[j] => i = j
         /\ Made' = Made \cup {c}
<1>1. conns \in Seq(Conns) /\ Len(conns) \in Nat
  BY DEF ConnInv, TypeOK
<1>2. CASE c \in FirstFree /\ conns' = conns
  BY <1>2 DEF FirstFree, Made, ConnInv, ConnectionsListed
<1>3. CASE c \notin Made /\ conns' = <<c>> \o conns
  <2>1. /\ Len(conns') = Len(conns) + 1
        /\ conns'[1] = c
        /\ \A i \in 2..Len(conns') : conns'[i] = conns[i - 1]
    BY <1>1, <1>3
  <2>2. \A i \in 2..Len(conns') : i - 1 \in 1..Len(conns) /\ conns'[i] # c
    BY <1>1, <1>3, <2>1 DEF Made
  <2>3. \A i, j \in 1..Len(conns') : conns'[i] = conns'[j] => i = j
    <3> SUFFICES ASSUME NEW i \in 1..Len(conns'), NEW j \in 1..Len(conns'),
                        conns'[i] = conns'[j]
                 PROVE  i = j
      OBVIOUS
    <3>1. CASE i = 1 \/ j = 1
      BY <1>1, <2>1, <2>2, <3>1
    <3>2. CASE i # 1 /\ j # 1
      <4>1. conns[i - 1] = conns[j - 1] /\ i - 1 \in 1..Len(conns) /\ j - 1 \in 1..Len(conns)
        BY <1>1, <2>1, <3>2
      <4>2. i - 1 = j - 1
        BY <4>1 DEF ConnInv, ConnectionsListed
      <4> QED BY <1>1, <2>1, <4>2
    <3> QED BY <3>1, <3>2
  <2>4. Made' = Made \cup {c}
    <3>1. \A d \in Made : \E i \in 1..Len(conns') : conns'[i] = d
      <4> SUFFICES ASSUME NEW i \in 1..Len(conns)
                   PROVE  \E j \in 1..Len(conns') : conns'[j] = conns[i]
        BY DEF Made
      <4>1. i + 1 \in 2..Len(conns') /\ conns'[i + 1] = conns[i]
        BY <1>1, <2>1
      <4> QED BY <1>1, <2>1, <4>1
    <3>2. \A i \in 1..Len(conns') : conns'[i] \in Made \cup {c}
      <4> SUFFICES ASSUME NEW i \in 1..Len(conns'), i # 1 PROVE conns'[i] \in Made
        BY <2>1
      <4>1. i \in 2..Len(conns')
        BY <1>1, <2>1
      <4> QED BY <2>1, <2>2, <4>1 DEF Made
    <3>3. 1 \in 1..Len(conns')
      BY <1>1, <2>1
    <3>4. Made' = {conns'[i] : i \in 1..Len(conns')}
      BY DEF Made
    <3>5. Made \cup {c} \subseteq Made'
      BY <2>1, <3>1, <3>3, <3>4
    <3>6. Made' \subseteq Made \cup {c}
      BY <3>2, <3>4
    <3> QED BY <3>5, <3>6
  <2>5. conn[c].free
    BY <1>3 DEF ConnInv, ConnectionsListed
  <2> QED BY <2>3, <2>4, <2>5
<1> QED BY <1>2, <1>3 DEF make_conn

\* A connection that is accepted is listed once, counted, and watched for its header; one
\* that finds no request block is closed again.
LEMMA AcceptConns ==
  ASSUME ConnInv, NEW c \in Conns, Accept(c)
  PROVE  EventMatchesState' /\ ConnectionsListed'
<1>1. /\ conn[c].free
      /\ \A i, j \in 1..Len(conns') : conns'[i] = conns'[j] => i = j
      /\ Made' = Made \cup {c}
  BY MakeConnList DEF Accept
<1>2. CASE UNCHANGED <<conn, reg, memory, curr_connections>>
  <2>1. Taken' = Taken
    BY <1>2 DEF Taken
  <2> QED BY <1>1, <1>2, <2>1 DEF ConnInv, EventMatchesState, ConnectionsListed, Taken
<1>3. ASSUME NEW r,
             conn' = [conn EXCEPT ![c] = [free |-> FALSE, state |-> "READ_HEADER",
                                          in |-> r, out |-> NoReply,
                                          last_heard |-> now]],
             reg' = [reg EXCEPT ![c] = "read"],
             curr_connections' = curr_connections + 1
      PROVE  EventMatchesState' /\ ConnectionsListed'
  <2>1. /\ conn'[c].free = FALSE /\ conn'[c].state = "READ_HEADER" /\ reg'[c] = "read"
        /\ \A d \in Conns \ {c} : conn'[d] = conn[d] /\ reg'[d] = reg[d]
    BY <1>3 DEF ConnInv, TypeOK
  <2>2. EventMatchesState'
    <3> SUFFICES ASSUME NEW d \in Conns
                 PROVE  /\ reg'[d] = CASE conn'[d].state \in Reading -> "read"
                                       [] conn'[d].state \in Sending -> "write"
                                       [] OTHER -> "none"
                        /\ conn'[d].free <=> conn'[d].state = "CONN_CLOSED"
      BY DEF EventMatchesState, Reading, Sending
    <3>1. CASE d = c
      BY <2>1, <3>1 DEF Reading, Sending
    <3>2. CASE d # c
      BY <2>1, <3>2 DEF ConnInv, EventMatchesState, Reading, Sending
    <3> QED BY <3>1, <3>2
  <2>3. Taken' = Taken \cup {c} /\ c \notin Taken
    BY <1>1, <2>1 DEF Taken
  <2>4. Taken' \subseteq Made'
    BY <1>1, <2>3 DEF ConnInv, ConnectionsListed, Taken
  <2>5. curr_connections' = 1 + Cardinality(Taken')
    <3>1. IsFiniteSet(Taken)
      BY ConnsAssumption, FS_Subset DEF Taken
    <3>2. Cardinality(Taken \cup {c}) = Cardinality(Taken) + 1
      BY <2>3, <3>1, FS_AddElement
    <3>3. curr_connections = 1 + Cardinality(Taken)
      BY DEF ConnInv, ConnectionsListed, Taken
    <3>4. Cardinality(Taken) \in Nat
      BY <3>1, FS_CardinalityType
    <3> QED BY <1>3, <2>3, <3>2, <3>3, <3>4
  <2> QED BY <1>1, <2>2, <2>4, <2>5 DEF ConnectionsListed, Taken
<1> QED BY <1>2, <1>3 DEF Accept
\* add_response leaves its connection waiting to send.
LEMMA AddResponseAnswers ==
  ASSUME ConnInv, NEW c \in Conns, ~conn[c].free, NEW m, NEW sdata, NEW len, NEW code,
         NEW can_free, add_response(c, m, sdata, len, code, can_free)
  PROVE  Answers(c)
BY DEF add_response, Heard, Answers, ConnInv, TypeOK

\* A reply without a body leaves its connection waiting to send.
LEMMA RefuseAnswers ==
  ASSUME ConnInv, NEW c \in Conns, ~conn[c].free, NEW m, NEW code,
         send_response(c, m, code) \/ Refuse(c, m, code)
  PROVE  Answers(c)
BY AddResponseAnswers DEF send_response, Refuse

\* Whatever a command does with memory, it answers, or an assertion fails.
LEMMA ExecuteAnswers ==
  ASSUME ConnInv, NEW c \in Conns, ~conn[c].free, NEW read, execute_cmd(c, read)
  PROVE  Answers(c) \/ Crash("assert") \/ Crash("segv")
<1> DEFINE m == [read EXCEPT !.req[conn[c].in].received = now]
<1>1. \/ Keyless(c, m)
      \/ \E k \in Keys : Get(c, m, k) \/ DeleteKey(c, m, k)
      \/ Set(c, m)
      \/ FlushAll(c, m)
      \/ ChgSetting(c, m)
      \/ GetSetting(c, m)
      \/ GetStats(c, m)
      \/ Unknown(c, m)
  BY DEF execute_cmd
<1> HIDE DEF m
<1>2. ASSUME NEW text, Produce(c, m, text) PROVE Answers(c)
  BY <1>2, RefuseAnswers, AddResponseAnswers DEF Produce
<1>3. CASE Keyless(c, m) \/ Unknown(c, m) \/ GetStats(c, m)
  BY <1>2, <1>3, RefuseAnswers DEF Keyless, Unknown, GetStats
<1>4. CASE GetSetting(c, m) \/ ChgSetting(c, m)
  BY <1>2, <1>4, RefuseAnswers DEF GetSetting, ChgSetting
<1>5. CASE FlushAll(c, m)
  BY <1>5, RefuseAnswers DEF FlushAll
<1>6. ASSUME NEW k \in Keys, DeleteKey(c, m, k)
      PROVE  Answers(c) \/ Crash("assert") \/ Crash("segv")
  BY <1>6, RefuseAnswers DEF DeleteKey
<1>7. ASSUME NEW k \in Keys, Get(c, m, k)
      PROVE  Answers(c) \/ Crash("assert") \/ Crash("segv")
  BY <1>7, RefuseAnswers, AddResponseAnswers DEF Get
<1>8. CASE Set(c, m)
  BY <1>8, RefuseAnswers DEF Set
<1> QED BY <1>1, <1>3, <1>4, <1>5, <1>6, <1>7, <1>8

\* A connection that goes on to its next section is still watched for reading.
LEMMA AwaitOpens ==
  ASSUME ConnInv, NEW c \in Conns, ~conn[c].free, NEW m, NEW state \in Reading,
         reg[c] = "read", Await(c, m, state)
  PROVE  EventMatchesState' /\ ConnectionsListed'
<1>1. /\ conn'[c].free = FALSE /\ conn'[c].state = state
      /\ \A d \in Conns \ {c} : conn'[d] = conn[d] /\ reg'[d] = reg[d]
      /\ reg'[c] = "read" /\ conns' = conns /\ curr_connections' = curr_connections
  BY DEF Await, Heard, ConnInv, TypeOK
<1> QED BY <1>1, OpenStep

\* Whatever answers a connection keeps list, counter and registrations true.
LEMMA AnswersConns ==
  ASSUME ConnInv, NEW c \in Conns, ~conn[c].free,
         Answers(c) \/ Crash("assert") \/ Crash("segv")
  PROVE  EventMatchesState' /\ ConnectionsListed'
<1>1. CASE Answers(c)
  <2>1. conn'[c].state \in Sending /\ reg'[c] = "write"
    BY <1>1 DEF Answers, Sending, ConnInv, TypeOK
  <2>2. \A d \in Conns \ {c} : conn'[d] = conn[d] /\ reg'[d] = reg[d]
    BY <1>1 DEF Answers, ConnInv, TypeOK
  <2> QED BY <1>1, <2>1, <2>2, OpenStep DEF Answers
<1> QED BY <1>1, CrashConns

\* A handler that completes a section of the request.
LEMMA ReadConns ==
  ASSUME ConnInv, NEW c \in Conns,
         ReadHeader(c) \/ ReadKey(c) \/ ReadData(c) \/ ReadExtra(c)
  PROVE  EventMatchesState' /\ ConnectionsListed'
<1>1. ~conn[c].free /\ reg[c] = "read"
  BY DEF ReadHeader, ReadKey, ReadData, ReadExtra, OnEvent, ConnInv, EventMatchesState
<1>2. ASSUME NEW m, execute_cmd(c, m) \/ (\E code : Refuse(c, m, code))
      PROVE  EventMatchesState' /\ ConnectionsListed'
  BY <1>1, <1>2, ExecuteAnswers, RefuseAnswers, AnswersConns
<1>3. ASSUME NEW m, NEW state \in Reading, Await(c, m, state)
      PROVE  EventMatchesState' /\ ConnectionsListed'
  BY <1>1, <1>3, AwaitOpens
<1>4. CASE Crash("assert")
  BY <1>4, CrashConns
<1>5. CASE ReadHeader(c)
  <2>1. PICK h \in Headers :
          LET m == [Memory EXCEPT !.req[conn[c].in].hdr = h] IN
          \/ Refuse(c, m, "INVALID_PARAM_SIZE")
          \/ execute_cmd(c, m)
          \/ Await(c, [m EXCEPT !.req[conn[c].in].rkey = BLANK], "READ_KEY")
          \/ Refuse(c, m, "OUT_OF_MEMORY")
    BY <1>5 DEF ReadHeader, OutOfMemory
  <2> QED BY <1>2, <1>3, <2>1 DEF Reading
<1>6. CASE ReadKey(c)
  <2>1. \/ Crash("assert")
        \/ \E k \in KeysOf[c] :
             LET m == [Memory EXCEPT !.req[conn[c].in].rkey = k] IN
             \/ execute_cmd(c, m)
             \/ \E b \in Bufs : Await(c, [m EXCEPT !.req[conn[c].in].rdata = b], "READ_DATA")
             \/ Refuse(c, [m EXCEPT !.req[conn[c].in].rdata = NULL], "OUT_OF_MEMORY")
    BY <1>6 DEF ReadKey
  <2> QED BY <1>2, <1>3, <1>4, <2>1 DEF Reading
<1>7. CASE ReadData(c)
  <2>1. \/ Crash("assert")
        \/ \E text \in Texts :
             LET m == [Memory EXCEPT !.buf[req[conn[c].in].rdata] = text] IN
             \/ execute_cmd(c, m)
             \/ Await(c, [m EXCEPT !.req[conn[c].in].rextra = BLANK], "READ_EXTRA")
             \/ Refuse(c, m, "OUT_OF_MEMORY")
    BY <1>7 DEF ReadData, OutOfMemory
  <2> QED BY <1>2, <1>3, <1>4, <2>1 DEF Reading
<1>8. CASE ReadExtra(c)
  BY <1>2, <1>8 DEF ReadExtra
<1> QED BY <1>5, <1>6, <1>7, <1>8

\* init_resources either gives the connection a new request to wait for, or closes it.
LEMMA InitResourcesConns ==
  ASSUME ConnInv, NEW c \in Conns, ~conn[c].free, init_resources(c)
  PROVE  EventMatchesState' /\ ConnectionsListed'
<1>1. CASE Crash("assert")
  BY <1>1, CrashConns
<1>2. CASE disconnect_conn({c})
  BY <1>2, ClosedStep
<1>3. ASSUME NEW r, conn' = [conn EXCEPT ![c] = Heard(c, "READ_HEADER", r, NoReply)],
             reg' = [reg EXCEPT ![c] = "read"],
             conns' = conns, curr_connections' = curr_connections
      PROVE  EventMatchesState' /\ ConnectionsListed'
  <2>1. /\ conn'[c].free = FALSE /\ conn'[c].state \in Reading /\ reg'[c] = "read"
        /\ \A d \in Conns \ {c} : conn'[d] = conn[d] /\ reg'[d] = reg[d]
    BY <1>3 DEF Heard, Reading, ConnInv, TypeOK
  <2> QED BY <1>3, <2>1, OpenStep
<1> QED BY <1>1, <1>2, <1>3 DEF init_resources

\* Every handler leaves epoll watching what the new state of its connection handles,
\* and the list of connections and the counter of GET_STATS true.
THEOREM ConnectionsCorrect == Spec => [](EventMatchesState /\ ConnectionsListed)
<1>1. Init => EventMatchesState /\ ConnectionsListed
  <2> SUFFICES ASSUME Init PROVE EventMatchesState /\ ConnectionsListed
    OBVIOUS
  <2>1. \A c \in Conns : conn[c].free /\ conn[c].state = "CONN_CLOSED" /\ reg[c] = "none"
    BY DEF Init, Closed
  <2>2. EventMatchesState
    BY <2>1 DEF EventMatchesState, Reading, Sending
  <2>3. {c \in Conns : ~conn[c].free} = {}
    BY <2>1
  <2>4. Len(conns) = 0
    BY DEF Init
  <2>5. curr_connections = 1 + Cardinality({})
    <3>1. Cardinality({}) = 0
      BY FS_EmptySet
    <3> QED BY <3>1 DEF Init
  <2>6. \A i, j \in 1..Len(conns) : conns[i] = conns[j] => i = j
    BY <2>4
  <2> QED BY <2>2, <2>3, <2>5, <2>6 DEF ConnectionsListed
<1>2. TypeOK /\ (EventMatchesState /\ ConnectionsListed) /\ [Next]_vars
        => (EventMatchesState /\ ConnectionsListed)'
  <2> SUFFICES ASSUME ConnInv, [Next]_vars PROVE EventMatchesState' /\ ConnectionsListed'
    BY DEF ConnInv
  <2>1. CASE \/ UNCHANGED vars \/ Tick \/ NextIteration
    <3>1. conns' = conns /\ conn' = conn /\ reg' = reg /\ curr_connections' = curr_connections
      BY <2>1 DEF vars, Tick, NextIteration
    <3> QED BY <3>1 DEF ConnInv, EventMatchesState, ConnectionsListed, Made
  <2>2. CASE disconnect_idle_conns
    <3>1. Idle \in SUBSET Conns /\ \A c \in Idle : ~conn[c].free
      BY DEF Idle, Walked, ConnInv, TypeOK
    <3> QED BY <2>2, <3>1, ClosedStep, CrashConns DEF disconnect_idle_conns
  <2>3. ASSUME NEW c \in Conns, Accept(c) PROVE EventMatchesState' /\ ConnectionsListed'
    BY <2>3, AcceptConns
  <2>4. ASSUME NEW c \in Conns, AcceptDirty(c) PROVE EventMatchesState' /\ ConnectionsListed'
    BY <2>4, CrashConns DEF AcceptDirty
  <2>5. ASSUME NEW c \in Conns, ReadHeader(c) \/ ReadKey(c) \/ ReadData(c) \/ ReadExtra(c)
        PROVE  EventMatchesState' /\ ConnectionsListed'
    BY <2>5, ReadConns
  <2>6. ASSUME NEW c \in Conns, conn[c].state \in Reading \cup Sending PROVE ~conn[c].free
    BY <2>6 DEF ConnInv, EventMatchesState, Reading, Sending
  <2>7. ASSUME NEW c \in Conns, NeedMore(c) PROVE EventMatchesState' /\ ConnectionsListed'
    <3>1. /\ conn'[c].free = FALSE /\ conn'[c].state = conn[c].state
          /\ \A d \in Conns \ {c} : conn'[d] = conn[d] /\ reg'[d] = reg[d]
          /\ reg'[c] = reg[c] /\ conns' = conns /\ curr_connections' = curr_connections
      BY <2>6, <2>7 DEF NeedMore, Heard, ConnInv, TypeOK
    <3>2. \/ conn[c].state \in Reading /\ reg[c] = "read"
          \/ conn[c].state \in Sending /\ reg[c] = "write"
      BY <2>7 DEF NeedMore, ConnInv, EventMatchesState, Reading, Sending
    <3> QED BY <2>6, <2>7, <3>1, <3>2, OpenStep DEF NeedMore
  <2>8. ASSUME NEW c \in Conns, SendHeader(c) PROVE EventMatchesState' /\ ConnectionsListed'
    <3>1. ~conn[c].free
      BY <2>6, <2>8 DEF SendHeader, OnEvent, Sending
    <3>2. CASE init_resources(c)
      BY <3>1, <3>2, InitResourcesConns
    <3>3. CASE /\ conn' = [conn EXCEPT ![c] = Heard(c, "SEND_DATA", conn[c].in, conn[c].out)]
               /\ UNCHANGED <<conns, reg, memory, idle_conn_timeout, curr_connections,
                              clocks, status>>
      <4>1. /\ conn'[c].free = FALSE /\ conn'[c].state \in Sending /\ reg'[c] = "write"
            /\ \A d \in Conns \ {c} : conn'[d] = conn[d] /\ reg'[d] = reg[d]
        BY <2>8, <3>1, <3>3 DEF SendHeader, OnEvent, Heard, Sending, ConnInv, TypeOK
      <4> QED BY <3>1, <3>3, <4>1, OpenStep
    <3> QED BY <2>8, <3>2, <3>3 DEF SendHeader
  <2>9. ASSUME NEW c \in Conns, SendData(c) PROVE EventMatchesState' /\ ConnectionsListed'
    BY <2>6, <2>9, InitResourcesConns DEF SendData, OnEvent, Sending
  <2>10. ASSUME NEW c \in Conns, Hangup(c) PROVE EventMatchesState' /\ ConnectionsListed'
    <3>1. ~conn[c].free
      BY <2>6, <2>10 DEF Hangup
    <3>2. CASE disconnect_conn({c})
      BY <3>1, <3>2, ClosedStep
    <3> QED BY <2>10, <3>2, CrashConns DEF Hangup
  <2> QED BY <2>1, <2>2, <2>3, <2>4, <2>5, <2>7, <2>8, <2>9, <2>10 DEF Next
<1> QED BY <1>1, <1>2, TypeCorrect, PTL DEF Spec

\* The half of it the runs check by itself: the list that make_conn searches and the audit
\* walks has every structure once, and curr_connections counts the open ones.
THEOREM ListTrue == Spec => []ConnectionsListed
<1>1. EventMatchesState /\ ConnectionsListed => ConnectionsListed
  OBVIOUS
<1> QED BY <1>1, ConnectionsCorrect, PTL
-----------------------------------------------------------------------------
(* Ownership: the lemmas on how a handler changes who owns which block.    *)

\* The pointers of a well-typed state.
LEMMA Pointers ==
  ASSUME TypeOK
  PROVE  /\ \A c \in Conns : Open(c) => conn[c].in \in Reqs
         /\ \A c \in Conns : conn[c].out.sdata \in Bufs \cup {NULL}
         /\ \A k \in Keys : cache[k] \in Reqs \cup {NULL}
         /\ \A r \in Reqs : req[r].rdata \in Bufs \cup {NULL}
         /\ CachedReqs \subseteq Reqs
         /\ Held \subseteq Reqs
         /\ Reqs \cap Bufs = {} /\ NULL \notin Reqs /\ NULL \notin Bufs
<1>1. \A c \in Conns : Open(c) => conn[c].in \in Reqs
  BY OpenHasRequest DEF Open
<1>2. \A c \in Conns : conn[c].out.sdata \in Bufs \cup {NULL}
  BY DEF TypeOK, ConnType, OutType
<1>3. \A k \in Keys : cache[k] \in Reqs \cup {NULL}
  BY DEF TypeOK
<1>4. \A r \in Reqs : req[r].rdata \in Bufs \cup {NULL}
  BY DEF TypeOK, ReqType
<1>5. CachedReqs \subseteq Reqs
  BY <1>3 DEF CachedReqs
<1>6. Held \subseteq Reqs
  BY <1>1, <1>5 DEF Held
<1> QED BY <1>1, <1>2, <1>3, <1>4, <1>5, <1>6, BlocksAssumption

\* What a connection gives back: its request unless it is cached, and the body it owns.
LEMMA FreesOwned ==
  ASSUME TypeOK, Ownership(req), NEW c \in Conns
  PROVE  /\ Open(c) /\ conn[c].in \notin CachedReqs =>
              free_request(c) = {conn[c].in, req[conn[c].in].rdata} \ {NULL}
         /\ ~Open(c) \/ conn[c].in \in CachedReqs => free_request(c) = {}
         /\ free_response(c) = IF OwnsBody(c) THEN {conn[c].out.sdata} ELSE {}
<1>1. CASE Open(c)
  <2>1. conn[c].in # NULL /\ (req[conn[c].in].can_free <=> conn[c].in \notin CachedReqs)
    BY <1>1, Pointers DEF Ownership, ConnOwnership
  <2>2. free_response(c) = IF OwnsBody(c) THEN {conn[c].out.sdata} ELSE {}
    BY <1>1 DEF free_response, OwnsBody
  <2> QED BY <1>1, <2>1, <2>2 DEF free_request, RequestBlocks
<1>2. CASE ~Open(c)
  <2>1. conn[c] = Closed
    BY <1>2 DEF Ownership
  <2> QED BY <1>2, <2>1
       DEF Closed, NoReply, Response, free_request, free_response, OwnsBody
<1> QED BY <1>1, <1>2

\* No block is ever freed twice.
LEMMA FreeOKAlways ==
  ASSUME TypeOK, Ownership(req), NEW C \in SUBSET Conns
  PROVE  FreeOK(C)
<1> USE Pointers
<1>1. ASSUME NEW c \in Conns PROVE Frees(c) \subseteq live
  <2>1. free_response(c) \subseteq live
    BY FreesOwned DEF Ownership, ConnOwnership, OwnsBody
  <2>2. CASE Open(c) /\ conn[c].in \notin CachedReqs
    <3>1. conn[c].in \in live /\ conn[c].in \in Held
      BY <2>2 DEF Ownership, ConnOwnership, Held
    <3>2. req[conn[c].in].rdata # NULL => req[conn[c].in].rdata \in live
      BY <3>1 DEF Ownership
    <3> QED BY <2>1, <2>2, <3>1, <3>2, FreesOwned DEF Frees
  <2> QED BY <2>1, <2>2, FreesOwned DEF Frees
<1>2. ASSUME NEW c \in Conns PROVE free_request(c) \cap free_response(c) = {}
  <2>1. CASE Open(c) /\ OwnsBody(c)
    <3>1. conn[c].in \in Held
      BY <2>1 DEF Held
    <3>2. req[conn[c].in].rdata # conn[c].out.sdata
      BY <2>1, <3>1 DEF Ownership, ConnOwnership
    <3> QED BY <2>1, <3>2, FreesOwned DEF OwnsBody
  <2> QED BY <2>1, FreesOwned DEF OwnsBody
<1>3. ASSUME NEW c \in Conns, NEW d \in Conns, c # d PROVE Frees(c) \cap Frees(d) = {}
  <2>1. CASE Open(c) /\ Open(d)
    <3>1. conn[c].in \in Held /\ conn[d].in \in Held /\ conn[c].in # conn[d].in
      BY <1>3, <2>1 DEF Ownership, Held
    <3>2. req[conn[c].in].rdata # NULL => req[conn[c].in].rdata # req[conn[d].in].rdata
      BY <3>1 DEF Ownership
    <3>3. /\ OwnsBody(c) => req[conn[d].in].rdata # conn[c].out.sdata
          /\ OwnsBody(d) => req[conn[c].in].rdata # conn[d].out.sdata
      BY <2>1, <3>1 DEF Ownership, ConnOwnership
    <3>4. OwnsBody(c) /\ OwnsBody(d) => conn[c].out.sdata # conn[d].out.sdata
      BY <1>3 DEF Ownership
    <3> QED BY <2>1, <3>1, <3>2, <3>3, <3>4, FreesOwned DEF Frees, OwnsBody
  <2> QED BY <2>1, FreesOwned DEF Frees, OwnsBody
<1> QED BY <1>1, <1>2, <1>3 DEF FreeOK
-----------------------------------------------------------------------------
(* Giving back                                                             *)

\* A block that survives what the connections of C give back.
LEMMA Survives ==
  ASSUME TypeOK, Ownership(req), NEW C \in SUBSET Conns
  PROVE  LET Gone == UNION {Frees(c) : c \in C} IN
         /\ \A d \in Conns \ C : Open(d) => conn[d].in \notin Gone
         /\ \A r \in CachedReqs : r \notin Gone
         /\ \A d \in Conns \ C : Open(d) => req[conn[d].in].rdata \notin Gone
         /\ \A r \in CachedReqs : req[r].rdata \notin Gone
         /\ \A d \in Conns \ C : OwnsBody(d) => conn[d].out.sdata \notin Gone
<1> USE Pointers
<1>1. ASSUME NEW c \in C, NEW r \in CachedReqs
      PROVE  r \notin Frees(c) /\ req[r].rdata \notin Frees(c)
  <2>1. r \in Held
    BY DEF Held
  <2>2. r \notin Frees(c)
    BY FreesOwned DEF Frees, OwnsBody
  <2>3. req[r].rdata \notin free_response(c)
    BY <2>1, FreesOwned DEF Ownership, ConnOwnership, OwnsBody
  <2>4. req[r].rdata \notin free_request(c)
    <3>1. CASE Open(c) /\ conn[c].in \notin CachedReqs
      <4>1. conn[c].in \in Held
        BY <3>1 DEF Held
      <4>2. req[r].rdata # NULL => req[r].rdata # req[conn[c].in].rdata
        BY <2>1, <3>1, <4>1 DEF Ownership
      <4> QED BY <3>1, <4>2, FreesOwned
    <3> QED BY <3>1, FreesOwned
  <2> QED BY <2>2, <2>3, <2>4 DEF Frees
<1>2. ASSUME NEW c \in C, NEW d \in Conns \ C, Open(d)
      PROVE  conn[d].in \notin Frees(c) /\ req[conn[d].in].rdata \notin Frees(c)
  <2>1. conn[d].in \in Held
    BY <1>2 DEF Held
  <2>2. CASE Open(c)
    <3>1. conn[c].in \in Held /\ conn[c].in # conn[d].in
      BY <1>2, <2>2 DEF Held, Ownership
    <3>2. conn[d].in \notin Frees(c)
      BY <1>2, <3>1, FreesOwned DEF Frees, OwnsBody
    <3>3. req[conn[d].in].rdata # NULL => req[conn[d].in].rdata # req[conn[c].in].rdata
      BY <2>1, <3>1 DEF Ownership
    <3>4. OwnsBody(c) => req[conn[d].in].rdata # conn[c].out.sdata
      BY <2>1, <2>2 DEF Ownership, ConnOwnership
    <3> QED BY <1>2, <3>2, <3>3, <3>4, FreesOwned DEF Frees
  <2>3. CASE ~Open(c)
    BY <2>3, FreesOwned DEF Frees, OwnsBody
  <2> QED BY <2>2, <2>3
<1>3. ASSUME NEW c \in C, NEW d \in Conns \ C, OwnsBody(d)
      PROVE  conn[d].out.sdata \notin Frees(c)
  <2>1. CASE Open(c)
    <3>1. conn[c].in \in Held
      BY <2>1 DEF Held
    <3>2. req[conn[c].in].rdata # conn[d].out.sdata
      BY <1>3, <3>1 DEF Ownership, ConnOwnership, OwnsBody
    <3>3. OwnsBody(c) => conn[c].out.sdata # conn[d].out.sdata
      BY <1>3 DEF Ownership
    <3> QED BY <1>3, <3>2, <3>3, FreesOwned DEF Frees, OwnsBody
  <2>2. CASE ~Open(c)
    BY <2>2, FreesOwned DEF Frees, OwnsBody
  <2> QED BY <2>1, <2>2
<1> QED BY <1>1, <1>2, <1>3

\* Survives, for the blocks a single connection gives back.
LEMMA SurvivesOne ==
  ASSUME TypeOK, Ownership(req), NEW c \in Conns
  PROVE  /\ \A d \in Conns \ {c} : Open(d) =>
              conn[d].in \notin Frees(c) /\ req[conn[d].in].rdata \notin Frees(c)
         /\ \A r \in CachedReqs : r \notin Frees(c) /\ req[r].rdata \notin Frees(c)
         /\ \A d \in Conns \ {c} : OwnsBody(d) => conn[d].out.sdata \notin Frees(c)
<1> DEFINE C == {c}
<1>1. C \in SUBSET Conns /\ UNION {Frees(d) : d \in C} = Frees(c)
  OBVIOUS
<1> HIDE DEF C
<1>2. /\ \A d \in Conns \ C : Open(d) =>
            conn[d].in \notin Frees(c) /\ req[conn[d].in].rdata \notin Frees(c)
      /\ \A r \in CachedReqs : r \notin Frees(c) /\ req[r].rdata \notin Frees(c)
      /\ \A d \in Conns \ C : OwnsBody(d) => conn[d].out.sdata \notin Frees(c)
  BY <1>1, Survives
<1> QED BY <1>2 DEF C

\* Closing connections leaves every block with its owner and leaks none.
LEMMA DisconnectOwnership ==
  ASSUME TypeOK, Ownership(req), NEW C \in SUBSET Conns, disconnect_conn(C)
  PROVE  Ownership(req)'
<1> USE Pointers
<1> DEFINE Gone == UNION {Frees(c) : c \in C}
<1>1. /\ live' = live \ Gone /\ cache' = cache /\ req' = req
      /\ \A d \in Conns \ C : conn'[d] = conn[d]
      /\ \A d \in C : conn'[d] = Closed
  BY DEF disconnect_conn, TypeOK
<1>2. /\ \A d \in C : ~Open(d)' /\ ~OwnsBody(d)'
      /\ \A d \in Conns \ C : (Open(d)' <=> Open(d)) /\ (OwnsBody(d)' <=> OwnsBody(d))
  BY <1>1 DEF Open, OwnsBody, Closed
<1>3. CachedReqs' = CachedReqs
  BY <1>1 DEF CachedReqs
<1>4. Held' = CachedReqs \cup {conn[d].in : d \in {d \in Conns \ C : Open(d)}}
  BY <1>1, <1>2, <1>3 DEF Held
<1>5. Held' \subseteq Held
  BY <1>4 DEF Held
<1> HIDE DEF Gone
<1>6. /\ \A r \in Held' : r \notin Gone /\ req[r].rdata \notin Gone
      /\ \A d \in Conns \ C : OwnsBody(d) => conn[d].out.sdata \notin Gone
  <2>1. ASSUME NEW r \in Held' PROVE r \notin Gone /\ req[r].rdata \notin Gone
    <3>1. CASE r \in CachedReqs
      BY <3>1, Survives DEF Gone
    <3>2. ASSUME NEW d \in Conns \ C, Open(d), r = conn[d].in
          PROVE  r \notin Gone /\ req[r].rdata \notin Gone
      BY <3>2, Survives DEF Gone
    <3> QED BY <1>4, <3>1, <3>2
  <2> QED BY <2>1, Survives DEF Gone
<1>7. ASSUME NEW d \in Conns
      PROVE  IF Open(d)' THEN ConnOwnership(req, d)' ELSE (conn[d] = Closed)'
  <2>1. CASE d \in C
    BY <1>1, <1>2, <2>1
  <2>2. CASE d \notin C /\ ~Open(d)
    BY <1>1, <1>2, <2>2 DEF Ownership
  <2>3. CASE d \notin C /\ Open(d)
    <3>1. ConnOwnership(req, d)
      BY <2>3 DEF Ownership
    <3>2. conn[d].in \in Held'
      BY <1>4, <2>3
    <3>3. /\ conn'[d] = conn[d] /\ conn[d].in \in live'
          /\ OwnsBody(d) => conn[d].out.sdata \in live'
      BY <1>1, <1>6, <2>3, <3>1, <3>2 DEF ConnOwnership
    <3> QED BY <1>1, <1>2, <1>3, <1>5, <2>3, <3>1, <3>3 DEF ConnOwnership
  <2> QED BY <2>1, <2>2, <2>3
<1>8. ASSUME NEW k \in Keys, cache'[k] # NULL PROVE EntryOwnership(req, k)'
  <2>1. cache[k] \in Held'
    BY <1>1, <1>4, <1>8 DEF CachedReqs
  <2> QED BY <1>1, <1>6, <1>8, <2>1 DEF Ownership, EntryOwnership
<1>9. \A c, d \in Conns : c # d /\ Open(c)' /\ Open(d)' => conn'[c].in # conn'[d].in
  BY <1>1, <1>2 DEF Ownership
<1>10. \A c, d \in Conns : c # d /\ OwnsBody(c)' /\ OwnsBody(d)' =>
                             conn'[c].out.sdata # conn'[d].out.sdata
  BY <1>1, <1>2 DEF Ownership
<1>11. \A j, k \in Keys : j # k /\ cache'[j] # NULL => cache'[j] # cache'[k]
  BY <1>1 DEF Ownership
<1>12. \A r \in Held' : req'[r].rdata # NULL =>
         /\ req'[r].rdata \in live'
         /\ \A s \in Held' : req'[s].rdata = req'[r].rdata => s = r
  BY <1>1, <1>5, <1>6 DEF Ownership
<1>13. ASSUME NEW b \in live'
       PROVE  \/ b \in Held'
              \/ \E r \in Held' : b = req'[r].rdata
              \/ \E c \in Conns : OwnsBody(c)' /\ b = conn'[c].out.sdata
  <2>1. b \in live /\ \A c \in C : b \notin Frees(c)
    BY <1>1 DEF Gone
  <2>2. ASSUME NEW r \in Held, b = r \/ b = req[r].rdata
        PROVE  r \in Held'
    <3>1. CASE r \in CachedReqs
      BY <1>4, <3>1
    <3>2. CASE r \notin CachedReqs
      <4>1. PICK c \in Conns : Open(c) /\ conn[c].in = r
        BY <3>2 DEF Held
      <4>2. b \in Frees(c)
        BY <2>1, <2>2, <3>2, <4>1, FreesOwned DEF Frees, TypeOK
      <4>3. c \notin C
        BY <2>1, <4>2
      <4> QED BY <1>4, <4>1, <4>3
    <3> QED BY <3>1, <3>2
  <2>3. ASSUME NEW c \in Conns, OwnsBody(c), b = conn[c].out.sdata
        PROVE  c \notin C
    BY <2>1, <2>3, FreesOwned DEF Frees
  <2> QED BY <1>1, <1>2, <2>1, <2>2, <2>3 DEF Ownership
<1> QED BY <1>7, <1>8, <1>9, <1>10, <1>11, <1>12, <1>13 DEF Ownership

\* A connection gives back what it holds and takes a request block nobody else has.
LEMMA TakeRequestOwnership ==
  ASSUME TypeOK, Ownership(req), NEW c \in Conns, NEW r \in Reqs \ (live \ Frees(c)),
         NEW x, x.state = "READ_HEADER", x.in = r, x.out = NoReply,
         live' = (live \ Frees(c)) \cup {r},
         req' = [req EXCEPT ![r] = EmptyRequest],
         conn' = [conn EXCEPT ![c] = x],
         cache' = cache
  PROVE  Ownership(req)'
<1> USE Pointers
<1>1. /\ conn'[c] = x /\ \A d \in Conns \ {c} : conn'[d] = conn[d]
      /\ req'[r] = EmptyRequest /\ \A s \in Reqs \ {r} : req'[s] = req[s]
  BY DEF TypeOK
<1>2. CachedReqs' = CachedReqs
  BY DEF CachedReqs
<1>3. /\ Open(c)' /\ ~OwnsBody(c)'
      /\ \A d \in Conns \ {c} : (Open(d)' <=> Open(d)) /\ (OwnsBody(d)' <=> OwnsBody(d))
  BY <1>1 DEF Open, OwnsBody, NoReply, Response
<1> DEFINE Others == CachedReqs \cup {conn[d].in : d \in {d \in Conns \ {c} : Open(d)}}
<1>4. Held' = Others \cup {r}
  BY <1>1, <1>2, <1>3 DEF Held
<1>5. Others \subseteq Held
  BY DEF Held
<1>6. \A s \in Others : s \in live /\ s \notin Frees(c) /\ req[s].rdata \notin Frees(c)
  <2>1. ASSUME NEW s \in CachedReqs
        PROVE  s \in live /\ s \notin Frees(c) /\ req[s].rdata \notin Frees(c)
    <3>1. s \in live
      BY DEF Ownership, EntryOwnership, CachedReqs
    <3> QED BY <3>1, SurvivesOne
  <2>2. ASSUME NEW d \in Conns \ {c}, Open(d)
        PROVE  /\ conn[d].in \in live /\ conn[d].in \notin Frees(c)
               /\ req[conn[d].in].rdata \notin Frees(c)
    <3>1. conn[d].in \in live
      BY <2>2 DEF Ownership, ConnOwnership
    <3> QED BY <2>2, <3>1, SurvivesOne
  <2> QED BY <2>1, <2>2
<1>7. \A d \in Conns \ {c} : OwnsBody(d) => conn[d].out.sdata \notin Frees(c)
  BY SurvivesOne
<1>8. r \notin Others
  BY <1>6
<1>9. Others \subseteq Reqs
  BY <1>5
<1> HIDE DEF Others
<1>10. \A s \in Others : req'[s] = req[s]
  BY <1>1, <1>8, <1>9
<1>11. req'[r].rdata = NULL /\ req'[r].can_free
  BY <1>1 DEF EmptyRequest
<1>12. CachedReqs \subseteq Others
  BY DEF Others
<1>13. ASSUME NEW d \in Conns
       PROVE  IF Open(d)' THEN ConnOwnership(req, d)' ELSE (conn[d] = Closed)'
  <2>1. CASE d = c
    <3>1. r \in live' /\ r \notin CachedReqs'
      BY <1>2, <1>8, <1>12
    <3>2. ~NoReply.len /\ NoReply.can_free
      BY DEF NoReply, Response
    <3> QED BY <1>1, <1>3, <1>11, <2>1, <3>1, <3>2 DEF ConnOwnership
  <2>2. CASE d # c /\ ~Open(d)
    BY <1>1, <1>3, <2>2 DEF Ownership
  <2>3. CASE d # c /\ Open(d)
    <3>1. ConnOwnership(req, d) /\ conn'[d] = conn[d]
      BY <1>1, <2>3 DEF Ownership
    <3>2. conn[d].in \in Others
      BY <2>3 DEF Others
    <3>3. conn[d].in \in live' /\ req'[conn[d].in] = req[conn[d].in]
      BY <1>6, <1>10, <3>2
    <3>4. \A k \in KeysOf[d] : cache[k] # NULL => req'[cache[k]] = req[cache[k]]
      <4>1. \A k \in KeysOf[d] : cache[k] # NULL => cache[k] \in CachedReqs
        BY KeysAssumption DEF CachedReqs
      <4> QED BY <1>10, <1>12, <4>1
    <3>5. OwnsBody(d) => /\ conn[d].out.sdata \in live'
                         /\ \A s \in Held' : req'[s].rdata # conn[d].out.sdata
      <4> SUFFICES ASSUME OwnsBody(d)
                   PROVE  /\ conn[d].out.sdata \in live'
                          /\ \A s \in Held' : req'[s].rdata # conn[d].out.sdata
        OBVIOUS
      <4>1. conn[d].out.sdata \in live /\ \A s \in Held : req[s].rdata # conn[d].out.sdata
        BY <3>1 DEF ConnOwnership
      <4>2. conn[d].out.sdata # NULL
        BY DEF OwnsBody
      <4>3. \A s \in Others : req'[s].rdata # conn[d].out.sdata
        BY <1>5, <1>10, <4>1
      <4> QED BY <1>4, <1>7, <1>11, <2>3, <4>1, <4>2, <4>3
    <3> QED BY <1>2, <1>3, <2>3, <3>1, <3>3, <3>4, <3>5 DEF ConnOwnership
  <2> QED BY <2>1, <2>2, <2>3
<1>14. ASSUME NEW k \in Keys, cache'[k] # NULL PROVE EntryOwnership(req, k)'
  <2>1. cache[k] \in Others
    BY <1>12, <1>14 DEF CachedReqs
  <2> QED BY <1>6, <1>10, <1>14, <2>1 DEF Ownership, EntryOwnership
<1>15. ASSUME NEW d \in Conns, NEW e \in Conns, d # e, Open(d)', Open(e)'
       PROVE  conn'[d].in # conn'[e].in
  <2>1. \A f \in Conns \ {c} : Open(f) => conn[f].in \in Others
    BY DEF Others
  <2> QED BY <1>1, <1>3, <1>8, <1>15, <2>1 DEF Ownership
<1>16. \A d, e \in Conns : d # e /\ OwnsBody(d)' /\ OwnsBody(e)' =>
                             conn'[d].out.sdata # conn'[e].out.sdata
  BY <1>1, <1>3 DEF Ownership
<1>17. \A j, k \in Keys : j # k /\ cache'[j] # NULL => cache'[j] # cache'[k]
  BY DEF Ownership
<1>18. \A s \in Held' : req'[s].rdata # NULL =>
         /\ req'[s].rdata \in live'
         /\ \A t \in Held' : req'[t].rdata = req'[s].rdata => t = s
  <2>1. \A s \in Others : req'[s].rdata # NULL =>
         /\ req'[s].rdata \in live'
         /\ \A t \in Others : req'[t].rdata = req'[s].rdata => t = s
    BY <1>5, <1>6, <1>10 DEF Ownership
  <2> QED BY <1>4, <1>11, <2>1
<1>19. ASSUME NEW b \in live'
       PROVE  \/ b \in Held'
              \/ \E s \in Held' : b = req'[s].rdata
              \/ \E d \in Conns : OwnsBody(d)' /\ b = conn'[d].out.sdata
  <2>1. CASE b = r
    BY <1>4, <2>1
  <2>2. CASE b \in live /\ b \notin Frees(c)
    <3>1. ASSUME NEW s \in Held, b = s \/ b = req[s].rdata
          PROVE  s \in Others
      <4>1. CASE s \in CachedReqs
        BY <1>12, <4>1
      <4>2. CASE s \notin CachedReqs
        <5>1. PICK d \in Conns : Open(d) /\ conn[d].in = s
          BY <4>2 DEF Held
        <5>2. b \in Frees(d)
          BY <2>2, <3>1, <4>2, <5>1, FreesOwned DEF Frees, TypeOK
        <5> QED BY <2>2, <5>1, <5>2 DEF Others
      <4> QED BY <4>1, <4>2
    <3>2. ASSUME NEW d \in Conns, OwnsBody(d), b = conn[d].out.sdata
          PROVE  d # c
      BY <2>2, <3>2, FreesOwned DEF Frees
    <3> QED BY <1>1, <1>3, <1>4, <1>10, <2>2, <3>1, <3>2 DEF Ownership
  <2> QED BY <2>1, <2>2
<1> QED BY <1>13, <1>14, <1>15, <1>16, <1>17, <1>18, <1>19 DEF Ownership
-----------------------------------------------------------------------------
(* Reading and answering                                                   *)

\* Ownership does not depend on what a connection writes into the sections of its own
\* request.
LEMMA SectionOwnership ==
  ASSUME TypeOK, NEW q \in [Reqs -> ReqType], Ownership(q), NEW c \in Conns, Open(c),
         conn[c].in \notin CachedReqs,
         NEW p \in [Reqs -> ReqType],
         \A s \in Reqs \ {conn[c].in} : p[s] = q[s],
         p[conn[c].in].rdata = q[conn[c].in].rdata,
         p[conn[c].in].can_free = q[conn[c].in].can_free
  PROVE  Ownership(p)
<1> USE Pointers
<1>1. \A s \in Reqs : p[s].rdata = q[s].rdata /\ p[s].can_free = q[s].can_free
  OBVIOUS
<1>2. \A k \in Keys : cache[k] # NULL => cache[k] \in CachedReqs /\ p[cache[k]] = q[cache[k]]
  BY DEF CachedReqs
<1>3. \A d \in Conns : Open(d) => conn[d].in \in Reqs
  OBVIOUS
<1>4. ASSUME NEW d \in Conns, Open(d) PROVE ConnOwnership(p, d)
  <2>1. ConnOwnership(q, d)
    BY <1>4 DEF Ownership
  <2>2. \A k \in KeysOf[d] : cache[k] # NULL => p[cache[k]] = q[cache[k]]
    BY <1>2, KeysAssumption
  <2> QED BY <1>1, <1>3, <1>4, <2>1, <2>2 DEF ConnOwnership
<1>5. ASSUME NEW k \in Keys, cache[k] # NULL PROVE EntryOwnership(p, k)
  BY <1>2, <1>5 DEF Ownership, EntryOwnership
<1> QED BY <1>1, <1>4, <1>5 DEF Ownership

\* What a connection in the middle of a request has to do with the rest: nothing.
LEMMA ReaderApart ==
  ASSUME TypeOK, NEW q, Ownership(q), NEW c \in Conns, conn[c].state \in Reading
  PROVE  /\ Open(c) /\ ~OwnsBody(c) /\ conn[c].out = NoReply
         /\ conn[c].in \in Reqs /\ conn[c].in \in live /\ conn[c].in \in Held
         /\ conn[c].in \notin CachedReqs /\ q[conn[c].in].can_free
         /\ \A k \in Keys : cache[k] # conn[c].in
<1>1. Open(c)
  BY DEF Open, Reading
<1>2. ConnOwnership(q, c)
  BY <1>1 DEF Ownership
<1>3. conn[c].in \in Reqs /\ conn[c].in # NULL
  BY <1>1, Pointers
<1> QED BY <1>1, <1>2, <1>3 DEF ConnOwnership, OwnsBody, NoReply, Response, Held, CachedReqs

\* The blocks of the entries of K are those entries' own.
LEMMA EntriesApart ==
  ASSUME TypeOK, NEW m \in MemType, Ownership(m.req), NEW K \in SUBSET Keys
  PROVE  /\ CachedBlocks(m, K) \subseteq live
         /\ \A r \in Held : (\A k \in K : cache[k] # r) =>
              r \notin CachedBlocks(m, K) /\ m.req[r].rdata \notin CachedBlocks(m, K)
         /\ \A c \in Conns : OwnsBody(c) => conn[c].out.sdata \notin CachedBlocks(m, K)
         /\ CanDelete(m, K)
<1> USE Pointers
<1>1. \A r \in Reqs : m.req[r].rdata \in Bufs \cup {NULL}
  BY DEF MemType, ReqType
<1>2. \A b : b \in CachedBlocks(m, K) <=>
         \E k \in K : /\ cache[k] # NULL
                      /\ b = cache[k] \/ b = m.req[cache[k]].rdata
                      /\ b # NULL
  BY DEF CachedBlocks, RequestBlocks
<1>3. \A k \in K : cache[k] # NULL => cache[k] \in Held
  BY DEF Held, CachedReqs
<1>4. CachedBlocks(m, K) \subseteq live
  BY <1>2, <1>3 DEF Ownership, EntryOwnership
<1>5. ASSUME NEW r \in Held, \A k \in K : cache[k] # r
      PROVE  r \notin CachedBlocks(m, K) /\ m.req[r].rdata \notin CachedBlocks(m, K)
  <2>1. r \notin CachedBlocks(m, K)
    BY <1>1, <1>2, <1>3, <1>5
  <2>2. m.req[r].rdata \notin CachedBlocks(m, K)
    BY <1>1, <1>2, <1>3, <1>5 DEF Ownership
  <2> QED BY <2>1, <2>2
<1>6. ASSUME NEW c \in Conns, OwnsBody(c) PROVE conn[c].out.sdata \notin CachedBlocks(m, K)
  <2>1. \A s \in Held : m.req[s].rdata # conn[c].out.sdata
    BY <1>6 DEF Ownership, ConnOwnership, OwnsBody
  <2> QED BY <1>2, <1>3, <1>6, <2>1 DEF OwnsBody
<1>7. ASSUME NEW j \in K, NEW k \in K, j # k, cache[j] # NULL, cache[k] # NULL
      PROVE  RequestBlocks(m.req, cache[j]) \cap RequestBlocks(m.req, cache[k]) = {}
  <2>1. cache[j] \in Held /\ cache[k] \in Held /\ cache[j] # cache[k]
    BY <1>3, <1>7 DEF Ownership
  <2>2. m.req[cache[j]].rdata # NULL => m.req[cache[j]].rdata # m.req[cache[k]].rdata
    BY <2>1 DEF Ownership
  <2> QED BY <1>1, <2>1, <2>2 DEF RequestBlocks
<1> QED BY <1>4, <1>5, <1>6, <1>7 DEF CanDelete

\* A reply without a body, with the entries of K gone: K is empty for a refusal and
\* holds keys nobody else names for DELETE, for an expired GET and for FLUSH_ALL.
LEMMA DeleteOwnership ==
  ASSUME TypeOK, NEW m \in MemType, Ownership(m.req), NEW c \in Conns,
         conn[c].state \in Reading,
         NEW K \in SUBSET Keys, \A d \in Conns \ {c} : KeysOf[d] \cap K = {},
         cache' = [k \in Keys |-> IF k \in K THEN NULL ELSE cache[k]],
         live' = live \ CachedBlocks(m, K),
         NEW code, send_response(c, m, code)
  PROVE  Ownership(req)'
<1> USE Pointers
<1> DEFINE r == conn[c].in
<1>1. /\ Open(c) /\ r \in Reqs /\ r \in live /\ r \in Held /\ r \notin CachedReqs
      /\ m.req[r].can_free /\ conn[c].out = NoReply /\ \A k \in Keys : cache[k] # r
      /\ ~OwnsBody(c)
  BY ReaderApart
<1>2. /\ req' = m.req /\ conn'[c].state = "SEND_HEADER" /\ conn'[c].in = r
      /\ conn'[c].out.sdata = NULL /\ ~conn'[c].out.len /\ conn'[c].out.can_free
      /\ \A d \in Conns \ {c} : conn'[d] = conn[d]
  BY DEF send_response, add_response, Heard, Response, TypeOK
<1>3. /\ Open(c)' /\ ~OwnsBody(c)'
      /\ \A d \in Conns : (Open(d)' <=> Open(d)) /\ (OwnsBody(d)' <=> OwnsBody(d))
      /\ \A d \in Conns : OwnsBody(d) => conn'[d] = conn[d]
  BY <1>1, <1>2 DEF Open, OwnsBody
<1>4. CachedReqs' = {cache[k] : k \in Keys \ K} \ {NULL}
  <2>1. \A k \in Keys : cache'[k] = IF k \in K THEN NULL ELSE cache[k]
    OBVIOUS
  <2> QED BY <2>1 DEF CachedReqs
<1>5. Held' \subseteq Held /\ CachedReqs' \subseteq CachedReqs
  BY <1>2, <1>3, <1>4 DEF Held, CachedReqs
<1>6. \A d \in Conns : Open(d) => conn'[d].in = conn[d].in
  BY <1>2
<1>7. \A d \in Conns, k \in K : Open(d) => cache[k] # conn[d].in
  <2> SUFFICES ASSUME NEW d \in Conns, NEW k \in K, Open(d), cache[k] = conn[d].in
               PROVE  FALSE
    OBVIOUS
  <2>1. d # c
    BY <1>1
  <2>2. cache[k] # NULL /\ conn[d].in \in CachedReqs
    BY DEF CachedReqs
  <2>3. PICK j \in KeysOf[d] : cache[j] = conn[d].in
    BY <2>2 DEF Ownership, ConnOwnership
  <2>4. j # k /\ j \in Keys
    BY <2>1, KeysAssumption
  <2> QED BY <2>2, <2>3, <2>4 DEF Ownership
<1>8. \A s \in Held', k \in K : cache[k] # s
  <2>1. ASSUME NEW s \in CachedReqs', NEW k \in K, cache[k] = s PROVE FALSE
    <3>1. PICK j \in Keys \ K : cache[j] = s /\ s # NULL
      BY <1>4
    <3> QED BY <2>1, <3>1 DEF Ownership
  <2> QED BY <1>3, <1>6, <1>7, <2>1 DEF Held
<1>9. \A s \in Held' : /\ s \notin CachedBlocks(m, K)
                       /\ m.req[s].rdata \notin CachedBlocks(m, K)
  BY <1>5, <1>8, EntriesApart
<1>10. \A d \in Conns : OwnsBody(d) => conn[d].out.sdata \notin CachedBlocks(m, K)
  BY EntriesApart
<1>11. \A d \in Conns \ {c} : \A k \in KeysOf[d] : cache'[k] = cache[k]
  BY KeysAssumption
<1>12. ASSUME NEW d \in Conns
       PROVE  IF Open(d)' THEN ConnOwnership(req, d)' ELSE (conn[d] = Closed)'
  <2>1. CASE d = c
    <3>1. r \in live' /\ r \notin CachedReqs'
      BY <1>1, <1>5, <1>8, EntriesApart
    <3> QED BY <1>1, <1>2, <1>3, <2>1, <3>1 DEF ConnOwnership, Reading
  <2>2. CASE d # c /\ ~Open(d)
    BY <1>2, <1>3, <2>2 DEF Ownership
  <2>3. CASE d # c /\ Open(d)
    <3>1. ConnOwnership(m.req, d) /\ conn'[d] = conn[d]
      BY <1>2, <2>3 DEF Ownership
    <3>2. conn[d].in \in Held'
      BY <1>2, <1>3, <2>3 DEF Held
    <3>3. conn[d].in \in live' /\ (conn[d].in \in CachedReqs' <=> conn[d].in \in CachedReqs)
      <4>1. conn[d].in \in live'
        BY <1>9, <3>1, <3>2 DEF ConnOwnership
      <4>2. conn[d].in \in CachedReqs => conn[d].in \in CachedReqs'
        BY <1>4, <1>7, <2>3 DEF CachedReqs
      <4> QED BY <1>5, <4>1, <4>2
    <3>4. OwnsBody(d) => conn[d].out.sdata \in live'
      BY <1>10, <3>1 DEF ConnOwnership
    <3> QED BY <1>2, <1>3, <1>5, <1>11, <2>3, <3>1, <3>3, <3>4 DEF ConnOwnership
  <2> QED BY <2>1, <2>2, <2>3
<1>13. ASSUME NEW k \in Keys, cache'[k] # NULL PROVE EntryOwnership(req, k)'
  <2>1. cache'[k] = cache[k] /\ cache[k] \in Held'
    BY <1>13 DEF Held, CachedReqs
  <2> QED BY <1>2, <1>9, <1>13, <2>1 DEF Ownership, EntryOwnership
<1>14. \A d, e \in Conns : d # e /\ Open(d)' /\ Open(e)' => conn'[d].in # conn'[e].in
  BY <1>3, <1>6 DEF Ownership
<1>15. \A d, e \in Conns : d # e /\ OwnsBody(d)' /\ OwnsBody(e)' =>
                             conn'[d].out.sdata # conn'[e].out.sdata
  BY <1>3 DEF Ownership
<1>16. \A j, k \in Keys : j # k /\ cache'[j] # NULL => cache'[j] # cache'[k]
  BY DEF Ownership
<1>17. \A s \in Held' : req'[s].rdata # NULL =>
         /\ req'[s].rdata \in live'
         /\ \A t \in Held' : req'[t].rdata = req'[s].rdata => t = s
  BY <1>2, <1>5, <1>9 DEF Ownership
<1>18. ASSUME NEW b \in live'
       PROVE  \/ b \in Held'
              \/ \E s \in Held' : b = req'[s].rdata
              \/ \E d \in Conns : OwnsBody(d)' /\ b = conn'[d].out.sdata
  <2>1. b \in live /\ b \notin CachedBlocks(m, K) /\ b # NULL
    BY DEF TypeOK
  <2>2. ASSUME NEW s \in Held, b = s \/ b = m.req[s].rdata PROVE s \in Held'
    <3>1. CASE \E d \in Conns : Open(d) /\ s = conn[d].in
      BY <1>3, <1>6, <3>1 DEF Held
    <3>2. ASSUME NEW k \in Keys, s = cache[k], s # NULL PROVE s \in Held'
      <4>1. k \notin K
        BY <2>1, <2>2, <3>2 DEF CachedBlocks, RequestBlocks
      <4> QED BY <1>4, <3>2, <4>1 DEF Held
    <3> QED BY <3>1, <3>2 DEF Held, CachedReqs
  <2> QED BY <1>2, <1>3, <2>1, <2>2 DEF Ownership
<1> QED BY <1>12, <1>13, <1>14, <1>15, <1>16, <1>17, <1>18 DEF Ownership

\* An answer without a body moves no block.
LEMMA RefuseOwnership ==
  ASSUME TypeOK, NEW m \in MemType, Ownership(m.req), NEW c \in Conns,
         conn[c].state \in Reading, NEW code, Refuse(c, m, code)
  PROVE  Ownership(req)'
<1>1. CachedBlocks(m, {}) = {}
  BY DEF CachedBlocks
<1>2. cache' = [k \in Keys |-> IF k \in {} THEN NULL ELSE cache[k]]
  BY DEF Refuse, TypeOK
<1>3. live' = live \ CachedBlocks(m, {})
  BY <1>1 DEF Refuse
<1>4. {} \in SUBSET Keys /\ \A d \in Conns \ {c} : KeysOf[d] \cap {} = {}
  OBVIOUS
<1>5. send_response(c, m, code)
  BY DEF Refuse
<1> QED BY <1>2, <1>3, <1>4, <1>5, DeleteOwnership

\* SET hands the request over: from now on the entry owns it, and the entry it replaces
\* is gone.
LEMMA SetOwnership ==
  ASSUME TypeOK, NEW m \in MemType, Ownership(m.req), NEW c \in Conns,
         conn[c].state \in Reading,
         NEW k \in KeysOf[c], \A d \in Conns \ {c} : k \notin KeysOf[d],
         m.req[conn[c].in].rdata # NULL, m.req[conn[c].in].rextra \in Timeouts,
         cache' = [cache EXCEPT ![k] = conn[c].in],
         live' = live \ CachedBlocks(m, {k}),
         NEW code,
         send_response(c, Keep(m, conn[c].in), code)
  PROVE  Ownership(req)'
<1> USE Pointers
<1> DEFINE r == conn[c].in
<1>1. /\ Open(c) /\ r \in Reqs /\ r \in live /\ r \in Held /\ r \notin CachedReqs
      /\ m.req[r].can_free /\ conn[c].out = NoReply /\ \A j \in Keys : cache[j] # r
      /\ ~OwnsBody(c)
  BY ReaderApart
<1>2. k \in Keys /\ r # NULL /\ m.req \in [Reqs -> ReqType] /\ m.req[r] \in ReqType
  BY <1>1, KeysAssumption DEF MemType
<1>3. /\ conn'[c].state = "SEND_HEADER" /\ conn'[c].in = r
      /\ conn'[c].out.sdata = NULL /\ ~conn'[c].out.len /\ conn'[c].out.can_free
      /\ \A d \in Conns \ {c} : conn'[d] = conn[d]
  BY DEF send_response, add_response, Heard, Response, TypeOK
<1>4. req' = [m.req EXCEPT ![r].can_free = FALSE]
  BY DEF send_response, add_response, MemType, Keep
<1>5. /\ \A s \in Reqs \ {r} : req'[s] = m.req[s]
      /\ req'[r].rdata = m.req[r].rdata /\ req'[r].rextra = m.req[r].rextra
      /\ req'[r].can_free = FALSE
  <2>1. req'[r] = [m.req[r] EXCEPT !.can_free = FALSE]
    BY <1>1, <1>2, <1>4
  <2>2. \A s \in Reqs \ {r} : req'[s] = m.req[s]
    BY <1>2, <1>4
  <2> QED BY <1>2, <2>1, <2>2 DEF ReqType
<1>6. Held \subseteq Reqs /\ \A s \in Reqs : req'[s].rdata = m.req[s].rdata
  BY <1>5, Pointers
<1>7. /\ Open(c)' /\ ~OwnsBody(c)'
      /\ \A d \in Conns : (Open(d)' <=> Open(d)) /\ (OwnsBody(d)' <=> OwnsBody(d))
      /\ \A d \in Conns : OwnsBody(d) => conn'[d] = conn[d]
      /\ \A d \in Conns : conn'[d].in = conn[d].in
  BY <1>1, <1>3 DEF Open, OwnsBody
<1>8. cache'[k] = r /\ \A j \in Keys \ {k} : cache'[j] = cache[j]
  BY <1>2 DEF TypeOK
<1>9. CachedReqs' = ({cache[j] : j \in Keys \ {k}} \ {NULL}) \cup {r}
  BY <1>2, <1>8 DEF CachedReqs
<1>10. Held' \subseteq Held /\ CachedReqs' \subseteq CachedReqs \cup {r}
  BY <1>1, <1>7, <1>9 DEF Held, CachedReqs
<1>11. \A d \in Conns : Open(d) => cache[k] # conn[d].in
  <2> SUFFICES ASSUME NEW d \in Conns, Open(d), cache[k] = conn[d].in PROVE FALSE
    OBVIOUS
  <2>1. d # c /\ cache[k] # NULL /\ conn[d].in \in CachedReqs
    BY <1>1, <1>2 DEF CachedReqs
  <2>2. PICK j \in KeysOf[d] : cache[j] = conn[d].in
    BY <2>1 DEF Ownership, ConnOwnership
  <2>3. j # k /\ j \in Keys
    BY <2>1, KeysAssumption
  <2> QED BY <1>2, <2>1, <2>2, <2>3 DEF Ownership
<1>12. \A s \in Held' : cache[k] # s
  <2>1. ASSUME NEW s \in CachedReqs', cache[k] = s PROVE FALSE
    <3>1. CASE s = r
      BY <1>1, <1>2, <2>1, <3>1
    <3>2. CASE s # r
      <4>1. PICK j \in Keys \ {k} : cache[j] = s /\ s # NULL
        BY <1>9, <3>2
      <4> QED BY <1>2, <2>1, <4>1 DEF Ownership
    <3> QED BY <3>1, <3>2
  <2> QED BY <1>7, <1>11, <2>1 DEF Held
<1>13. {k} \in SUBSET Keys
  BY <1>2
<1>14. \A s \in Held' : /\ s \notin CachedBlocks(m, {k})
                        /\ m.req[s].rdata \notin CachedBlocks(m, {k})
  BY <1>10, <1>12, <1>13, EntriesApart
<1>15. \A d \in Conns : OwnsBody(d) => conn[d].out.sdata \notin CachedBlocks(m, {k})
  BY <1>13, EntriesApart
<1>16. r \in Held' /\ r \in CachedReqs'
  BY <1>9 DEF Held
<1>17. ASSUME NEW d \in Conns
       PROVE  IF Open(d)' THEN ConnOwnership(req, d)' ELSE (conn[d] = Closed)'
  <2>1. CASE d = c
    <3>1. r \in live'
      BY <1>1, <1>14, <1>16
    <3> QED BY <1>3, <1>5, <1>7, <1>8, <1>16, <2>1, <3>1 DEF ConnOwnership, Reading
  <2>2. CASE d # c /\ ~Open(d)
    BY <1>3, <1>7, <2>2 DEF Ownership
  <2>3. CASE d # c /\ Open(d)
    <3>1. ConnOwnership(m.req, d) /\ conn'[d] = conn[d] /\ conn[d].in # r
      BY <1>1, <1>3, <2>3 DEF Ownership
    <3>2. conn[d].in \in Held'
      BY <1>7, <2>3 DEF Held
    <3>3. conn[d].in \in live' /\ (conn[d].in \in CachedReqs' <=> conn[d].in \in CachedReqs)
      <4>1. conn[d].in \in live'
        BY <1>14, <3>1, <3>2 DEF ConnOwnership
      <4>2. conn[d].in \in CachedReqs => conn[d].in \in CachedReqs'
        BY <1>9, <1>11, <2>3 DEF CachedReqs
      <4> QED BY <1>10, <3>1, <4>1, <4>2
    <3>4. OwnsBody(d) => conn[d].out.sdata \in live'
      BY <1>15, <3>1 DEF ConnOwnership
    <3>5. req'[conn[d].in] = m.req[conn[d].in]
      BY <1>5, <2>3, <3>1
    <3>6. \A j \in KeysOf[d] : /\ cache'[j] = cache[j]
                               /\ cache[j] # NULL => req'[cache[j]] = m.req[cache[j]]
      <4>1. \A j \in KeysOf[d] : j \in Keys \ {k}
        BY <2>3, KeysAssumption
      <4> QED BY <1>1, <1>5, <1>8, <4>1
    <3>7. \A s \in Held' : req'[s].rdata = m.req[s].rdata
      BY <1>6, <1>10
    <3> QED BY <1>7, <1>10, <2>3, <3>1, <3>3, <3>4, <3>5, <3>6, <3>7 DEF ConnOwnership
  <2> QED BY <2>1, <2>2, <2>3
<1>18. ASSUME NEW j \in Keys, cache'[j] # NULL PROVE EntryOwnership(req, j)'
  <2>1. CASE j = k
    <3>1. cache'[j] = r /\ r \in live'
      BY <1>1, <1>8, <1>14, <1>16, <2>1
    <3> QED BY <1>5, <3>1 DEF EntryOwnership
  <2>2. CASE j # k
    <3>1. cache'[j] = cache[j] /\ cache[j] \in Held' /\ cache[j] # r
      BY <1>1, <1>8, <1>18, <2>2 DEF Held, CachedReqs
    <3>2. req'[cache[j]] = m.req[cache[j]]
      <4> HIDE DEF r
      <4>1. cache[j] \in Reqs
        BY <1>8, <1>18, <2>2, Pointers
      <4>2. cache[j] # r
        BY <3>1
      <4> QED BY <1>5, <4>1, <4>2
    <3>3. cache[j] \in Held' /\ EntryOwnership(m.req, j)
      <4>1. cache[j] \in Held'
        BY <1>8, <1>9, <1>18, <2>2, <3>1 DEF Held
      <4> QED BY <1>18, <3>1, <4>1 DEF Ownership
    <3>4. cache[j] \in live'
      BY <1>14, <3>3 DEF EntryOwnership
    <3> HIDE DEF r
    <3> QED BY <3>1, <3>2, <3>3, <3>4 DEF EntryOwnership
  <2> QED BY <2>1, <2>2
<1>19. \A d, e \in Conns : d # e /\ Open(d)' /\ Open(e)' => conn'[d].in # conn'[e].in
  BY <1>7 DEF Ownership
<1>20. \A d, e \in Conns : d # e /\ OwnsBody(d)' /\ OwnsBody(e)' =>
                             conn'[d].out.sdata # conn'[e].out.sdata
  BY <1>7 DEF Ownership
<1>21. \A i, j \in Keys : i # j /\ cache'[i] # NULL => cache'[i] # cache'[j]
  BY <1>1, <1>2, <1>8 DEF Ownership
<1>22. \A s \in Held' : req'[s].rdata # NULL =>
         /\ req'[s].rdata \in live'
         /\ \A t \in Held' : req'[t].rdata = req'[s].rdata => t = s
  <2>1. \A s \in Held' : s \in Held /\ req'[s].rdata = m.req[s].rdata
    BY <1>6, <1>10
  <2>2. \A s \in Held' : m.req[s].rdata # NULL =>
          /\ m.req[s].rdata \in live'
          /\ \A t \in Held' : m.req[t].rdata = m.req[s].rdata => t = s
    BY <1>14, <2>1 DEF Ownership
  <2> HIDE DEF r
  <2> QED BY <2>1, <2>2
<1>23. ASSUME NEW b \in live'
       PROVE  \/ b \in Held'
              \/ \E s \in Held' : b = req'[s].rdata
              \/ \E d \in Conns : OwnsBody(d)' /\ b = conn'[d].out.sdata
  <2>1. b \in live /\ b \notin CachedBlocks(m, {k}) /\ b # NULL
    BY DEF TypeOK
  <2>2. ASSUME NEW s \in Held, b = s \/ b = m.req[s].rdata PROVE s \in Held'
    <3>1. CASE \E d \in Conns : Open(d) /\ s = conn[d].in
      BY <1>7, <3>1 DEF Held
    <3>2. ASSUME NEW j \in Keys, s = cache[j], s # NULL PROVE s \in Held'
      <4>1. j # k
        BY <2>1, <2>2, <3>2 DEF CachedBlocks, RequestBlocks
      <4> QED BY <1>9, <3>2, <4>1 DEF Held
    <3> QED BY <3>1, <3>2 DEF Held, CachedReqs
  <2>3. \A s \in Held : s \in Held' => req'[s].rdata = m.req[s].rdata
    BY <1>6
  <2> QED BY <1>7, <2>1, <2>2, <2>3 DEF Ownership
<1> QED BY <1>17, <1>18, <1>19, <1>20, <1>21, <1>22, <1>23 DEF Ownership

\* A reply with a body: one that a cached entry owns, or a new one that is the
\* connection's own.
LEMMA ReplyOwnership ==
  ASSUME TypeOK, NEW m \in MemType, Ownership(m.req), NEW c \in Conns,
         conn[c].state \in Reading,
         NEW p, p.req = m.req,
         NEW sdata, NEW len, NEW code, NEW can_free \in BOOLEAN,
         add_response(c, p, sdata, len, code, can_free),
         cache' = cache,
         \/ /\ ~can_free /\ live' = live
            /\ \E k \in KeysOf[c] : cache[k] # NULL /\ sdata = m.req[cache[k]].rdata
         \/ can_free /\ sdata \in Bufs \ live /\ live' = live \cup {sdata}
  PROVE  Ownership(req)'
<1> USE Pointers
<1> DEFINE r == conn[c].in
<1>1. /\ Open(c) /\ r \in Reqs /\ r \in live /\ r \in Held /\ r \notin CachedReqs
      /\ m.req[r].can_free /\ conn[c].out = NoReply /\ ~OwnsBody(c)
  BY ReaderApart
<1>2. /\ req' = m.req /\ conn'[c].state = "SEND_HEADER" /\ conn'[c].in = r
      /\ conn'[c].out.sdata = sdata /\ conn'[c].out.can_free = can_free
      /\ \A d \in Conns \ {c} : conn'[d] = conn[d]
  BY DEF add_response, Heard, Response, TypeOK
<1>3. sdata # NULL
  <2>1. CASE ~can_free
    <3>1. PICK k \in KeysOf[c] : cache[k] # NULL /\ sdata = m.req[cache[k]].rdata
      BY <2>1
    <3>2. k \in Keys
      BY KeysAssumption
    <3> QED BY <3>1, <3>2 DEF Ownership, EntryOwnership
  <2> QED BY <2>1
<1>4. /\ Open(c)' /\ (OwnsBody(c)' <=> can_free)
      /\ \A d \in Conns : Open(d)' <=> Open(d)
      /\ \A d \in Conns \ {c} : OwnsBody(d)' <=> OwnsBody(d)
      /\ \A d \in Conns : conn'[d].in = conn[d].in
  BY <1>1, <1>2, <1>3 DEF Open, OwnsBody
<1>5. CachedReqs' = CachedReqs /\ Held' = Held
  <2>1. CachedReqs' = CachedReqs
    BY DEF CachedReqs
  <2> QED BY <1>4, <2>1 DEF Held
<1>6. live \subseteq live' /\ \A b \in live' : b \in live \/ (can_free /\ b = sdata)
  OBVIOUS
<1>7. \A s \in Held : s \in Reqs /\ m.req[s].rdata \in Bufs \cup {NULL}
  BY DEF MemType, ReqType
<1>8. can_free => /\ \A s \in Held : m.req[s].rdata # sdata
                  /\ \A d \in Conns : OwnsBody(d) => conn[d].out.sdata # sdata
  BY <1>3 DEF Ownership, ConnOwnership, OwnsBody
<1>9. ASSUME NEW d \in Conns
      PROVE  IF Open(d)' THEN ConnOwnership(req, d)' ELSE (conn[d] = Closed)'
  <2>1. CASE d = c
    <3>1. ~can_free => \E k \in KeysOf[c] : /\ cache'[k] # NULL
                                            /\ sdata = m.req[cache'[k]].rdata
      OBVIOUS
    <3>2. can_free => sdata \in live'
      OBVIOUS
    <3> QED BY <1>1, <1>2, <1>3, <1>4, <1>5, <1>6, <1>8, <2>1, <3>1, <3>2
         DEF ConnOwnership, Reading
  <2>2. CASE d # c /\ ~Open(d)
    BY <1>2, <1>4, <2>2 DEF Ownership
  <2>3. CASE d # c /\ Open(d)
    <3>1. ConnOwnership(m.req, d) /\ conn'[d] = conn[d]
      BY <1>2, <2>3 DEF Ownership
    <3> QED BY <1>2, <1>4, <1>5, <1>6, <2>3, <3>1 DEF ConnOwnership
  <2> QED BY <2>1, <2>2, <2>3
<1>10. \A k \in Keys : cache'[k] # NULL => EntryOwnership(req, k)'
  BY <1>2, <1>6 DEF Ownership, EntryOwnership
<1>11. \A d, e \in Conns : d # e /\ Open(d)' /\ Open(e)' => conn'[d].in # conn'[e].in
  BY <1>4 DEF Ownership
<1>12. \A d, e \in Conns : d # e /\ OwnsBody(d)' /\ OwnsBody(e)' =>
                             conn'[d].out.sdata # conn'[e].out.sdata
  BY <1>2, <1>4, <1>8 DEF Ownership
<1>13. \A j, k \in Keys : j # k /\ cache'[j] # NULL => cache'[j] # cache'[k]
  BY DEF Ownership
<1>14. \A s \in Held' : req'[s].rdata # NULL =>
         /\ req'[s].rdata \in live'
         /\ \A t \in Held' : req'[t].rdata = req'[s].rdata => t = s
  BY <1>2, <1>5, <1>6 DEF Ownership
<1>15. ASSUME NEW b \in live'
       PROVE  \/ b \in Held'
              \/ \E s \in Held' : b = req'[s].rdata
              \/ \E d \in Conns : OwnsBody(d)' /\ b = conn'[d].out.sdata
  <2>1. CASE can_free /\ b = sdata
    BY <1>2, <1>4, <2>1
  <2>2. CASE b \in live
    BY <1>1, <1>2, <1>4, <1>5, <2>2 DEF Ownership
  <2> QED BY <1>6, <2>1, <2>2
<1> QED BY <1>9, <1>10, <1>11, <1>12, <1>13, <1>14, <1>15 DEF Ownership

\* The data section gets its buffer.
LEMMA AwaitOwnership ==
  ASSUME TypeOK, NEW q \in [Reqs -> ReqType], Ownership(q), NEW c \in Conns,
         conn[c].state \in Reading, q[conn[c].in].rdata = NULL,
         NEW b \in Bufs \ live, NEW state \in Reading,
         req' \in [Reqs -> ReqType],
         \A s \in Reqs \ {conn[c].in} : req'[s] = q[s],
         req'[conn[c].in].rdata = b,
         req'[conn[c].in].can_free = q[conn[c].in].can_free,
         conn' = [conn EXCEPT ![c] = Heard(c, state, conn[c].in, conn[c].out)],
         cache' = cache,
         live' = live \cup {b}
  PROVE  Ownership(req)'
<1> USE Pointers
<1> DEFINE r == conn[c].in
<1>1. /\ Open(c) /\ r \in Reqs /\ r \in live /\ r \in Held /\ r \notin CachedReqs
      /\ q[r].can_free /\ conn[c].out = NoReply /\ ~OwnsBody(c)
      /\ \A k \in Keys : cache[k] # r
  BY ReaderApart
<1>2. /\ conn'[c].state = state /\ conn'[c].in = r /\ conn'[c].out = NoReply
      /\ \A d \in Conns \ {c} : conn'[d] = conn[d]
  BY <1>1 DEF Heard, TypeOK
<1>3. /\ \A d \in Conns : Open(d)' <=> Open(d)
      /\ \A d \in Conns : OwnsBody(d)' <=> OwnsBody(d)
      /\ \A d \in Conns : conn'[d].in = conn[d].in
      /\ \A d \in Conns : conn'[d].out = conn[d].out
  BY <1>1, <1>2 DEF Open, OwnsBody, Reading
<1>4. CachedReqs' = CachedReqs /\ Held' = Held
  <2>1. CachedReqs' = CachedReqs
    BY DEF CachedReqs
  <2> QED BY <1>3, <2>1 DEF Held
<1>5. /\ live \subseteq live' /\ \A s \in Held : s \in Reqs
      /\ \A s \in Held \ {r} : req'[s] = q[s]
      /\ req'[r].rdata = b /\ req'[r].can_free /\ b # NULL
  BY <1>1
<1>6. /\ \A s \in Held : q[s].rdata # b
      /\ \A d \in Conns : OwnsBody(d) => conn[d].out.sdata # b
  BY <1>5 DEF Ownership, ConnOwnership, OwnsBody
<1> HIDE DEF r
<1>7. ASSUME NEW d \in Conns
      PROVE  IF Open(d)' THEN ConnOwnership(req, d)' ELSE (conn[d] = Closed)'
  <2>1. CASE d = c
    <3>1. ~NoReply.len /\ NoReply.can_free
      BY DEF NoReply, Response
    <3> QED BY <1>1, <1>2, <1>3, <1>4, <1>5, <2>1, <3>1 DEF ConnOwnership
  <2>2. CASE d # c /\ ~Open(d)
    BY <1>2, <1>3, <2>2 DEF Ownership
  <2>3. CASE d # c /\ Open(d)
    <3>1. ConnOwnership(q, d) /\ conn'[d] = conn[d] /\ conn[d].in # r
      BY <1>1, <1>2, <2>3 DEF Ownership, r
    <3>2. conn[d].in \in Held
      BY <2>3 DEF Held
    <3>3. req'[conn[d].in] = q[conn[d].in]
      BY <1>5, <3>1, <3>2
    <3>4. \A k \in KeysOf[d] : cache[k] # NULL => req'[cache[k]] = q[cache[k]]
      <4>1. \A k \in KeysOf[d] : cache[k] # NULL => cache[k] \in Held /\ cache[k] # r
        BY <1>1, KeysAssumption DEF Held, CachedReqs
      <4> QED BY <1>5, <4>1
    <3>5. OwnsBody(d) => \A s \in Held : req'[s].rdata # conn[d].out.sdata
      BY <1>5, <1>6, <3>1 DEF ConnOwnership
    <3> QED BY <1>3, <1>4, <1>5, <2>3, <3>1, <3>3, <3>4, <3>5 DEF ConnOwnership
  <2> QED BY <2>1, <2>2, <2>3
<1>8. ASSUME NEW k \in Keys, cache'[k] # NULL PROVE EntryOwnership(req, k)'
  <2>1. cache[k] \in Held /\ cache[k] # r
    BY <1>1, <1>8 DEF Held, CachedReqs
  <2> QED BY <1>5, <1>8, <2>1 DEF Ownership, EntryOwnership
<1>9. \A d, e \in Conns : d # e /\ Open(d)' /\ Open(e)' => conn'[d].in # conn'[e].in
  BY <1>3 DEF Ownership
<1>10. \A d, e \in Conns : d # e /\ OwnsBody(d)' /\ OwnsBody(e)' =>
                             conn'[d].out.sdata # conn'[e].out.sdata
  BY <1>3 DEF Ownership
<1>11. \A j, k \in Keys : j # k /\ cache'[j] # NULL => cache'[j] # cache'[k]
  BY DEF Ownership
<1>12. \A s \in Held' : req'[s].rdata # NULL =>
         /\ req'[s].rdata \in live'
         /\ \A t \in Held' : req'[t].rdata = req'[s].rdata => t = s
  BY <1>4, <1>5, <1>6 DEF Ownership
<1>13. ASSUME NEW y \in live'
       PROVE  \/ y \in Held'
              \/ \E s \in Held' : y = req'[s].rdata
              \/ \E d \in Conns : OwnsBody(d)' /\ y = conn'[d].out.sdata
  <2>1. CASE y = b
    BY <1>1, <1>4, <1>5, <2>1
  <2>2. ASSUME y \in live, NEW s \in Held, y = q[s].rdata PROVE s # r
    BY <2>2 DEF TypeOK, r
  <2>3. CASE y \in live
    BY <1>3, <1>4, <1>5, <2>2, <2>3 DEF Ownership
  <2> QED BY <2>1, <2>3
<1> QED BY <1>7, <1>8, <1>9, <1>10, <1>11, <1>12, <1>13 DEF Ownership
-----------------------------------------------------------------------------
(* Commands                                                                *)

\* What is known of the request x of connection c when it is carried out.
Ready(c, x) ==
  /\ x.hdr \in Headers
  /\ x.rkey \in KeysOf[c] \cup {NULL}
  /\ x.hdr.op \in {"GET", "DELETE", "GET_SETTING"} => x.rkey # NULL
  /\ x.hdr.op = "SET" /\ x.rdata # NULL => x.rextra # NULL

\* The step answers c and writes no request block but c's own.
Answered(c, q) ==
  /\ conn'[c].state = "SEND_HEADER"
  /\ \A d \in Conns \ {c} : conn'[d] = conn[d]
  /\ \A s \in Reqs \ {conn[c].in} : req'[s] = q[s]
  /\ status' = status

\* add_response answers its connection and no other.
LEMMA AddResponseAnswered ==
  ASSUME TypeOK, NEW c \in Conns, NEW m, NEW q,
         \A s \in Reqs \ {conn[c].in} : m.req[s] = q[s],
         NEW sdata, NEW len, NEW code, NEW can_free,
         add_response(c, m, sdata, len, code, can_free)
  PROVE  Answered(c, q)
BY DEF add_response, Answered, Heard, TypeOK

\* A reply without a body moves no block.
LEMMA RefuseSafe ==
  ASSUME TypeOK, NEW m \in MemType, Ownership(m.req), NEW c \in Conns,
         conn[c].state \in Reading, NEW code, Refuse(c, m, code)
  PROVE  Ownership(req)' /\ Answered(c, m.req)
<1>1. add_response(c, m, NULL, FALSE, code, TRUE)
  BY DEF Refuse, send_response
<1> QED BY <1>1, RefuseOwnership, AddResponseAnswered

\* Deleting entries of the keys of c alone, then answering, leaves every block one owner.
LEMMA DeleteSafe ==
  ASSUME TypeOK, NEW m \in MemType, Ownership(m.req), NEW c \in Conns,
         conn[c].state \in Reading,
         NEW K \in SUBSET Keys, \A d \in Conns \ {c} : KeysOf[d] \cap K = {},
         Delete(m, K), NEW code, send_response(c, m, code)
  PROVE  Ownership(req)' /\ Answered(c, m.req)
<1>1. add_response(c, m, NULL, FALSE, code, TRUE)
  BY DEF send_response
<1>2. /\ cache' = [k \in Keys |-> IF k \in K THEN NULL ELSE cache[k]]
      /\ live' = live \ CachedBlocks(m, K)
  BY DEF Delete
<1> QED BY <1>1, <1>2, DeleteOwnership, AddResponseAnswered

\* The keys of a client are its own.
LEMMA OwnKeys ==
  ASSUME Disciplined, NEW c \in Conns, NEW k \in KeysOf[c]
  PROVE  k \in Keys /\ k # NULL /\ \A d \in Conns \ {c} : k \notin KeysOf[d]
BY KeysAssumption, BlocksAssumption DEF Disciplined

\* GET of a key of its own: the reply borrows the data of the entry, or an expired entry
\* is given back.
LEMMA GetSafe ==
  ASSUME TypeOK, Disciplined, NEW m \in MemType, Ownership(m.req), NEW c \in Conns,
         conn[c].state \in Reading, NEW k \in KeysOf[c], Get(c, m, k)
  PROVE  Ownership(req)' /\ Answered(c, m.req)
<1> DEFINE cached == m.req[cache[k]]
<1>1. k \in Keys /\ {k} \in SUBSET Keys /\ \A d \in Conns \ {c} : KeysOf[d] \cap {k} = {}
  BY OwnKeys
<1>2. CASE Refuse(c, m, "KEY_NOTEXISTS")
  BY <1>2, RefuseSafe
<1>3. cache[k] # NULL => /\ cached.rextra # NULL
                         /\ \A val \in Lifetimes(cached.rextra) : val \in Timeouts
  <2>1. cache[k] # NULL => cached.rextra \in Timeouts
    BY <1>1 DEF Ownership, EntryOwnership
  <2> QED BY <2>1, TextsAssumption, BlocksAssumption DEF Lifetimes
<1>4. CASE cache[k] # NULL /\ add_response(c, m, cached.rdata, cached.hdr.dlen, "SUCCESS", FALSE)
           /\ cache' = cache /\ live' = live
  <2>1. Ownership(req)'
    BY <1>4, ReplyOwnership
  <2> QED BY <1>4, <2>1, AddResponseAnswered
<1>5. CASE Delete(m, {k}) /\ send_response(c, m, "KEY_NOTEXISTS")
  BY <1>1, <1>5, DeleteSafe
<1>6. CanDelete(m, {k})
  BY <1>1, EntriesApart
<1> QED BY <1>2, <1>3, <1>4, <1>5, <1>6 DEF Get

\* DELETE gives back the request of the entry and its data, once.
LEMMA DeleteKeySafe ==
  ASSUME TypeOK, Disciplined, NEW m \in MemType, Ownership(m.req), NEW c \in Conns,
         conn[c].state \in Reading, NEW k \in KeysOf[c], DeleteKey(c, m, k)
  PROVE  Ownership(req)' /\ Answered(c, m.req)
<1>1. k \in Keys /\ {k} \in SUBSET Keys /\ \A d \in Conns \ {c} : KeysOf[d] \cap {k} = {}
  BY OwnKeys
<1>2. CanDelete(m, {k})
  BY <1>1, EntriesApart
<1>3. CASE Refuse(c, m, "KEY_NOTEXISTS")
  BY <1>3, RefuseSafe
<1>4. CASE Delete(m, {k}) /\ send_response(c, m, "SUCCESS")
  BY <1>1, <1>4, DeleteSafe
<1> QED BY <1>2, <1>3, <1>4 DEF DeleteKey

\* FLUSH_ALL, which in a disciplined system only a client that is alone sends.
LEMMA FlushAllSafe ==
  ASSUME TypeOK, Disciplined, NEW m \in MemType, Ownership(m.req), NEW c \in Conns,
         conn[c].state \in Reading, Ready(c, m.req[conn[c].in]), FlushAll(c, m)
  PROVE  Ownership(req)' /\ Answered(c, m.req)
<1>1. Conns \ {c} = {}
  BY DEF FlushAll, Ready, Disciplined
<1>2. Keys \in SUBSET Keys /\ \A d \in Conns \ {c} : KeysOf[d] \cap Keys = {}
  BY <1>1
<1>3. CanDelete(m, Keys)
  BY <1>2, EntriesApart
<1>4. Delete(m, Keys) /\ send_response(c, m, "SUCCESS")
  BY <1>3 DEF FlushAll
<1> QED BY <1>2, <1>4, DeleteSafe

\* SET hands the request of the connection to the cache, and gives back the one it
\* replaces.
LEMMA SetSafe ==
  ASSUME TypeOK, Disciplined, NEW m \in MemType, Ownership(m.req), NEW c \in Conns,
         conn[c].state \in Reading, Ready(c, m.req[conn[c].in]), Set(c, m)
  PROVE  Ownership(req)' /\ Answered(c, m.req)
<1> DEFINE r == conn[c].in
           kept == Keep(m, r)
<1>1. ASSUME NEW code, Refuse(c, m, code) PROVE Ownership(req)' /\ Answered(c, m.req)
  BY <1>1, RefuseSafe
<1>2. ~(m.req[r].rdata # NULL /\ m.req[r].rextra = NULL)
  BY DEF Set, Ready
<1>3. ASSUME NEW k \in Keys, m.req[r].rkey = k PROVE k \in KeysOf[c] /\ CanDelete(m, {k})
  <2>1. k # NULL
    BY BlocksAssumption
  <2> QED BY <1>3, <2>1, EntriesApart DEF Ready
<1>4. ASSUME NEW k \in Keys, m.req[r].rkey = k, m.req[r].rdata # NULL,
             m.req[r].rextra \in Timeouts, cache' = [cache EXCEPT ![k] = r],
             live' = live \ CachedBlocks(m, {k}), send_response(c, kept, "SUCCESS")
      PROVE  Ownership(req)' /\ Answered(c, m.req)
  <2>1. k \in KeysOf[c] /\ \A d \in Conns \ {c} : k \notin KeysOf[d]
    BY <1>3, <1>4, OwnKeys
  <2>2. Ownership(req)'
    BY <1>4, <2>1, SetOwnership
  <2>3. add_response(c, kept, NULL, FALSE, "SUCCESS", TRUE)
    BY <1>4 DEF send_response
  <2>4. \A s \in Reqs \ {r} : kept.req[s] = m.req[s]
    BY DEF MemType, Keep
  <2> QED BY <2>2, <2>3, <2>4, AddResponseAnswered
<1>5. "grow" \notin FailSites
  BY DEF Disciplined
<1> QED BY <1>1, <1>2, <1>3, <1>4, <1>5 DEF Set

\* GET_SETTING and GET_STATS: the new buffer belongs to the reply.
LEMMA ProduceSafe ==
  ASSUME TypeOK, NEW m \in MemType, Ownership(m.req), NEW c \in Conns,
         conn[c].state \in Reading, NEW text, Produce(c, m, text)
  PROVE  Ownership(req)' /\ Answered(c, m.req)
<1>1. CASE Refuse(c, m, "OUT_OF_MEMORY")
  BY <1>1, RefuseSafe
<1>2. ASSUME NEW b \in Bufs \ live, live' = live \cup {b}, cache' = cache,
             add_response(c, [m EXCEPT !.buf[b] = text], b, TRUE, "SUCCESS", TRUE)
      PROVE  Ownership(req)' /\ Answered(c, m.req)
  <2> DEFINE p == [m EXCEPT !.buf[b] = text]
  <2>1. p.req = m.req
    BY DEF MemType
  <2>2. add_response(c, p, b, TRUE, "SUCCESS", TRUE)
    BY <1>2
  <2> HIDE DEF p
  <2>3. Ownership(req)'
    BY <1>2, <2>1, <2>2, ReplyOwnership
  <2> QED BY <2>1, <2>2, <2>3, AddResponseAnswered
<1> QED BY <1>1, <1>2 DEF Produce

\* CHG_SETTING moves no block.
LEMMA ChgSettingSafe ==
  ASSUME TypeOK, NEW m \in MemType, Ownership(m.req), NEW c \in Conns,
         conn[c].state \in Reading, ChgSetting(c, m)
  PROVE  Ownership(req)' /\ Answered(c, m.req)
<1>1. CASE Refuse(c, m, "INVALID_PARAM")
  BY <1>1, RefuseSafe
<1>2. CASE send_response(c, m, "SUCCESS") /\ cache' = cache /\ live' = live
  <2>1. cache' = [k \in Keys |-> IF k \in {} THEN NULL ELSE cache[k]]
    BY <1>2 DEF TypeOK
  <2>2. live' = live \ CachedBlocks(m, {})
    BY <1>2 DEF CachedBlocks
  <2>3. {} \in SUBSET Keys /\ \A d \in Conns \ {c} : KeysOf[d] \cap {} = {}
    OBVIOUS
  <2>4. Ownership(req)'
    BY <1>2, <2>1, <2>2, <2>3, DeleteOwnership
  <2>5. add_response(c, m, NULL, FALSE, "SUCCESS", TRUE)
    BY <1>2 DEF send_response
  <2> QED BY <2>4, <2>5, AddResponseAnswered
<1> QED BY <1>1, <1>2 DEF ChgSetting

\* A command that is ready to be carried out never fails an assertion, and leaves every
\* block with one owner.
LEMMA ExecuteSafe ==
  ASSUME TypeOK, Disciplined, NEW read \in MemType, Ownership(read.req), NEW c \in Conns,
         conn[c].state \in Reading, Ready(c, read.req[conn[c].in]), execute_cmd(c, read)
  PROVE  Ownership(req)' /\ Answered(c, read.req)
<1> DEFINE r == conn[c].in
           m == [read EXCEPT !.req[r].received = now]
<1>1. r \in Reqs /\ Open(c) /\ r \notin CachedReqs
  BY ReaderApart
<1>2. now \in Int
  BY DEF TypeOK
<1>3. m \in MemType
  BY <1>1, <1>2, WriteType
<1>4. /\ \A s \in Reqs \ {r} : m.req[s] = read.req[s]
      /\ m.req[r] = [read.req[r] EXCEPT !.received = now]
  BY <1>1 DEF MemType
<1>5. read.req[r] \in ReqType
  BY <1>1 DEF MemType
<1>6. /\ m.req[r].rdata = read.req[r].rdata /\ m.req[r].can_free = read.req[r].can_free
      /\ m.req[r].hdr = read.req[r].hdr /\ m.req[r].rkey = read.req[r].rkey
      /\ m.req[r].rextra = read.req[r].rextra
  <2> HIDE DEF m
  <2> QED BY <1>4, <1>5 DEF ReqType
<1>7. Ready(c, m.req[r])
  BY <1>6 DEF Ready
<1>8. \/ Keyless(c, m)
      \/ \E k \in Keys : m.req[r].rkey = k /\ (Get(c, m, k) \/ DeleteKey(c, m, k))
      \/ Set(c, m)
      \/ FlushAll(c, m)
      \/ ChgSetting(c, m)
      \/ GetSetting(c, m)
      \/ GetStats(c, m)
      \/ Unknown(c, m)
  BY DEF execute_cmd
<1> HIDE DEF m
<1>9. Ownership(m.req)
  <2>1. read.req \in [Reqs -> ReqType] /\ m.req \in [Reqs -> ReqType]
    BY <1>3 DEF MemType
  <2> QED BY <1>1, <1>4, <1>6, <2>1, SectionOwnership
<1>10. Ownership(req)' /\ Answered(c, m.req)
  <2>1. ~Keyless(c, m)
    BY <1>7 DEF Keyless, Ready
  <2>2. ASSUME NEW k \in Keys, m.req[r].rkey = k PROVE k \in KeysOf[c]
    BY <1>7, <2>2, BlocksAssumption DEF Ready
  <2>3. ASSUME NEW k \in Keys, m.req[r].rkey = k, Get(c, m, k) \/ DeleteKey(c, m, k)
        PROVE  Ownership(req)' /\ Answered(c, m.req)
    BY <1>3, <1>9, <2>2, <2>3, GetSafe, DeleteKeySafe
  <2>4. CASE Set(c, m)
    BY <1>3, <1>7, <1>9, <2>4, SetSafe
  <2>5. CASE FlushAll(c, m)
    BY <1>3, <1>7, <1>9, <2>5, FlushAllSafe
  <2>6. CASE ChgSetting(c, m)
    BY <1>3, <1>9, <2>6, ChgSettingSafe
  <2>7. CASE GetSetting(c, m)
    <3>1. m.req[r].rkey # NULL
      BY <1>7, <2>7 DEF GetSetting, Ready
    <3>2. CASE Refuse(c, m, "INVALID_PARAM")
      BY <1>3, <1>9, <3>2, RefuseSafe
    <3>3. CASE Produce(c, m, idle_conn_timeout)
      BY <1>3, <1>9, <3>3, ProduceSafe
    <3> QED BY <2>7, <3>1, <3>2, <3>3 DEF GetSetting
  <2>8. CASE GetStats(c, m)
    BY <1>3, <1>9, <2>8, ProduceSafe DEF GetStats
  <2>9. CASE Unknown(c, m)
    BY <1>3, <1>9, <2>9, RefuseSafe DEF Unknown
  <2> QED BY <1>8, <2>1, <2>3, <2>4, <2>5, <2>6, <2>7, <2>8, <2>9
<1> QED BY <1>4, <1>10 DEF Answered
-----------------------------------------------------------------------------
(* Steps                                                                   *)

AllSections == \A c \in Conns : Sections(c)

\* A step that writes no request block another connection reads into.
LEMMA OtherSections ==
  ASSUME TypeOK, Ownership(req), AllSections, NEW c \in Conns,
         \A d \in Conns \ {c} : conn'[d] = conn[d],
         NEW r, \A s \in Reqs \ {r} : req'[s] = req[s],
         \A d \in Conns \ {c} : Open(d) => conn[d].in # r
  PROVE  \A d \in Conns \ {c} : Sections(d)'
<1> SUFFICES ASSUME NEW d \in Conns \ {c} PROVE Sections(d)'
  OBVIOUS
<1>1. conn'[d] = conn[d] /\ Sections(d)
  BY DEF AllSections
<1>2. CASE Open(d)
  <2>1. req'[conn[d].in] = req[conn[d].in]
    BY <1>2, Pointers
  <2> QED BY <1>1, <2>1 DEF Sections
<1>3. CASE ~Open(d)
  BY <1>1, <1>3 DEF Sections, Reading, Open
<1> QED BY <1>2, <1>3

\* A step that answers c and keeps ownership keeps the invariant: what the other
\* connections have read so far is untouched.
LEMMA AnsweredSafe ==
  ASSUME TypeOK, IInv, NEW c \in Conns, Open(c), NEW q, Answered(c, q),
         \A s \in Reqs \ {conn[c].in} : q[s] = req[s], Ownership(req)'
  PROVE  IInv'
<1>1. Sections(c)'
  BY DEF Answered, Sections, Reading
<1>2. \A d \in Conns \ {c} : Open(d) => conn[d].in # conn[c].in
  BY DEF IInv, Ownership
<1>3. \A d \in Conns \ {c} : conn'[d] = conn[d]
  BY DEF Answered
<1>4. \A s \in Reqs \ {conn[c].in} : req'[s] = req[s]
  BY DEF Answered
<1>5. \A d \in Conns \ {c} : Sections(d)'
  BY <1>2, <1>3, <1>4, OtherSections DEF IInv, AllSections
<1>6. Running'
  BY DEF Answered, IInv, Running
<1> QED BY <1>1, <1>5, <1>6 DEF IInv

\* The command, or the refusal, that ends a read.
LEMMA CarriedOut ==
  ASSUME TypeOK, Disciplined, IInv, NEW read \in MemType, Ownership(read.req),
         NEW c \in Conns, conn[c].state \in Reading,
         \A s \in Reqs \ {conn[c].in} : read.req[s] = req[s],
         \/ Ready(c, read.req[conn[c].in]) /\ execute_cmd(c, read)
         \/ \E code : Refuse(c, read, code)
  PROVE  IInv'
<1>1. Open(c)
  BY DEF Open, Reading
<1>2. Ownership(req)' /\ Answered(c, read.req)
  BY ExecuteSafe, RefuseSafe
<1> QED BY <1>1, <1>2, AnsweredSafe

\* A step that moves an open connection on among the reading or the sending states.
LEMMA MoveOwnership ==
  ASSUME TypeOK, NEW q \in [Reqs -> ReqType], Ownership(q), NEW c \in Conns,
         NEW state,
         \/ conn[c].state \in Reading /\ state \in Reading
         \/ conn[c].state \in Sending /\ state \in Sending,
         conn' = [conn EXCEPT ![c] = Heard(c, state, conn[c].in, conn[c].out)],
         req' = q, cache' = cache, live' = live
  PROVE  Ownership(req)'
<1>1. /\ conn'[c].state = state /\ conn'[c].in = conn[c].in /\ conn'[c].out = conn[c].out
      /\ \A d \in Conns \ {c} : conn'[d] = conn[d]
  BY DEF Heard, TypeOK
<1>2. Open(c) /\ Open(c)'
  BY <1>1 DEF Open, Reading, Sending
<1>3. /\ \A d \in Conns : Open(d)' <=> Open(d)
      /\ \A d \in Conns : OwnsBody(d)' <=> OwnsBody(d)
      /\ \A d \in Conns : conn'[d].in = conn[d].in /\ conn'[d].out = conn[d].out
  BY <1>1, <1>2 DEF Open, OwnsBody
<1>4. CachedReqs' = CachedReqs
  BY DEF CachedReqs
<1>5. Held' = Held
  BY <1>3, <1>4 DEF Held
<1>6. conn'[c].state \in Reading => conn[c].state \in Reading
  BY <1>1 DEF Reading, Sending
<1>7. ASSUME NEW d \in Conns
      PROVE  IF Open(d)' THEN ConnOwnership(req, d)' ELSE (conn[d] = Closed)'
  <2>1. CASE Open(d)
    <3>1. ConnOwnership(q, d)
      BY <2>1 DEF Ownership
    <3>2. conn'[d].state \in Reading => conn[d].state \in Reading
      BY <1>1, <1>6
    <3> QED BY <1>3, <1>4, <1>5, <2>1, <3>1, <3>2 DEF ConnOwnership
  <2>2. CASE ~Open(d)
    BY <1>1, <1>2, <1>3, <2>2 DEF Ownership
  <2> QED BY <2>1, <2>2
<1>8. \A k \in Keys : cache'[k] # NULL => EntryOwnership(req, k)'
  BY DEF Ownership, EntryOwnership
<1>9. /\ \A d, e \in Conns : d # e /\ Open(d)' /\ Open(e)' => conn'[d].in # conn'[e].in
      /\ \A d, e \in Conns : d # e /\ OwnsBody(d)' /\ OwnsBody(e)' =>
                               conn'[d].out.sdata # conn'[e].out.sdata
      /\ \A j, k \in Keys : j # k /\ cache'[j] # NULL => cache'[j] # cache'[k]
  BY <1>3 DEF Ownership
<1>10. \A r \in Held' : req'[r].rdata # NULL =>
         /\ req'[r].rdata \in live'
         /\ \A s \in Held' : req'[s].rdata = req'[r].rdata => s = r
  BY <1>5 DEF Ownership
<1>11. \A b \in live' : \/ b \in Held'
                        \/ \E r \in Held' : b = req'[r].rdata
                        \/ \E d \in Conns : OwnsBody(d)' /\ b = conn'[d].out.sdata
  BY <1>3, <1>5 DEF Ownership
<1> QED BY <1>7, <1>8, <1>9, <1>10, <1>11 DEF Ownership

\* A section has been read and the next one is awaited.
LEMMA AwaitSafe ==
  ASSUME TypeOK, IInv, NEW c \in Conns, conn[c].state \in Reading,
         NEW m \in MemType, NEW state \in Reading, Await(c, m, state),
         \A s \in Reqs \ {conn[c].in} : m.req[s] = req[s],
         Ownership(req)', Sections(c)'
  PROVE  IInv'
<1>1. \A d \in Conns \ {c} : conn'[d] = conn[d]
  BY DEF Await, TypeOK
<1>2. \A s \in Reqs \ {conn[c].in} : req'[s] = req[s]
  BY DEF Await
<1>3. \A d \in Conns \ {c} : Open(d) => conn[d].in # conn[c].in
  BY DEF IInv, Ownership, Open, Reading
<1>4. \A d \in Conns \ {c} : Sections(d)'
  BY <1>1, <1>2, <1>3, OtherSections DEF IInv, AllSections
<1>5. Running'
  BY DEF Await, IInv, Running
<1> QED BY <1>4, <1>5 DEF IInv

\* Memory p differs from the present one in sections of c's request only.
LEMMA WriteSection ==
  ASSUME TypeOK, Ownership(req), NEW c \in Conns, conn[c].state \in Reading,
         NEW p \in MemType,
         \A s \in Reqs \ {conn[c].in} : p.req[s] = req[s],
         p.req[conn[c].in].rdata = req[conn[c].in].rdata,
         p.req[conn[c].in].can_free = req[conn[c].in].can_free
  PROVE  Ownership(p.req)
<1>1. Open(c) /\ conn[c].in \notin CachedReqs
  BY ReaderApart
<1>2. req \in [Reqs -> ReqType] /\ p.req \in [Reqs -> ReqType]
  BY DEF MemType, TypeOK
<1> QED BY <1>1, <1>2, SectionOwnership

\* try_read_request keeps the invariant, section by section.
LEMMA ReadHeaderSafe ==
  ASSUME TypeOK, Disciplined, IInv, NEW c \in Conns, ReadHeader(c)
  PROVE  IInv'
<1> DEFINE r == conn[c].in
<1>1. conn[c].state = "READ_HEADER" /\ conn[c].state \in Reading
  BY DEF ReadHeader, OnEvent, Reading
<1>2. r \in Reqs /\ Memory \in MemType /\ Memory.req = req /\ Ownership(req)
  BY <1>1, ReaderApart, MemoryType DEF IInv, Memory
<1>3. req[r].rkey = NULL /\ req[r].rdata = NULL /\ req[r].rextra = NULL
  BY <1>1 DEF IInv, Sections, Reading
<1>4. PICK h \in Headers :
        LET m == [Memory EXCEPT !.req[r].hdr = h] IN
        \/ ~h.fits /\ Refuse(c, m, "INVALID_PARAM_SIZE")
        \/ h.fits /\ ~h.klen /\ execute_cmd(c, m)
        \/ /\ h.fits /\ h.klen
           /\ \/ /\ Await(c, [m EXCEPT !.req[r].rkey = BLANK], "READ_KEY")
                 /\ UNCHANGED live
              \/ OutOfMemory(c, m, "rkey")
  BY DEF ReadHeader
<1> DEFINE m == [Memory EXCEPT !.req[r].hdr = h]
           p == [m EXCEPT !.req[r].rkey = BLANK]
<1>5. m \in MemType
  BY <1>2, HeadersAssumption, WriteType
<1>6. p \in MemType
  BY <1>2, <1>5, WriteType
<1>7. req[r] \in ReqType
  BY <1>2 DEF TypeOK
<1>8. /\ \A s \in Reqs \ {r} : m.req[s] = req[s]
      /\ m.req[r] = [req[r] EXCEPT !.hdr = h]
  BY <1>2 DEF MemType
<1>9. m.req[r] \in ReqType
  BY <1>2, <1>5 DEF MemType
<1>10. /\ \A s \in Reqs \ {r} : p.req[s] = req[s]
       /\ p.req[r] = [m.req[r] EXCEPT !.rkey = BLANK]
  <2> HIDE DEF m
  <2> QED BY <1>2, <1>5, <1>8 DEF MemType
<1>11. /\ \/ ~h.fits /\ Refuse(c, m, "INVALID_PARAM_SIZE")
          \/ ~h.klen /\ execute_cmd(c, m)
          \/ Await(c, p, "READ_KEY") /\ live' = live /\ h.klen
          \/ Refuse(c, m, "OUT_OF_MEMORY")
  BY <1>4 DEF OutOfMemory
<1> HIDE DEF m, p
<1>12. /\ m.req[r].hdr = h /\ m.req[r].rkey = NULL /\ m.req[r].rdata = NULL
       /\ m.req[r].rextra = NULL /\ m.req[r].can_free = req[r].can_free
  BY <1>3, <1>7, <1>8 DEF ReqType
<1>13. /\ p.req[r].hdr = h /\ p.req[r].rkey = BLANK /\ p.req[r].rdata = NULL
       /\ p.req[r].rextra = NULL /\ p.req[r].can_free = req[r].can_free
  BY <1>9, <1>10, <1>12 DEF ReqType
<1>14. Ownership(m.req)
  <2>1. m.req[r].rdata = req[r].rdata /\ m.req[r].can_free = req[r].can_free
    BY <1>3, <1>12
  <2> QED BY <1>1, <1>2, <1>5, <1>8, <2>1, WriteSection
<1>15. CASE \/ Refuse(c, m, "INVALID_PARAM_SIZE")
            \/ Refuse(c, m, "OUT_OF_MEMORY")
            \/ ~h.klen /\ execute_cmd(c, m)
  <2>1. ~h.klen => Ready(c, m.req[r])
    BY <1>12 DEF Ready, Disciplined, WellFormed
  <2> QED BY <1>1, <1>5, <1>8, <1>14, <1>15, <2>1, CarriedOut
<1>16. CASE Await(c, p, "READ_KEY") /\ live' = live /\ h.klen
  <2>1. Ownership(p.req)
    <3>1. p.req[r].rdata = req[r].rdata /\ p.req[r].can_free = req[r].can_free
      BY <1>3, <1>13
    <3> QED BY <1>1, <1>2, <1>6, <1>10, <3>1, WriteSection
  <2>2. p.req \in [Reqs -> ReqType]
    BY <1>6 DEF MemType
  <2>3. /\ conn' = [conn EXCEPT ![c] = Heard(c, "READ_KEY", r, conn[c].out)]
        /\ req' = p.req /\ cache' = cache
    BY <1>16 DEF Await
  <2>4. Ownership(req)'
    BY <1>1, <1>16, <2>1, <2>2, <2>3, MoveOwnership DEF Reading
  <2>5. conn'[c].state = "READ_KEY" /\ conn'[c].in = r
    BY <2>3 DEF Heard, TypeOK
  <2>6. Sections(c)'
    BY <1>13, <1>16, <2>3, <2>5, BlocksAssumption DEF Sections
  <2> QED BY <1>1, <1>6, <1>8, <1>10, <1>16, <2>4, <2>6, AwaitSafe DEF Reading
<1> QED BY <1>11, <1>15, <1>16

\* The key has been read.
LEMMA ReadKeySafe ==
  ASSUME TypeOK, Disciplined, IInv, NEW c \in Conns, ReadKey(c)
  PROVE  IInv'
<1> DEFINE r == conn[c].in
<1>1. conn[c].state = "READ_KEY" /\ conn[c].state \in Reading
  BY DEF ReadKey, OnEvent, Reading
<1>2. r \in Reqs /\ Memory \in MemType /\ Memory.req = req /\ Ownership(req)
  BY <1>1, ReaderApart, MemoryType DEF IInv, Memory
<1>3. /\ req[r].hdr \in Headers /\ req[r].hdr.klen /\ req[r].rkey # NULL
      /\ req[r].rdata = NULL /\ req[r].rextra = NULL
  BY <1>1 DEF IInv, Sections, Reading
<1>4. PICK k \in KeysOf[c] :
        LET m == [Memory EXCEPT !.req[r].rkey = k] IN
        \/ ~req[r].hdr.dlen /\ execute_cmd(c, m)
        \/ /\ req[r].hdr.dlen
           /\ \/ \E b \in Bufs \ live :
                   /\ Await(c, [m EXCEPT !.req[r].rdata = b], "READ_DATA")
                   /\ live' = live \cup {b}
              \/ Bufs \subseteq live /\ Refuse(c, [m EXCEPT !.req[r].rdata = NULL], "OUT_OF_MEMORY")
  BY <1>3 DEF ReadKey
<1> DEFINE m == [Memory EXCEPT !.req[r].rkey = k]
           p(b) == [m EXCEPT !.req[r].rdata = b]
<1>5. k # NULL /\ k \in Keys
  BY OwnKeys
<1>6. m \in MemType
  BY <1>2, <1>5, WriteType
<1>7. req[r] \in ReqType
  BY <1>2 DEF TypeOK
<1>8. /\ \A s \in Reqs \ {r} : m.req[s] = req[s]
      /\ m.req[r] = [req[r] EXCEPT !.rkey = k]
  BY <1>2 DEF MemType
<1>9. m.req[r] \in ReqType
  BY <1>2, <1>6 DEF MemType
<1>10. \/ ~req[r].hdr.dlen /\ execute_cmd(c, m)
       \/ /\ req[r].hdr.dlen
          /\ \E b \in Bufs \ live : Await(c, p(b), "READ_DATA") /\ live' = live \cup {b}
       \/ Refuse(c, p(NULL), "OUT_OF_MEMORY")
  BY <1>4
<1> HIDE DEF m
<1>11. ASSUME NEW b \in Bufs \cup {NULL}
       PROVE  /\ p(b) \in MemType
              /\ \A s \in Reqs \ {r} : p(b).req[s] = req[s]
              /\ p(b).req[r] = [m.req[r] EXCEPT !.rdata = b]
  <2>1. p(b) \in MemType
    BY <1>2, <1>6, WriteType
  <2> QED BY <1>2, <1>6, <1>8, <2>1 DEF MemType
<1> HIDE DEF p
<1>12. /\ m.req[r].hdr = req[r].hdr /\ m.req[r].rkey = k /\ m.req[r].rdata = NULL
       /\ m.req[r].rextra = NULL /\ m.req[r].can_free = req[r].can_free
  BY <1>3, <1>7, <1>8 DEF ReqType
<1>13. ASSUME NEW b \in Bufs \cup {NULL}
       PROVE  /\ p(b).req[r].hdr = req[r].hdr /\ p(b).req[r].rkey = k
              /\ p(b).req[r].rdata = b /\ p(b).req[r].rextra = NULL
              /\ p(b).req[r].can_free = req[r].can_free
  <2> DEFINE e == m.req[r]
             q == p(b).req[r]
  <2>1. e \in ReqType /\ q = [e EXCEPT !.rdata = b]
    BY <1>9, <1>11
  <2>2. /\ e.hdr = req[r].hdr /\ e.rkey = k /\ e.rextra = NULL /\ e.can_free = req[r].can_free
    BY <1>12
  <2> HIDE DEF e, q
  <2>3. q.rdata = b /\ q.hdr = e.hdr /\ q.rkey = e.rkey /\ q.rextra = e.rextra /\ q.can_free = e.can_free
    BY <2>1 DEF ReqType
  <2> QED BY <2>2, <2>3 DEF q
<1>14. CASE ~req[r].hdr.dlen /\ execute_cmd(c, m)
  <2>1. Ownership(m.req)
    <3>1. m.req[r].rdata = req[r].rdata /\ m.req[r].can_free = req[r].can_free
      BY <1>3, <1>12
    <3> QED BY <1>1, <1>2, <1>6, <1>8, <3>1, WriteSection
  <2>2. Ready(c, m.req[r])
    BY <1>3, <1>5, <1>12 DEF Ready
  <2> QED BY <1>1, <1>6, <1>8, <1>14, <2>1, <2>2, CarriedOut
<1>15. CASE Refuse(c, p(NULL), "OUT_OF_MEMORY")
  <2>1. p(NULL) \in MemType /\ \A s \in Reqs \ {r} : p(NULL).req[s] = req[s]
    BY <1>11
  <2>2. p(NULL).req[r].rdata = req[r].rdata /\ p(NULL).req[r].can_free = req[r].can_free
    BY <1>3, <1>13
  <2>3. Ownership(p(NULL).req)
    BY <1>1, <1>2, <2>1, <2>2, WriteSection
  <2> QED BY <1>1, <1>15, <2>1, <2>3, CarriedOut
<1>16. ASSUME NEW b \in Bufs \ live, Await(c, p(b), "READ_DATA"), live' = live \cup {b},
              req[r].hdr.dlen
       PROVE  IInv'
  <2>1. /\ p(b) \in MemType /\ p(b).req \in [Reqs -> ReqType]
        /\ \A s \in Reqs \ {r} : p(b).req[s] = req[s]
    BY <1>11 DEF MemType
  <2>2. /\ conn' = [conn EXCEPT ![c] = Heard(c, "READ_DATA", r, conn[c].out)]
        /\ req' = p(b).req /\ cache' = cache
    BY <1>16 DEF Await
  <2>3. req \in [Reqs -> ReqType] /\ "READ_DATA" \in Reading
    BY DEF TypeOK, Reading
  <2>4. req'[r].rdata = b /\ req'[r].can_free = req[r].can_free
    BY <1>13, <2>2
  <2>5. Ownership(req)'
    <3>1. /\ req' \in [Reqs -> ReqType] /\ \A s \in Reqs \ {r} : req'[s] = req[s]
          /\ req'[r].rdata = b /\ req'[r].can_free = req[r].can_free
      BY <2>1, <2>2, <2>4
    <3>2. Ownership(req) /\ conn[c].state \in Reading /\ req[r].rdata = NULL
      BY <1>1, <1>2, <1>3
    <3> QED BY <1>16, <2>2, <2>3, <3>1, <3>2, AwaitOwnership
  <2>6. conn'[c].state = "READ_DATA" /\ conn'[c].in = r
    BY <2>2 DEF Heard, TypeOK
  <2>7. Sections(c)'
    <3>1. b # NULL
      BY BlocksAssumption
    <3>2. req'[r].hdr = req[r].hdr /\ req'[r].rkey = k /\ req'[r].rextra = NULL
      BY <1>13, <2>2
    <3> QED BY <1>3, <1>5, <1>16, <2>4, <2>6, <3>1, <3>2 DEF Sections
  <2> QED BY <1>1, <1>16, <2>1, <2>3, <2>5, <2>7, AwaitSafe
<1> QED BY <1>10, <1>14, <1>15, <1>16

\* The data has been read.
LEMMA ReadDataSafe ==
  ASSUME TypeOK, Disciplined, IInv, NEW c \in Conns, ReadData(c)
  PROVE  IInv'
<1> DEFINE r == conn[c].in
<1>1. conn[c].state = "READ_DATA" /\ conn[c].state \in Reading
  BY DEF ReadData, OnEvent, Reading
<1>2. r \in Reqs /\ Memory \in MemType /\ Memory.req = req /\ Ownership(req)
  BY <1>1, ReaderApart, MemoryType DEF IInv, Memory
<1>3. /\ req[r].hdr \in Headers /\ req[r].hdr.klen /\ req[r].rkey \in KeysOf[c]
      /\ req[r].rkey # NULL /\ req[r].rdata # NULL /\ req[r].hdr.dlen
      /\ req[r].rextra = NULL
  BY <1>1 DEF IInv, Sections, Reading
<1>4. PICK text \in Texts :
        LET m == [Memory EXCEPT !.buf[req[r].rdata] = text] IN
        \/ ~req[r].hdr.elen /\ execute_cmd(c, m)
        \/ Await(c, [m EXCEPT !.req[r].rextra = BLANK], "READ_EXTRA") /\ live' = live
        \/ Refuse(c, m, "OUT_OF_MEMORY")
  BY <1>3 DEF ReadData, OutOfMemory
<1> DEFINE m == [Memory EXCEPT !.buf[req[r].rdata] = text]
           p == [m EXCEPT !.req[r].rextra = BLANK]
<1>5. req[r] \in ReqType /\ req[r].rdata \in Bufs
  BY <1>2, <1>3 DEF TypeOK, ReqType
<1>6. m \in MemType
  BY <1>2, <1>5, WriteType DEF BufType
<1>7. m.req = req
  BY <1>2 DEF Memory
<1>8. \/ ~req[r].hdr.elen /\ execute_cmd(c, m)
      \/ Await(c, p, "READ_EXTRA") /\ live' = live
      \/ Refuse(c, m, "OUT_OF_MEMORY")
  BY <1>4
<1> HIDE DEF m
<1>9. /\ p \in MemType
      /\ \A s \in Reqs \ {r} : p.req[s] = req[s]
      /\ p.req[r] = [req[r] EXCEPT !.rextra = BLANK]
  <2>1. p \in MemType
    BY <1>2, <1>6, WriteType
  <2> QED BY <1>2, <1>6, <1>7, <2>1 DEF MemType
<1> HIDE DEF p
<1>10. CASE \/ Refuse(c, m, "OUT_OF_MEMORY")
            \/ ~req[r].hdr.elen /\ execute_cmd(c, m)
  <2>1. ~req[r].hdr.elen => Ready(c, m.req[r])
    BY <1>3, <1>7 DEF Ready, Disciplined, WellFormed
  <2> QED BY <1>1, <1>2, <1>6, <1>7, <1>10, <2>1, CarriedOut
<1>11. CASE Await(c, p, "READ_EXTRA") /\ live' = live
  <2>1. /\ p.req[r].hdr = req[r].hdr /\ p.req[r].rkey = req[r].rkey
        /\ p.req[r].rdata = req[r].rdata /\ p.req[r].can_free = req[r].can_free
    BY <1>5, <1>9 DEF ReqType
  <2>2. Ownership(p.req)
    BY <1>1, <1>2, <1>9, <2>1, WriteSection
  <2>3. p.req \in [Reqs -> ReqType] /\ "READ_EXTRA" \in Reading
    BY <1>9 DEF MemType, Reading
  <2>4. /\ conn' = [conn EXCEPT ![c] = Heard(c, "READ_EXTRA", r, conn[c].out)]
        /\ req' = p.req /\ cache' = cache
    BY <1>11 DEF Await
  <2>5. Ownership(req)'
    BY <1>1, <1>11, <2>2, <2>3, <2>4, MoveOwnership
  <2>6. conn'[c].state = "READ_EXTRA" /\ conn'[c].in = r
    BY <2>4 DEF Heard, TypeOK
  <2>7. Sections(c)'
    BY <1>3, <2>1, <2>4, <2>6 DEF Sections
  <2> QED BY <1>1, <1>9, <1>11, <2>3, <2>5, <2>7, AwaitSafe
<1> QED BY <1>8, <1>10, <1>11

\* The extra has been read, and the command is carried out.
LEMMA ReadExtraSafe ==
  ASSUME TypeOK, Disciplined, IInv, NEW c \in Conns, ReadExtra(c)
  PROVE  IInv'
<1> DEFINE r == conn[c].in
<1>1. conn[c].state = "READ_EXTRA" /\ conn[c].state \in Reading
  BY DEF ReadExtra, OnEvent, Reading
<1>2. r \in Reqs /\ Memory \in MemType /\ Memory.req = req /\ Ownership(req)
  BY <1>1, ReaderApart, MemoryType DEF IInv, Memory
<1>3. req[r].hdr \in Headers /\ req[r].rkey \in KeysOf[c] /\ req[r].rkey # NULL
  BY <1>1 DEF IInv, Sections, Reading
<1>4. PICK text \in Texts : execute_cmd(c, [Memory EXCEPT !.req[r].rextra = text])
  BY DEF ReadExtra
<1> DEFINE m == [Memory EXCEPT !.req[r].rextra = text]
<1>5. req[r] \in ReqType
  BY <1>2 DEF TypeOK
<1>6. m \in MemType
  BY <1>2, WriteType
<1>7. /\ \A s \in Reqs \ {r} : m.req[s] = req[s]
      /\ m.req[r] = [req[r] EXCEPT !.rextra = text]
  BY <1>2 DEF MemType
<1>8. execute_cmd(c, m)
  BY <1>4
<1> HIDE DEF m
<1>9. /\ m.req[r].hdr = req[r].hdr /\ m.req[r].rkey = req[r].rkey
      /\ m.req[r].rdata = req[r].rdata /\ m.req[r].can_free = req[r].can_free
      /\ m.req[r].rextra # NULL
  BY <1>5, <1>7, BlocksAssumption DEF ReqType
<1>10. Ownership(m.req)
  BY <1>1, <1>2, <1>6, <1>7, <1>9, WriteSection
<1>11. Ready(c, m.req[r])
  BY <1>3, <1>9 DEF Ready
<1> QED BY <1>1, <1>6, <1>7, <1>8, <1>10, <1>11, CarriedOut

\* Closing connections gives back what they own and no more.
LEMMA DisconnectSafe ==
  ASSUME TypeOK, IInv, NEW C \in SUBSET Conns, disconnect_conn(C)
  PROVE  IInv'
<1>1. Ownership(req)'
  BY DisconnectOwnership DEF IInv
<1>2. /\ \A c \in C : conn'[c] = Closed
      /\ \A c \in Conns \ C : conn'[c] = conn[c]
      /\ req' = req /\ status' = status
  BY DEF disconnect_conn
<1>3. ASSUME NEW c \in Conns PROVE Sections(c)'
  <2>1. CASE c \in C
    BY <1>2, <2>1 DEF Sections, Closed, Reading
  <2>2. CASE c \notin C
    BY <1>2, <2>2 DEF IInv, Sections
  <2> QED BY <2>1, <2>2
<1> QED BY <1>1, <1>2, <1>3 DEF IInv, Running

\* A connection that starts on a request, with a block nobody holds.
LEMMA TakeRequestSafe ==
  ASSUME TypeOK, IInv, NEW c \in Conns, NEW r \in Reqs \ (live \ Frees(c)),
         NEW x, x.state = "READ_HEADER", x.in = r, x.out = NoReply,
         live' = (live \ Frees(c)) \cup {r},
         req' = [req EXCEPT ![r] = EmptyRequest],
         conn' = [conn EXCEPT ![c] = x],
         cache' = cache, status' = status
  PROVE  IInv'
<1>1. Ownership(req)'
  BY TakeRequestOwnership DEF IInv
<1>2. /\ conn'[c] = x /\ \A d \in Conns \ {c} : conn'[d] = conn[d]
      /\ req'[r] = EmptyRequest /\ \A s \in Reqs \ {r} : req'[s] = req[s]
  BY DEF TypeOK
<1>3. \A d \in Conns \ {c} : Open(d) => conn[d].in # r
  <2> SUFFICES ASSUME NEW d \in Conns \ {c}, Open(d) PROVE conn[d].in # r
    OBVIOUS
  <2>1. conn[d].in \in live
    BY DEF IInv, Ownership, ConnOwnership
  <2>2. conn[d].in \notin Frees(c)
    BY SurvivesOne DEF IInv
  <2> QED BY <2>1, <2>2
<1>4. \A d \in Conns \ {c} : Sections(d)'
  BY <1>2, <1>3, OtherSections DEF IInv, AllSections
<1>5. Sections(c)'
  BY <1>2 DEF Sections, EmptyRequest
<1> QED BY <1>1, <1>4, <1>5 DEF IInv, Running

\* After a reply its blocks are given back and a request block is taken, if there is one.
LEMMA InitResourcesSafe ==
  ASSUME TypeOK, IInv, NEW c \in Conns, init_resources(c)
  PROVE  IInv'
<1>1. FreeOK({c})
  <2>1. {c} \in SUBSET Conns
    OBVIOUS
  <2> QED BY <2>1, FreeOKAlways DEF IInv
<1>2. CASE disconnect_conn({c})
  BY <1>2, DisconnectSafe
<1>3. ASSUME NEW r \in Reqs \ (live \ Frees(c)),
             live' = (live \ Frees(c)) \cup {r},
             req' = [req EXCEPT ![r] = EmptyRequest],
             conn' = [conn EXCEPT ![c] = Heard(c, "READ_HEADER", r, NoReply)],
             cache' = cache, status' = status
      PROVE  IInv'
  <2> DEFINE x == Heard(c, "READ_HEADER", r, NoReply)
  <2>1. x.state = "READ_HEADER" /\ x.in = r /\ x.out = NoReply
    BY DEF Heard
  <2>2. conn' = [conn EXCEPT ![c] = x]
    BY <1>3
  <2> HIDE DEF x
  <2> QED BY <1>3, <2>1, <2>2, TakeRequestSafe
<1> QED BY <1>1, <1>2, <1>3 DEF init_resources

\* A new connection owns nothing before it takes its request block.
LEMMA AcceptSafe ==
  ASSUME ConnInv, IInv, NEW c \in Conns, Accept(c)
  PROVE  IInv'
<1>1. ~Open(c)
  BY MakeConnList DEF Accept, ConnInv, EventMatchesState, Open
<1>2. Frees(c) = {}
  BY <1>1, FreesOwned DEF Frees, OwnsBody, ConnInv, IInv
<1>3. CASE UNCHANGED <<conn, reg, memory, curr_connections>>
  <2>1. conn' = conn /\ req' = req /\ cache' = cache /\ live' = live /\ status' = status
    BY <1>3 DEF memory, Accept
  <2>2. CachedReqs' = CachedReqs
    BY <2>1 DEF CachedReqs
  <2>3. \A d \in Conns : (Open(d)' <=> Open(d)) /\ (OwnsBody(d)' <=> OwnsBody(d))
    BY <2>1 DEF Open, OwnsBody
  <2>4. Held' = Held
    BY <2>1, <2>2, <2>3 DEF Held
  <2>5. \A d \in Conns : ConnOwnership(req, d)' <=> ConnOwnership(req, d)
    BY <2>1, <2>2, <2>3, <2>4 DEF ConnOwnership
  <2>6. \A k \in Keys : EntryOwnership(req, k)' <=> EntryOwnership(req, k)
    BY <2>1 DEF EntryOwnership
  <2>7. Ownership(req)'
    BY <2>1, <2>3, <2>4, <2>5, <2>6 DEF IInv, Ownership
  <2> QED BY <2>1, <2>7 DEF IInv, Sections, Running
<1>4. ASSUME NEW r \in Reqs \ live,
             live' = live \cup {r},
             req' = [req EXCEPT ![r] = EmptyRequest],
             conn' = [conn EXCEPT ![c] = [free |-> FALSE, state |-> "READ_HEADER",
                                          in |-> r, out |-> NoReply,
                                          last_heard |-> now]],
             cache' = cache
      PROVE  IInv'
  <2> DEFINE x == [free |-> FALSE, state |-> "READ_HEADER", in |-> r, out |-> NoReply,
                   last_heard |-> now]
  <2>1. x.state = "READ_HEADER" /\ x.in = r /\ x.out = NoReply
    OBVIOUS
  <2>2. conn' = [conn EXCEPT ![c] = x] /\ status' = status
    BY <1>4 DEF Accept
  <2>3. live \ Frees(c) = live
    BY <1>2
  <2> HIDE DEF x
  <2> QED BY <1>4, <2>1, <2>2, <2>3, TakeRequestSafe DEF ConnInv
<1> QED BY <1>3, <1>4 DEF Accept

\* A byte read or sent, or the header of a reply with a body sent.
LEMMA MoveSafe ==
  ASSUME TypeOK, IInv, NEW c \in Conns, NEW state,
         \/ conn[c].state \in Reading /\ state = conn[c].state
         \/ conn[c].state \in Sending /\ state \in Sending,
         conn' = [conn EXCEPT ![c] = Heard(c, state, conn[c].in, conn[c].out)],
         UNCHANGED <<memory, status>>
  PROVE  IInv'
<1>1. req \in [Reqs -> ReqType] /\ req' = req /\ cache' = cache /\ live' = live
  BY DEF TypeOK, memory
<1>2. Ownership(req)'
  BY <1>1, MoveOwnership DEF IInv
<1>3. /\ conn'[c].state = state /\ conn'[c].in = conn[c].in
      /\ \A d \in Conns \ {c} : conn'[d] = conn[d]
  BY DEF Heard, TypeOK
<1>4. \A d \in Conns \ {c} : Sections(d)'
  BY <1>1, <1>3 DEF IInv, Sections
<1>5. Sections(c)'
  BY <1>1, <1>3 DEF IInv, Sections, Reading, Sending
<1> QED BY <1>2, <1>4, <1>5 DEF IInv, Running
-----------------------------------------------------------------------------
(* The invariant                                                           *)

\* At the start nothing is allocated.
LEMMA InitSafe == Init => IInv
<1> SUFFICES ASSUME Init PROVE IInv
  OBVIOUS
<1>1. \A c \in Conns : conn[c] = Closed /\ ~Open(c) /\ ~OwnsBody(c)
  BY DEF Init, Closed, Open, OwnsBody
<1>2. \A k \in Keys : cache[k] = NULL
  BY DEF Init
<1>3. CachedReqs = {}
  BY <1>2 DEF CachedReqs
<1>4. Held = {}
  BY <1>1, <1>3 DEF Held
<1>5. live = {} /\ Running
  BY DEF Init, Running
<1>6. Ownership(req)
  BY <1>1, <1>2, <1>4, <1>5 DEF Ownership
<1>7. \A c \in Conns : Sections(c)
  BY <1>1 DEF Sections, Closed, Reading
<1> QED BY <1>5, <1>6, <1>7 DEF IInv

\* Every step keeps the invariant.
LEMMA NextSafe ==
  ASSUME Disciplined, ConnInv, IInv, [Next]_vars
  PROVE  IInv'
<1> USE DEF ConnInv
<1>1. CASE UNCHANGED vars \/ Tick \/ NextIteration
  <2>1. /\ conn' = conn /\ req' = req /\ cache' = cache /\ live' = live
        /\ status' = status
    BY <1>1 DEF vars, memory, Tick, NextIteration
  <2>2. CachedReqs' = CachedReqs
    BY <2>1 DEF CachedReqs
  <2>3. \A d \in Conns : (Open(d)' <=> Open(d)) /\ (OwnsBody(d)' <=> OwnsBody(d))
    BY <2>1 DEF Open, OwnsBody
  <2>4. Held' = Held
    BY <2>1, <2>2, <2>3 DEF Held
  <2>5. \A d \in Conns : ConnOwnership(req, d)' <=> ConnOwnership(req, d)
    BY <2>1, <2>2, <2>3, <2>4 DEF ConnOwnership
  <2>6. \A k \in Keys : EntryOwnership(req, k)' <=> EntryOwnership(req, k)
    BY <2>1 DEF EntryOwnership
  <2>7. Ownership(req)'
    BY <2>1, <2>3, <2>4, <2>5, <2>6 DEF IInv, Ownership
  <2> QED BY <2>1, <2>7 DEF IInv, Sections, Running
<1>2. CASE disconnect_idle_conns
  <2>1. Idle \in SUBSET Conns
    BY DEF Idle, Walked, TypeOK
  <2>2. FreeOK(Idle)
    BY <2>1, FreeOKAlways DEF IInv
  <2>3. disconnect_conn(Idle)
    BY <1>2, <2>2 DEF disconnect_idle_conns
  <2> QED BY <2>1, <2>3, DisconnectSafe
<1>3. ASSUME NEW c \in Conns, Accept(c) PROVE IInv'
  BY <1>3, AcceptSafe
<1>4. ASSUME NEW c \in Conns, AcceptDirty(c) PROVE IInv'
  BY <1>4 DEF AcceptDirty, Disciplined
<1>5. ASSUME NEW c \in Conns, ReadHeader(c) PROVE IInv'
  BY <1>5, ReadHeaderSafe
<1>6. ASSUME NEW c \in Conns, ReadKey(c) PROVE IInv'
  BY <1>6, ReadKeySafe
<1>7. ASSUME NEW c \in Conns, ReadData(c) PROVE IInv'
  BY <1>7, ReadDataSafe
<1>8. ASSUME NEW c \in Conns, ReadExtra(c) PROVE IInv'
  BY <1>8, ReadExtraSafe
<1>9. ASSUME NEW c \in Conns, NeedMore(c) PROVE IInv'
  BY <1>9, MoveSafe DEF NeedMore
<1>10. ASSUME NEW c \in Conns, SendHeader(c) PROVE IInv'
  <2>1. conn[c].state \in Sending /\ "SEND_DATA" \in Sending
    BY <1>10 DEF SendHeader, OnEvent, Sending
  <2> QED BY <1>10, <2>1, MoveSafe, InitResourcesSafe DEF SendHeader
<1>11. ASSUME NEW c \in Conns, SendData(c) PROVE IInv'
  BY <1>11, InitResourcesSafe DEF SendData
<1>12. ASSUME NEW c \in Conns, Hangup(c) PROVE IInv'
  <2>1. {c} \in SUBSET Conns
    OBVIOUS
  <2>2. FreeOK({c})
    BY <2>1, FreeOKAlways DEF IInv
  <2> QED BY <1>12, <2>1, <2>2, DisconnectSafe DEF Hangup
<1> QED BY <1>1, <1>2, <1>3, <1>4, <1>5, <1>6, <1>7, <1>8, <1>9, <1>10, <1>11, <1>12
     DEF Next

\* In a disciplined system every block has one owner between its allocation and its
\* one free, through every interleaving of handlers and every failed allocation.
THEOREM Owned ==
  ASSUME Disciplined
  PROVE  Spec => []IInv
<1>1. Init => IInv
  BY InitSafe
<1>2. TypeOK /\ (EventMatchesState /\ ConnectionsListed) /\ IInv /\ [Next]_vars => IInv'
  BY NextSafe DEF ConnInv
<1> QED BY <1>1, <1>2, TypeCorrect, ConnectionsCorrect, PTL DEF Spec
-----------------------------------------------------------------------------
(* What it implies                                                         *)

\* A block with one owner is freed by one: nobody else would free it again.
LEMMA OwnedExclusively ==
  ASSUME TypeOK, IInv
  PROVE  ExclusiveOwnership
<1> USE Pointers
<1>1. Ownership(req) /\ Memory \in MemType /\ Memory.req = req
  BY MemoryType DEF IInv, Memory
<1>2. Conns \in SUBSET Conns /\ FreeOK(Conns)
  BY <1>1, FreeOKAlways
<1>3. ASSUME NEW c \in Conns PROVE Frees(c) \cap AllCached = {}
  <2>1. \A r \in CachedReqs : r \notin Frees(c) /\ req[r].rdata \notin Frees(c)
    BY <1>1, SurvivesOne
  <2>2. \A b \in AllCached : \E r \in CachedReqs : b = r \/ b = req[r].rdata
    BY <1>1 DEF AllCached, CachedBlocks, RequestBlocks, CachedReqs
  <2> QED BY <2>1, <2>2
<1>4. \A j, k \in Keys : j # k /\ cache[j] # NULL => cache[j] # cache[k]
  BY <1>1 DEF Ownership
<1>5. \A r, s \in CachedReqs : r # s => req[r].rdata # req[s].rdata
  <2>1. \A r \in CachedReqs : r \in Held /\ req[r].rdata # NULL
    BY <1>1 DEF Ownership, EntryOwnership, CachedReqs, Held
  <2> QED BY <1>1, <2>1 DEF Ownership
<1> QED BY <1>2, <1>3, <1>4, <1>5 DEF ExclusiveOwnership, FreeOK

\* What has an owner is allocated.
LEMMA OwnedIsAllocated ==
  ASSUME TypeOK, IInv
  PROVE  NoDangling
<1> USE Pointers
<1>1. Ownership(req) /\ Memory \in MemType /\ Memory.req = req
  BY MemoryType DEF IInv, Memory
<1>2. AllCached \subseteq live
  <2>1. Keys \in SUBSET Keys
    OBVIOUS
  <2> QED BY <1>1, <2>1, EntriesApart DEF AllCached
<1>3. \A c \in Conns : Open(c) => conn[c].in \in live
  BY <1>1 DEF Ownership, ConnOwnership
<1>4. \A c \in Conns : Frees(c) \subseteq live
  <2>1. FreeOK(Conns)
    BY <1>1, FreeOKAlways
  <2> QED BY <2>1 DEF FreeOK
<1>5. ASSUME NEW c \in Conns, conn[c].state \in Sending, conn[c].out.len
      PROVE  conn[c].out.sdata \in live
  <2>1. Open(c)
    BY <1>5 DEF Open, Sending
  <2>2. ConnOwnership(req, c)
    BY <1>1, <2>1 DEF Ownership
  <2>3. CASE conn[c].out.can_free
    BY <1>5, <2>1, <2>2, <2>3 DEF ConnOwnership, OwnsBody
  <2>4. CASE ~conn[c].out.can_free
    <3>1. PICK k \in KeysOf[c] : cache[k] # NULL /\ conn[c].out.sdata = req[cache[k]].rdata
      BY <2>2, <2>4 DEF ConnOwnership
    <3>2. cache[k] \in Held /\ req[cache[k]].rdata # NULL
      BY <1>1, <3>1, KeysAssumption DEF Ownership, EntryOwnership, CachedReqs, Held
    <3> QED BY <1>1, <3>1, <3>2 DEF Ownership
  <2> QED BY <2>3, <2>4
<1> QED BY <1>2, <1>3, <1>4, <1>5 DEF NoDangling, Open

\* What is allocated has an owner.
LEMMA OwnedIsNotLost ==
  ASSUME TypeOK, IInv
  PROVE  NoLeak
<1> USE Pointers
<1>1. Ownership(req) /\ Memory.req = req
  BY DEF IInv, Memory
<1>2. SUFFICES ASSUME NEW b \in live, \A c \in Conns : b \notin Frees(c)
               PROVE  b \in AllCached
  BY DEF NoLeak
<1>3. b # NULL
  BY DEF TypeOK
<1>4. ASSUME NEW r \in Held, b = r \/ b = req[r].rdata PROVE r \in CachedReqs
  <2> SUFFICES ASSUME NEW c \in Conns, Open(c), r = conn[c].in, r \notin CachedReqs
               PROVE  FALSE
    BY DEF Held
  <2>1. b \in Frees(c)
    BY <1>1, <1>3, <1>4, FreesOwned DEF Frees
  <2> QED BY <1>2, <2>1
<1>5. ASSUME NEW r \in CachedReqs, b = r \/ b = req[r].rdata PROVE b \in AllCached
  <2>1. b \in RequestBlocks(req, r)
    BY <1>3, <1>5 DEF RequestBlocks
  <2>2. PICK k \in Keys : cache[k] = r /\ cache[k] # NULL
    BY DEF CachedReqs
  <2> QED BY <1>1, <2>1, <2>2 DEF AllCached, CachedBlocks
<1>6. ~\E c \in Conns : OwnsBody(c) /\ b = conn[c].out.sdata
  BY <1>1, <1>2, FreesOwned DEF Frees
<1> QED BY <1>1, <1>4, <1>5, <1>6 DEF Ownership

\* An entry of the cache has all its sections and can_free = 0.
LEMMA OwnedByCache ==
  ASSUME TypeOK, IInv
  PROVE  CachedIsKept
<1>1. SUFFICES ASSUME NEW k \in Keys, cache[k] # NULL
               PROVE  /\ EntryOwnership(req, k)
                      /\ \A c \in Conns : conn[c].in = cache[k] => conn[c].state \in Sending
  BY DEF CachedIsKept, CachedReqs, EntryOwnership
<1>2. EntryOwnership(req, k)
  BY <1>1 DEF IInv, Ownership
<1>3. ASSUME NEW c \in Conns, conn[c].in = cache[k] PROVE conn[c].state \in Sending
  <2>1. cache[k] \in CachedReqs
    BY <1>1 DEF CachedReqs
  <2>2. Open(c)
    BY <1>1, <1>3 DEF IInv, Ownership, Closed
  <2>3. conn[c].state \notin Reading
    BY <1>3, <2>1, <2>2 DEF IInv, Ownership, ConnOwnership
  <2> QED BY <2>2, <2>3 DEF TypeOK, ConnType, Open
<1> QED BY <1>2, <1>3

\* No block is freed twice, by two connections, by a request and its reply, or by a
\* connection and the cache.
THEOREM FreedOnce ==
  ASSUME Disciplined
  PROVE  Spec => []ExclusiveOwnership
BY Owned, TypeCorrect, OwnedExclusively, PTL

\* No handler reads, sends or frees a block that has been freed.
THEOREM NotFreedInUse ==
  ASSUME Disciplined
  PROVE  Spec => []NoDangling
BY Owned, TypeCorrect, OwnedIsAllocated, PTL

\* No block is lost, also when a reply is refused, a connection is closed in the middle
\* of a section or an allocation fails.
THEOREM NothingLost ==
  ASSUME Disciplined
  PROVE  Spec => []NoLeak
BY Owned, TypeCorrect, OwnedIsNotLost, PTL

\* A cached entry is complete and belongs to the cache alone.
THEOREM CacheComplete ==
  ASSUME Disciplined
  PROVE  Spec => []CachedIsKept
BY Owned, TypeCorrect, OwnedByCache, PTL

\* The assertions of the code hold and no null pointer is followed.
THEOREM Survival ==
  ASSUME Disciplined
  PROVE  Spec => []NeverDies
<1>1. IInv => NeverDies
  BY DEF IInv, NeverDies
<1> QED BY <1>1, Owned, PTL
-----------------------------------------------------------------------------
(* The service: what clients see, and which of it a handler leaves alone   *)

\* What SET and GET need besides IInv: the data of a request whose extra section is
\* awaited has been read, and an entry was announced with its data.
Texted ==
  /\ \A c \in Conns : conn[c].state = "READ_EXTRA" => buf[req[conn[c].in].rdata] \in Texts
  /\ \A k \in Keys : cache[k] # NULL => req[cache[k]].hdr.dlen

\* A step of the service, or one no client sees.
Serves == [Service!SNext]_(Service!svars) /\ Texted'

\* The step is seen by the connections in C at most: it writes the request block r and
\* the body block b, which nobody else points at.
OutOfSight(C, r, b) ==
  /\ \A d \in Conns \ C : conn'[d] = conn[d]
  /\ r \notin CachedReqs
  /\ \A d \in Conns \ C : Open(d) => conn[d].in # r
  /\ \A s \in Reqs \ {r} : req'[s] = req[s]
  /\ \A x \in Bufs \cap live : x # b => buf'[x] = buf[x]
  /\ \A s \in Held : s # r /\ req[s].rdata # NULL => req[s].rdata # b
  /\ \A d \in Conns \ C : OwnsBody(d) => conn[d].out.sdata # b

\* An entry that stays in the cache keeps its value, a reply under way keeps its body, and
\* a request being read keeps its data.
LEMMA Undisturbed ==
  ASSUME TypeOK, IInv, Texted, NEW C \in SUBSET Conns, NEW r, NEW b, OutOfSight(C, r, b)
  PROVE  /\ \A k \in Keys : cache'[k] = cache[k] => Stored'[k] = Stored[k]
         /\ \A d \in Conns \ C : Replies'[d] = Replies[d]
         /\ \A d \in Conns \ C : conn'[d].state = "READ_EXTRA" =>
                                   buf'[req'[conn'[d].in].rdata] \in Texts
         /\ \A k \in Keys : cache[k] # NULL /\ cache'[k] = cache[k] => req'[cache'[k]].hdr.dlen
<1> USE Pointers
<1>1. Ownership(req)
  BY DEF IInv
<1>2. ASSUME NEW s \in Held, s # r
      PROVE  /\ s \in Reqs /\ req'[s] = req[s]
             /\ req[s].rdata # NULL => buf'[req[s].rdata] = buf[req[s].rdata]
  <2>1. req[s].rdata # NULL => req[s].rdata \in Bufs \cap live /\ req[s].rdata # b
    BY <1>1, <1>2 DEF Ownership, OutOfSight
  <2> QED BY <1>2, <2>1 DEF OutOfSight
<1>3. ASSUME NEW k \in Keys, cache[k] # NULL
      PROVE  cache[k] \in Held /\ cache[k] # r /\ req[cache[k]].rdata # NULL
  BY <1>1, <1>3 DEF OutOfSight, Held, CachedReqs, Ownership, EntryOwnership
<1>4. \A k \in Keys : cache'[k] = cache[k] => Stored'[k] = Stored[k]
  BY <1>2, <1>3 DEF Stored
<1>5. ASSUME NEW d \in Conns \ C, conn[d].state \in Sending, conn[d].out.len
      PROVE  buf'[conn[d].out.sdata] = buf[conn[d].out.sdata]
  <2>1. Open(d)
    BY <1>5 DEF Open, Sending
  <2>2. ConnOwnership(req, d)
    BY <1>1, <2>1 DEF Ownership
  <2>3. CASE conn[d].out.can_free
    <3>1. OwnsBody(d)
      BY <1>5, <2>1, <2>2, <2>3 DEF ConnOwnership, OwnsBody
    <3> QED BY <2>2, <3>1 DEF ConnOwnership, OutOfSight, OwnsBody
  <2>4. CASE ~conn[d].out.can_free
    <3>1. PICK k \in KeysOf[d] : cache[k] # NULL /\ conn[d].out.sdata = req[cache[k]].rdata
      BY <2>2, <2>4 DEF ConnOwnership
    <3>2. k \in Keys
      BY KeysAssumption
    <3> QED BY <1>2, <1>3, <3>1, <3>2
  <2> QED BY <2>3, <2>4
<1>6. \A d \in Conns \ C : Replies'[d] = Replies[d]
  BY <1>5 DEF Replies, Body, OutOfSight
<1>7. ASSUME NEW d \in Conns \ C, conn'[d].state = "READ_EXTRA"
      PROVE  buf'[req'[conn'[d].in].rdata] \in Texts
  <2>1. conn'[d] = conn[d] /\ conn[d].state = "READ_EXTRA"
    BY <1>7 DEF OutOfSight
  <2>2. Open(d) /\ conn[d].in \in Held /\ conn[d].in # r
    BY <2>1 DEF Open, Held, OutOfSight
  <2>3. req[conn[d].in].rdata # NULL
    BY <2>1 DEF IInv, Sections
  <2> QED BY <1>2, <2>1, <2>2, <2>3 DEF Texted
<1>8. \A k \in Keys : cache[k] # NULL /\ cache'[k] = cache[k] => req'[cache'[k]].hdr.dlen
  BY <1>2, <1>3 DEF Texted
<1> QED BY <1>4, <1>6, <1>7, <1>8
-----------------------------------------------------------------------------
(* Steps that answer nothing                                               *)

\* Replies that are sent or dropped, and steps between two replies.
LEMMA Quiet ==
  ASSUME TypeOK, IInv, Texted, NEW C \in SUBSET Conns, NEW r, NEW b, OutOfSight(C, r, b),
         \A c \in C : conn'[c].state \notin Sending,
         \A c \in C : conn'[c].state = "READ_EXTRA" =>
                        buf'[req'[conn'[c].in].rdata] \in Texts,
         cache' = cache, idle_conn_timeout' = idle_conn_timeout, now' = now
  PROVE  Serves
<1>1. /\ \A k \in Keys : Stored'[k] = Stored[k]
      /\ \A d \in Conns \ C : Replies'[d] = Replies[d]
      /\ \A d \in Conns \ C : conn'[d].state = "READ_EXTRA" =>
                                buf'[req'[conn'[d].in].rdata] \in Texts
      /\ \A k \in Keys : cache'[k] # NULL => req'[cache'[k]].hdr.dlen
  BY Undisturbed
<1>2. Stored' = Stored
  BY <1>1 DEF Stored
<1>3. \A c \in C : Replies'[c] = NULL
  BY DEF Replies
<1>4. Replies' = [c \in Conns |-> IF c \in C THEN NULL ELSE Replies[c]]
  BY <1>1, <1>3 DEF Replies
<1>5. Service!Done(C)
  BY <1>2, <1>4 DEF Service!Done
<1>6. Texted'
  BY <1>1 DEF Texted
<1> QED BY <1>5, <1>6 DEF Serves, Service!SNext

\* Disconnections drop replies and nothing else a client can see.
LEMMA DisconnectServes ==
  ASSUME TypeOK, IInv, Texted, NEW C \in SUBSET Conns, disconnect_conn(C), now' = now
  PROVE  Serves
<1>1. /\ \A c \in C : conn'[c] = Closed
      /\ \A d \in Conns \ C : conn'[d] = conn[d]
      /\ req' = req /\ buf' = buf /\ cache' = cache
      /\ idle_conn_timeout' = idle_conn_timeout
  BY DEF disconnect_conn
<1>2. OutOfSight(C, NULL, NULL)
  BY <1>1, Pointers DEF OutOfSight, OwnsBody
<1>3. \A c \in C : conn'[c].state = "CONN_CLOSED"
  BY <1>1 DEF Closed
<1> QED BY <1>1, <1>2, <1>3, Quiet DEF Sending

\* A connection that starts on a request, with a block nobody holds.
LEMMA TakeRequestServes ==
  ASSUME TypeOK, IInv, Texted, NEW c \in Conns, NEW r \in Reqs \ (live \ Frees(c)),
         NEW x, x.state = "READ_HEADER",
         req' = [req EXCEPT ![r] = EmptyRequest], buf' = buf,
         conn' = [conn EXCEPT ![c] = x],
         cache' = cache, idle_conn_timeout' = idle_conn_timeout, now' = now
  PROVE  Serves
<1> USE Pointers
<1>1. Ownership(req) /\ {c} \in SUBSET Conns
  BY DEF IInv
<1>2. /\ \A d \in Conns \ {c} : conn'[d] = conn[d]
      /\ conn'[c] = x
      /\ \A s \in Reqs \ {r} : req'[s] = req[s]
  BY DEF TypeOK
<1>3. r \notin CachedReqs
  <2>1. ASSUME NEW s \in CachedReqs PROVE s \in live /\ s \notin Frees(c)
    BY <1>1, SurvivesOne DEF Ownership, EntryOwnership, CachedReqs
  <2> QED BY <2>1
<1>4. ASSUME NEW d \in Conns \ {c}, Open(d) PROVE conn[d].in # r
  <2>1. conn[d].in \in live
    BY <1>1, <1>4 DEF Ownership, ConnOwnership
  <2>2. conn[d].in \notin Frees(c)
    BY <1>1, <1>4, SurvivesOne
  <2> QED BY <2>1, <2>2
<1>5. OutOfSight({c}, r, NULL)
  BY <1>2, <1>3, <1>4 DEF OutOfSight, OwnsBody
<1>6. \A d \in {c} : conn'[d].state = "READ_HEADER"
  BY <1>2
<1> QED BY <1>1, <1>5, <1>6, Quiet DEF Sending

\* A reply has been sent: the connection is ready for the next request, or closed.
LEMMA InitResourcesServes ==
  ASSUME TypeOK, IInv, Texted, Running', NEW c \in Conns, init_resources(c)
  PROVE  Serves
<1>1. ~Crash("assert")
  BY DEF Crash, Running
<1>2. CASE disconnect_conn({c}) /\ UNCHANGED clocks
  <2>1. {c} \in SUBSET Conns /\ now' = now
    BY <1>2 DEF clocks
  <2> QED BY <1>2, <2>1, DisconnectServes
<1>3. ASSUME NEW r \in Reqs \ (live \ Frees(c)),
             req' = [req EXCEPT ![r] = EmptyRequest], buf' = buf,
             conn' = [conn EXCEPT ![c] = Heard(c, "READ_HEADER", r, NoReply)],
             cache' = cache, idle_conn_timeout' = idle_conn_timeout, now' = now
      PROVE  Serves
  <2> DEFINE x == Heard(c, "READ_HEADER", r, NoReply)
  <2>1. x.state = "READ_HEADER"
    BY DEF Heard
  <2>2. conn' = [conn EXCEPT ![c] = x]
    BY <1>3
  <2> HIDE DEF x
  <2> QED BY <1>3, <2>1, <2>2, TakeRequestServes
<1> QED BY <1>1, <1>2, <1>3 DEF init_resources, clocks

\* A new connection has no reply under way.
LEMMA AcceptServes ==
  ASSUME TypeOK, IInv, Texted, NEW c \in Conns, Accept(c)
  PROVE  Serves
<1>1. idle_conn_timeout' = idle_conn_timeout /\ now' = now
  BY DEF Accept, clocks
<1>2. CASE UNCHANGED <<conn, reg, memory, curr_connections>>
  <2>1. conn' = conn /\ req' = req /\ buf' = buf /\ cache' = cache
    BY <1>2 DEF memory
  <2>2. OutOfSight({}, NULL, NULL)
    BY <2>1, Pointers DEF OutOfSight, OwnsBody
  <2> QED BY <1>1, <2>1, <2>2, Quiet
<1>3. ASSUME NEW r \in Reqs \ live,
             req' = [req EXCEPT ![r] = EmptyRequest],
             conn' = [conn EXCEPT ![c] = [free |-> FALSE, state |-> "READ_HEADER",
                                          in |-> r, out |-> NoReply,
                                          last_heard |-> now]],
             cache' = cache, buf' = buf
      PROVE  Serves
  <2> DEFINE x == [free |-> FALSE, state |-> "READ_HEADER", in |-> r, out |-> NoReply,
                   last_heard |-> now]
  <2>1. x.state = "READ_HEADER"
    OBVIOUS
  <2>2. conn' = [conn EXCEPT ![c] = x] /\ r \in Reqs \ (live \ Frees(c))
    BY <1>3
  <2> HIDE DEF x
  <2> QED BY <1>1, <1>3, <2>1, <2>2, TakeRequestServes
<1> QED BY <1>2, <1>3 DEF Accept

\* A byte read or sent, or the header of a reply with a body sent: no client sees it.
LEMMA MoveServes ==
  ASSUME TypeOK, Texted, NEW c \in Conns, NEW state,
         \/ conn[c].state \in Reading /\ state = conn[c].state
         \/ conn[c].state \in Sending /\ state \in Sending,
         conn' = [conn EXCEPT ![c] = Heard(c, state, conn[c].in, conn[c].out)],
         UNCHANGED <<memory, idle_conn_timeout, clocks>>
  PROVE  Serves
<1>1. /\ req' = req /\ cache' = cache /\ buf' = buf
      /\ idle_conn_timeout' = idle_conn_timeout /\ now' = now
  BY DEF memory, clocks
<1>2. /\ conn'[c].state = state /\ conn'[c].in = conn[c].in /\ conn'[c].out = conn[c].out
      /\ \A d \in Conns \ {c} : conn'[d] = conn[d]
  BY DEF Heard, TypeOK
<1>3. \A d \in Conns : /\ conn'[d].state \in Sending <=> conn[d].state \in Sending
                       /\ conn'[d].out = conn[d].out /\ conn'[d].in = conn[d].in
                       /\ conn'[d].state = "READ_EXTRA" => conn[d].state = "READ_EXTRA"
  BY <1>2 DEF Reading, Sending
<1>4. Stored' = Stored
  BY <1>1 DEF Stored
<1>5. Replies' = Replies
  BY <1>1, <1>3 DEF Replies, Body
<1>6. Texted'
  BY <1>1, <1>3 DEF Texted
<1> QED BY <1>1, <1>4, <1>5, <1>6 DEF Serves, Service!svars
-----------------------------------------------------------------------------
(* Commands, as steps of the service                                       *)

\* Memory m differs from the present one in the request of c and in its data, and in
\* blocks that are not allocated.
Own(c, m) ==
  /\ m \in MemType
  /\ \A s \in Reqs \ {conn[c].in} : m.req[s] = req[s]
  /\ \A b \in Bufs \cap live : b # req[conn[c].in].rdata => m.buf[b] = buf[b]

\* What SET takes for granted of the data of c's request.
Filled(c, m) ==
  LET x == m.req[conn[c].in] IN
  x.rdata # NULL /\ x.rextra # NULL => x.hdr.dlen /\ m.buf[x.rdata] \in Texts

\* Nobody but its connection sees a request that is being read.
LEMMA ReaderOutOfSight ==
  ASSUME TypeOK, IInv, NEW c \in Conns, conn[c].state \in Reading, NEW m, Own(c, m),
         req' = m.req, buf' = m.buf, \A d \in Conns \ {c} : conn'[d] = conn[d]
  PROVE  OutOfSight({c}, conn[c].in, req[conn[c].in].rdata)
<1> DEFINE r == conn[c].in
<1>1. Ownership(req)
  BY DEF IInv
<1>2. Open(c) /\ r \in Held /\ r \notin CachedReqs
  BY <1>1, ReaderApart
<1>3. \A d \in Conns \ {c} : Open(d) => conn[d].in # r
  BY <1>1, <1>2 DEF Ownership
<1>4. \A s \in Held : s # r /\ req[s].rdata # NULL => req[s].rdata # req[r].rdata
  BY <1>1, <1>2 DEF Ownership
<1>5. \A d \in Conns \ {c} : OwnsBody(d) => conn[d].out.sdata # req[r].rdata
  BY <1>1, <1>2 DEF Ownership, ConnOwnership, OwnsBody
<1> QED BY <1>2, <1>3, <1>4, <1>5 DEF OutOfSight, Own

\* add_response answers c as the service does, and changes no value of the store; what it
\* does to the cache is the command's.
LEMMA Answering ==
  ASSUME TypeOK, IInv, Texted, NEW c \in Conns, conn[c].state \in Reading,
         NEW m, Own(c, m), NEW sdata, NEW len, NEW code, NEW can_free,
         add_response(c, m, sdata, len, code, can_free)
  PROVE  /\ Service!Answer(c, m.req[conn[c].in].hdr.op, code,
                           IF len THEN m.buf[sdata] ELSE NULL)
         /\ \A k \in Keys : cache'[k] = cache[k] => Stored'[k] = Stored[k]
         /\ \A d \in Conns : conn'[d].state = "READ_EXTRA" =>
                               buf'[req'[conn'[d].in].rdata] \in Texts
         /\ \A k \in Keys : cache[k] # NULL /\ cache'[k] = cache[k] => req'[cache'[k]].hdr.dlen
<1> DEFINE op == m.req[conn[c].in].hdr.op
           out == Response(op, code, sdata, len, can_free)
<1>1. /\ conn' = [conn EXCEPT ![c] = Heard(c, "SEND_HEADER", conn[c].in, out)]
      /\ req' = m.req /\ buf' = m.buf /\ now' = now
  BY DEF add_response, clocks
<1>2. /\ out.opcode = op /\ out.code = code /\ out.sdata = sdata /\ out.len = len
  BY DEF Response
<1> HIDE DEF op, out
<1>3. /\ conn'[c].state = "SEND_HEADER" /\ conn'[c].out = out
      /\ \A d \in Conns \ {c} : conn'[d] = conn[d]
  BY <1>1 DEF Heard, TypeOK
<1>4. OutOfSight({c}, conn[c].in, req[conn[c].in].rdata)
  BY <1>1, <1>3, ReaderOutOfSight
<1>5. /\ \A k \in Keys : cache'[k] = cache[k] => Stored'[k] = Stored[k]
      /\ \A d \in Conns \ {c} : Replies'[d] = Replies[d]
      /\ \A d \in Conns \ {c} : conn'[d].state = "READ_EXTRA" =>
                                  buf'[req'[conn'[d].in].rdata] \in Texts
      /\ \A k \in Keys : cache[k] # NULL /\ cache'[k] = cache[k] => req'[cache'[k]].hdr.dlen
  BY <1>4, Undisturbed
<1>6. \A d \in Conns : conn'[d].state = "READ_EXTRA" =>
                         buf'[req'[conn'[d].in].rdata] \in Texts
  BY <1>3, <1>5
<1> DEFINE body == IF len THEN m.buf[sdata] ELSE NULL
<1>7. Replies'[c] = [opcode |-> op, code |-> code, body |-> body]
  BY <1>1, <1>2, <1>3 DEF Replies, Body, Sending
<1>8. Replies[c] = NULL
  BY DEF Replies, Reading, Sending
<1> HIDE DEF body
<1>9. Replies' = [Replies EXCEPT ![c] = [opcode |-> op, code |-> code, body |-> body]]
  <2> DEFINE e == [opcode |-> op, code |-> code, body |-> body]
  <2>1. DOMAIN Replies = Conns /\ Replies' = [d \in Conns |-> Replies'[d]]
    BY DEF Replies
  <2>2. Replies'[c] = e /\ \A d \in Conns \ {c} : Replies'[d] = Replies[d]
    BY <1>5, <1>7
  <2> HIDE DEF e
  <2>3. Replies' = [Replies EXCEPT ![c] = e]
    BY <2>1, <2>2
  <2> QED BY <2>3 DEF e
<1>10. Service!Answer(c, op, code, body)
  BY <1>1, <1>8, <1>9 DEF Service!Answer, Service!Reply
<1> QED BY <1>5, <1>6, <1>10 DEF op, body

\* A reply without a body.
LEMMA SendResponseAnswers ==
  ASSUME TypeOK, IInv, Texted, NEW c \in Conns, conn[c].state \in Reading,
         NEW m, Own(c, m), NEW code, send_response(c, m, code)
  PROVE  /\ Service!Answer(c, m.req[conn[c].in].hdr.op, code, NULL)
         /\ \A k \in Keys : cache'[k] = cache[k] => Stored'[k] = Stored[k]
         /\ \A d \in Conns : conn'[d].state = "READ_EXTRA" =>
                               buf'[req'[conn'[d].in].rdata] \in Texts
         /\ \A k \in Keys : cache[k] # NULL /\ cache'[k] = cache[k] => req'[cache'[k]].hdr.dlen
<1>1. add_response(c, m, NULL, FALSE, code, TRUE)
  BY DEF send_response
<1> QED BY <1>1, Answering

\* A refusal changes nothing but the reply.
LEMMA RefusalAnswers ==
  ASSUME TypeOK, IInv, Texted, NEW c \in Conns, conn[c].state \in Reading,
         NEW m, Own(c, m), NEW code, Refuse(c, m, code)
  PROVE  /\ Service!Answer(c, m.req[conn[c].in].hdr.op, code, NULL)
         /\ Stored' = Stored /\ cache' = cache /\ idle_conn_timeout' = idle_conn_timeout
         /\ Texted'
<1>1. send_response(c, m, code) /\ cache' = cache /\ idle_conn_timeout' = idle_conn_timeout
  BY DEF Refuse
<1>2. /\ Service!Answer(c, m.req[conn[c].in].hdr.op, code, NULL)
      /\ \A k \in Keys : cache'[k] = cache[k] => Stored'[k] = Stored[k]
      /\ \A d \in Conns : conn'[d].state = "READ_EXTRA" =>
                            buf'[req'[conn'[d].in].rdata] \in Texts
      /\ \A k \in Keys : cache[k] # NULL /\ cache'[k] = cache[k] => req'[cache'[k]].hdr.dlen
  BY <1>1, SendResponseAnswers
<1>3. Stored' = Stored
  BY <1>1, <1>2 DEF Stored
<1> QED BY <1>1, <1>2, <1>3 DEF Texted

\* The codes of requests that are refused before the cache is looked at.
LEMMA RefuseServes ==
  ASSUME TypeOK, IInv, Texted, NEW c \in Conns, conn[c].state \in Reading,
         NEW m, Own(c, m),
         NEW code \in {"INVALID_PARAM", "INVALID_PARAM_SIZE", "INVALID_COMMAND",
                       "OUT_OF_MEMORY"},
         Refuse(c, m, code)
  PROVE  Serves
<1> DEFINE op == m.req[conn[c].in].hdr.op
<1>1. /\ Service!Answer(c, op, code, NULL)
      /\ Stored' = Stored /\ idle_conn_timeout' = idle_conn_timeout /\ Texted'
  BY RefusalAnswers
<1>2. op \in Service!Opcodes
  <2>1. conn[c].in \in Reqs
    BY ReaderApart DEF IInv
  <2> QED BY <2>1 DEF Own, MemType, ReqType, HeaderType, Opcodes, Service!Opcodes
<1> HIDE DEF op
<1>3. Service!Refuse(c, op)
  BY <1>1 DEF Service!Refuse
<1> QED BY <1>1, <1>2, <1>3 DEF Serves, Service!SNext

\* The entry of a key is its cached request; no entry is the null pointer.
LEMMA EntryStored ==
  ASSUME TypeOK, IInv, NEW k \in Keys
  PROVE  /\ cache[k] = NULL => Stored[k] = NULL
         /\ cache[k] # NULL => /\ Stored[k] # NULL
                               /\ Stored[k].val = buf[req[cache[k]].rdata]
                               /\ Stored[k].till = req[cache[k]].received + req[cache[k]].rextra
<1>1. CASE cache[k] = NULL
  BY <1>1 DEF Stored
<1>2. CASE cache[k] # NULL
  <2> DEFINE x == req[cache[k]]
  <2>1. cache[k] \in Reqs /\ x \in ReqType
    BY <1>2 DEF TypeOK
  <2>2. x.rdata # NULL /\ x.rextra \in Timeouts
    BY <1>2 DEF IInv, Ownership, EntryOwnership
  <2>3. x.rdata \in Bufs /\ x.received \in Int /\ x.rextra \in Int
    BY <2>1, <2>2, TextsAssumption DEF ReqType
  <2>4. buf[x.rdata] \in Texts \cup Nat \cup {STATS, NULL} /\ x.received + x.rextra \in Int
    BY <2>3 DEF TypeOK
  <2>5. Stored[k] = [val |-> buf[x.rdata], till |-> x.received + x.rextra]
    BY <1>2 DEF Stored
  <2> QED BY <1>2, <2>4, <2>5, EntriesAssumption
<1> QED BY <1>1, <1>2

\* The entries of K are removed and nothing else changes in the store.
LEMMA Removing ==
  ASSUME TypeOK, IInv, Texted, NEW c \in Conns, conn[c].state \in Reading,
         NEW m, Own(c, m), NEW code, send_response(c, m, code), NEW K \in SUBSET Keys,
         cache' = [k \in Keys |-> IF k \in K THEN NULL ELSE cache[k]]
  PROVE  /\ Service!Answer(c, m.req[conn[c].in].hdr.op, code, NULL)
         /\ Service!Remove(K) /\ Texted'
<1>1. /\ Service!Answer(c, m.req[conn[c].in].hdr.op, code, NULL)
      /\ \A k \in Keys : cache'[k] = cache[k] => Stored'[k] = Stored[k]
      /\ \A d \in Conns : conn'[d].state = "READ_EXTRA" =>
                            buf'[req'[conn'[d].in].rdata] \in Texts
      /\ \A k \in Keys : cache[k] # NULL /\ cache'[k] = cache[k] => req'[cache'[k]].hdr.dlen
  BY SendResponseAnswers
<1>2. \A k \in Keys : IF k \in K THEN cache'[k] = NULL ELSE cache'[k] = cache[k]
  OBVIOUS
<1>3. \A k \in K : Stored'[k] = NULL
  BY <1>2 DEF Stored
<1>4. Stored' = [k \in Keys |-> IF k \in K THEN NULL ELSE Stored[k]]
  BY <1>1, <1>2, <1>3 DEF Stored
<1>5. Texted'
  BY <1>1, <1>2 DEF Texted
<1> QED BY <1>1, <1>4, <1>5 DEF Service!Remove

\* What is not there is removed by leaving the store as it is.
LEMMA NothingToRemove ==
  ASSUME TypeOK, IInv, NEW k \in Keys, cache[k] = NULL, Stored' = Stored
  PROVE  Service!Remove({k})
<1>1. Stored[k] = NULL
  BY EntryStored
<1>2. Stored = [j \in Keys |-> IF j \in {k} THEN NULL ELSE Stored[j]]
  BY <1>1 DEF Stored
<1> QED BY <1>2 DEF Service!Remove

\* GET answers with the value last stored under the key, unless its time is over.
LEMMA GetServes ==
  ASSUME TypeOK, IInv, Texted, Running', NEW c \in Conns, conn[c].state \in Reading,
         NEW m, Own(c, m), NEW k \in Keys, Get(c, m, k)
  PROVE  Serves
<1> DEFINE cached == m.req[cache[k]]
<1>1. m.req[conn[c].in].hdr.op = "GET" /\ ~Crash("segv") /\ ~Crash("assert")
  BY DEF Get, Crash, Running
<1>2. SUFFICES Service!Get(c, k) /\ Texted'
  BY DEF Serves, Service!SNext
<1>3. CASE cache[k] = NULL /\ Refuse(c, m, "KEY_NOTEXISTS")
  <2>1. /\ Service!Answer(c, "GET", "KEY_NOTEXISTS", NULL)
        /\ Stored' = Stored /\ idle_conn_timeout' = idle_conn_timeout /\ Texted'
    BY <1>1, <1>3, RefusalAnswers
  <2>2. ~Service!Fresh(k)
    BY <1>3, EntryStored DEF Service!Fresh
  <2>3. Service!Remove({k})
    BY <1>3, <2>1, NothingToRemove
  <2> QED BY <2>1, <2>2, <2>3 DEF Service!Get
<1>4. ASSUME cache[k] # NULL
      PROVE  /\ cached = req[cache[k]] /\ cached.rdata = req[cache[k]].rdata
             /\ cached.hdr.dlen /\ cached.rextra \in Timeouts
             /\ m.buf[cached.rdata] = Stored[k].val
             /\ \A val \in Lifetimes(cached.rextra) :
                  /\ val = cached.rextra
                  /\ Expired(cached, val) <=> ~Service!Fresh(k)
  <2>1. Ownership(req)
    BY DEF IInv
  <2>2. conn[c].in \in Held /\ cache[k] # conn[c].in
    BY <2>1, ReaderApart
  <2>3. cache[k] \in Reqs /\ cache[k] \in Held
    BY <1>4, Pointers DEF Held, CachedReqs
  <2>4. cached = req[cache[k]]
    BY <2>2, <2>3 DEF Own
  <2>5. req[cache[k]].rdata # NULL /\ req[cache[k]].rextra \in Timeouts
    BY <1>4, <2>1 DEF Ownership, EntryOwnership
  <2>6. req[cache[k]].rdata \in Bufs \cap live /\ req[cache[k]].rdata # req[conn[c].in].rdata
    BY <2>1, <2>2, <2>3, <2>5, Pointers DEF Ownership
  <2>7. m.buf[cached.rdata] = Stored[k].val
    BY <1>4, <2>4, <2>6, EntryStored DEF Own
  <2>8. cached.hdr.dlen
    BY <1>4, <2>4 DEF Texted
  <2> HIDE DEF cached
  <2>9. Lifetimes(cached.rextra) = {cached.rextra}
    BY <2>4, <2>5, TextsAssumption, BlocksAssumption DEF Lifetimes
  <2>10. now \in Int /\ cached.received \in Int /\ cached.rextra \in Int
    BY <2>3, <2>4, <2>5, TextsAssumption DEF TypeOK, ReqType
  <2>11. Service!Fresh(k) <=> now <= cached.received + cached.rextra
    BY <1>4, <2>4, EntryStored DEF Service!Fresh
  <2>12. Expired(cached, cached.rextra) <=> ~Service!Fresh(k)
    BY <2>10, <2>11 DEF Expired
  <2> QED BY <2>4, <2>5, <2>7, <2>8, <2>9, <2>12
<1>5. ASSUME cache[k] # NULL, NEW val \in Lifetimes(cached.rextra), ~Expired(cached, val),
             add_response(c, m, cached.rdata, cached.hdr.dlen, "SUCCESS", FALSE),
             cache' = cache, idle_conn_timeout' = idle_conn_timeout
      PROVE  Service!Get(c, k) /\ Texted'
  <2>1. /\ Service!Answer(c, "GET", "SUCCESS",
                          IF cached.hdr.dlen THEN m.buf[cached.rdata] ELSE NULL)
        /\ \A j \in Keys : cache'[j] = cache[j] => Stored'[j] = Stored[j]
        /\ \A d \in Conns : conn'[d].state = "READ_EXTRA" =>
                              buf'[req'[conn'[d].in].rdata] \in Texts
        /\ \A j \in Keys : cache[j] # NULL /\ cache'[j] = cache[j] => req'[cache'[j]].hdr.dlen
    <3> DEFINE sdata == cached.rdata
               len == cached.hdr.dlen
    <3>1. add_response(c, m, sdata, len, "SUCCESS", FALSE)
      BY <1>5
    <3> HIDE DEF sdata, len
    <3>2. /\ Service!Answer(c, m.req[conn[c].in].hdr.op, "SUCCESS",
                            IF len THEN m.buf[sdata] ELSE NULL)
          /\ \A j \in Keys : cache'[j] = cache[j] => Stored'[j] = Stored[j]
          /\ \A d \in Conns : conn'[d].state = "READ_EXTRA" =>
                                buf'[req'[conn'[d].in].rdata] \in Texts
          /\ \A j \in Keys : cache[j] # NULL /\ cache'[j] = cache[j] => req'[cache'[j]].hdr.dlen
      BY <3>1, Answering
    <3> QED BY <1>1, <3>2 DEF sdata, len
  <2>2. Service!Answer(c, "GET", "SUCCESS", Stored[k].val) /\ Service!Fresh(k)
    BY <1>4, <1>5, <2>1
  <2>3. Stored' = Stored
    BY <1>5, <2>1 DEF Stored
  <2>4. Texted'
    BY <1>5, <2>1 DEF Texted
  <2> QED BY <1>5, <2>2, <2>3, <2>4 DEF Service!Get
<1>6. ASSUME cache[k] # NULL, NEW val \in Lifetimes(cached.rextra), Expired(cached, val),
             Delete(m, {k}), send_response(c, m, "KEY_NOTEXISTS")
      PROVE  Service!Get(c, k) /\ Texted'
  <2>1. /\ {k} \in SUBSET Keys
        /\ cache' = [j \in Keys |-> IF j \in {k} THEN NULL ELSE cache[j]]
        /\ idle_conn_timeout' = idle_conn_timeout
    BY <1>6 DEF Delete
  <2>2. /\ Service!Answer(c, "GET", "KEY_NOTEXISTS", NULL)
        /\ Service!Remove({k}) /\ Texted'
    BY <1>1, <1>6, <2>1, Removing
  <2>3. ~Service!Fresh(k)
    BY <1>4, <1>6
  <2> QED BY <2>1, <2>2, <2>3 DEF Service!Get
<1> QED BY <1>1, <1>3, <1>5, <1>6 DEF Get

\* DELETE says whether there was an entry, and leaves none.
LEMMA DeleteKeyServes ==
  ASSUME TypeOK, IInv, Texted, Running', NEW c \in Conns, conn[c].state \in Reading,
         NEW m, Own(c, m), NEW k \in Keys, DeleteKey(c, m, k)
  PROVE  Serves
<1>1. m.req[conn[c].in].hdr.op = "DELETE" /\ ~Crash("assert")
  BY DEF DeleteKey, Crash, Running
<1>2. SUFFICES Service!Delete(c, k) /\ Texted'
  BY DEF Serves, Service!SNext
<1>3. CASE cache[k] = NULL /\ Refuse(c, m, "KEY_NOTEXISTS")
  <2>1. /\ Service!Answer(c, "DELETE", "KEY_NOTEXISTS", NULL)
        /\ Stored' = Stored /\ idle_conn_timeout' = idle_conn_timeout /\ Texted'
    BY <1>1, <1>3, RefusalAnswers
  <2>2. Service!Remove({k}) /\ Stored[k] = NULL
    BY <1>3, <2>1, NothingToRemove, EntryStored
  <2> QED BY <2>1, <2>2 DEF Service!Delete
<1>4. CASE cache[k] # NULL /\ Delete(m, {k}) /\ send_response(c, m, "SUCCESS")
  <2>1. /\ {k} \in SUBSET Keys
        /\ cache' = [j \in Keys |-> IF j \in {k} THEN NULL ELSE cache[j]]
        /\ idle_conn_timeout' = idle_conn_timeout
    BY <1>4 DEF Delete
  <2>2. /\ Service!Answer(c, "DELETE", "SUCCESS", NULL)
        /\ Service!Remove({k}) /\ Texted'
    BY <1>1, <1>4, <2>1, Removing
  <2>3. Stored[k] # NULL
    BY <1>4, EntryStored
  <2> QED BY <2>1, <2>2, <2>3 DEF Service!Delete
<1> QED BY <1>1, <1>3, <1>4 DEF DeleteKey

\* FLUSH_ALL leaves no entry.
LEMMA FlushAllServes ==
  ASSUME TypeOK, IInv, Texted, Running', NEW c \in Conns, conn[c].state \in Reading,
         NEW m, Own(c, m), FlushAll(c, m)
  PROVE  Serves
<1>1. /\ m.req[conn[c].in].hdr.op = "FLUSH_ALL"
      /\ Delete(m, Keys) /\ send_response(c, m, "SUCCESS")
  BY DEF FlushAll, Crash, Running
<1>2. /\ Keys \in SUBSET Keys
      /\ cache' = [j \in Keys |-> IF j \in Keys THEN NULL ELSE cache[j]]
      /\ idle_conn_timeout' = idle_conn_timeout
  BY <1>1 DEF Delete
<1>3. /\ Service!Answer(c, "FLUSH_ALL", "SUCCESS", NULL)
      /\ Service!Remove(Keys) /\ Texted'
  BY <1>1, <1>2, Removing
<1>4. Service!FlushAll(c)
  BY <1>2, <1>3 DEF Service!FlushAll
<1> QED BY <1>3, <1>4 DEF Serves, Service!SNext

\* SET stores the value with its lifetime from now on, and changes no other entry.
LEMMA SetServes ==
  ASSUME TypeOK, Disciplined, IInv, Texted, Running', NEW c \in Conns,
         conn[c].state \in Reading, NEW m, Own(c, m), Filled(c, m),
         m.req[conn[c].in].received = now, Set(c, m)
  PROVE  Serves
<1> DEFINE r == conn[c].in
           kept == Keep(m, r)
<1>1. m.req[r].hdr.op = "SET" /\ ~Crash("segv") /\ ~Crash("assert") /\ "grow" \notin FailSites
  BY DEF Set, Crash, Running, Disciplined
<1>2. CASE Refuse(c, m, "INVALID_PARAM") \/ Refuse(c, m, "OUT_OF_MEMORY")
  BY <1>2, RefuseServes
<1>3. ASSUME NEW k \in Keys, m.req[r].rdata # NULL, m.req[r].rextra \in Timeouts,
             cache' = [cache EXCEPT ![k] = r], send_response(c, kept, "SUCCESS"),
             idle_conn_timeout' = idle_conn_timeout
      PROVE  Serves
  <2>1. r \in Reqs /\ r # NULL
    BY ReaderApart, BlocksAssumption DEF IInv
  <2>2. m.req \in [Reqs -> ReqType] /\ m.req[r] \in ReqType /\ m \in MemType
    BY <2>1 DEF Own, MemType
  <2>3. kept \in MemType
    BY <2>1, <2>2, WriteType DEF Keep
  <2>4. /\ kept.buf = m.buf
        /\ \A s \in Reqs \ {r} : kept.req[s] = m.req[s]
        /\ kept.req[r] = [m.req[r] EXCEPT !.can_free = FALSE]
    BY <2>1, <2>2 DEF Keep, MemType
  <2> HIDE DEF kept
  <2>5. Own(c, kept)
    BY <2>3, <2>4 DEF Own
  <2>6. /\ kept.req[r].hdr = m.req[r].hdr /\ kept.req[r].rdata = m.req[r].rdata
        /\ kept.req[r].rextra = m.req[r].rextra /\ kept.req[r].received = now
    BY <2>2, <2>4 DEF ReqType
  <2>7. /\ Service!Answer(c, "SET", "SUCCESS", NULL)
        /\ \A j \in Keys : cache'[j] = cache[j] => Stored'[j] = Stored[j]
        /\ \A d \in Conns : conn'[d].state = "READ_EXTRA" =>
                              buf'[req'[conn'[d].in].rdata] \in Texts
        /\ \A j \in Keys : cache[j] # NULL /\ cache'[j] = cache[j] => req'[cache'[j]].hdr.dlen
    BY <1>1, <1>3, <2>5, <2>6, SendResponseAnswers
  <2>8. req' = kept.req /\ buf' = m.buf
    BY <1>3, <2>4 DEF send_response, add_response
  <2>9. cache'[k] = r /\ \A j \in Keys \ {k} : cache'[j] = cache[j]
    BY <1>3 DEF TypeOK
  <2> DEFINE v == m.buf[m.req[r].rdata]
             t == m.req[r].rextra
  <2>10. v \in Texts /\ t \in Timeouts /\ m.req[r].hdr.dlen
    <3>1. m.req[r].rextra # NULL
      BY <1>3, TextsAssumption, BlocksAssumption
    <3> QED BY <1>3, <3>1 DEF Filled
  <2>11. Stored'[k] = [val |-> v, till |-> now + t]
    BY <2>1, <2>6, <2>8, <2>9 DEF Stored
  <2> HIDE DEF v, t
  <2>12. Stored' = [Stored EXCEPT ![k] = [val |-> v, till |-> now + t]]
    <3> DEFINE e == [val |-> v, till |-> now + t]
    <3>1. DOMAIN Stored = Keys /\ Stored' = [j \in Keys |-> Stored'[j]]
      BY DEF Stored
    <3>2. \A j \in Keys : Stored'[j] = IF j = k THEN e ELSE Stored[j]
      BY <2>7, <2>9, <2>11
    <3> HIDE DEF e
    <3>3. Stored' = [Stored EXCEPT ![k] = e]
      BY <3>1, <3>2
    <3> QED BY <3>3 DEF e
  <2>13. Service!Set(c, k, v, t)
    BY <1>3, <2>7, <2>12 DEF Service!Set
  <2>14. Texted'
    <3>1. req'[r].hdr.dlen
      BY <2>6, <2>8, <2>10
    <3>2. ASSUME NEW j \in Keys, cache'[j] # NULL PROVE req'[cache'[j]].hdr.dlen
      <4>1. CASE j = k
        BY <2>9, <3>1, <4>1
      <4>2. CASE j # k
        BY <2>7, <2>9, <3>2, <4>2
      <4> QED BY <4>1, <4>2
    <3> QED BY <2>7, <3>2 DEF Texted
  <2> QED BY <2>10, <2>13, <2>14 DEF Serves, Service!SNext
<1> QED BY <1>1, <1>2, <1>3 DEF Set

\* CHG_SETTING sets the one setting, and nothing else.
LEMMA ChgSettingServes ==
  ASSUME TypeOK, IInv, Texted, NEW c \in Conns, conn[c].state \in Reading,
         NEW m, Own(c, m), ChgSetting(c, m)
  PROVE  Serves
<1>1. CASE Refuse(c, m, "INVALID_PARAM")
  BY <1>1, RefuseServes
<1>2. ASSUME NEW t \in Timeouts, idle_conn_timeout' = t, send_response(c, m, "SUCCESS"),
             cache' = cache
      PROVE  Serves
  <2>1. m.req[conn[c].in].hdr.op = "CHG_SETTING"
    BY DEF ChgSetting
  <2>2. /\ Service!Answer(c, "CHG_SETTING", "SUCCESS", NULL)
        /\ \A k \in Keys : cache'[k] = cache[k] => Stored'[k] = Stored[k]
        /\ \A d \in Conns : conn'[d].state = "READ_EXTRA" =>
                              buf'[req'[conn'[d].in].rdata] \in Texts
        /\ \A k \in Keys : cache[k] # NULL /\ cache'[k] = cache[k] => req'[cache'[k]].hdr.dlen
    BY <1>2, <2>1, SendResponseAnswers
  <2>3. Stored' = Stored
    BY <1>2, <2>2 DEF Stored
  <2>4. Service!ChgSetting(c, t)
    BY <1>2, <2>2, <2>3 DEF Service!ChgSetting
  <2>5. Texted'
    BY <1>2, <2>2 DEF Texted
  <2> QED BY <2>4, <2>5 DEF Serves, Service!SNext
<1> QED BY <1>1, <1>2 DEF ChgSetting

\* A body made for the reply is in a block nobody else has, and the reply carries it.
LEMMA ProduceAnswers ==
  ASSUME TypeOK, IInv, Texted, NEW c \in Conns, conn[c].state \in Reading,
         NEW m, Own(c, m), NEW text \in BufType, Produce(c, m, text)
  PROVE  \/ Serves
         \/ /\ Service!Answer(c, m.req[conn[c].in].hdr.op, "SUCCESS", text)
            /\ Stored' = Stored /\ idle_conn_timeout' = idle_conn_timeout /\ Texted'
<1>1. CASE Refuse(c, m, "OUT_OF_MEMORY")
  BY <1>1, RefuseServes
<1>2. ASSUME NEW b \in Bufs \ live, cache' = cache, idle_conn_timeout' = idle_conn_timeout,
             add_response(c, [m EXCEPT !.buf[b] = text], b, TRUE, "SUCCESS", TRUE)
      PROVE  /\ Service!Answer(c, m.req[conn[c].in].hdr.op, "SUCCESS", text)
             /\ Stored' = Stored /\ Texted'
  <2> DEFINE p == [m EXCEPT !.buf[b] = text]
  <2>1. m \in MemType /\ conn[c].in \in Reqs
    BY ReaderApart DEF Own, IInv
  <2>2. p \in MemType
    BY <2>1, WriteType
  <2>3. p.req = m.req /\ p.buf[b] = text /\ \A x \in Bufs \ {b} : p.buf[x] = m.buf[x]
    BY <2>1 DEF MemType
  <2>4. add_response(c, p, b, TRUE, "SUCCESS", TRUE)
    BY <1>2
  <2> HIDE DEF p
  <2>5. Own(c, p)
    BY <2>2, <2>3 DEF Own
  <2>6. /\ Service!Answer(c, p.req[conn[c].in].hdr.op, "SUCCESS", IF TRUE THEN p.buf[b] ELSE NULL)
        /\ \A k \in Keys : cache'[k] = cache[k] => Stored'[k] = Stored[k]
        /\ \A d \in Conns : conn'[d].state = "READ_EXTRA" =>
                              buf'[req'[conn'[d].in].rdata] \in Texts
        /\ \A k \in Keys : cache[k] # NULL /\ cache'[k] = cache[k] => req'[cache'[k]].hdr.dlen
    BY <2>4, <2>5, Answering
  <2>7. Service!Answer(c, m.req[conn[c].in].hdr.op, "SUCCESS", text)
    BY <2>3, <2>6
  <2>8. Stored' = Stored
    BY <1>2, <2>6 DEF Stored
  <2> QED BY <1>2, <2>6, <2>7, <2>8 DEF Texted
<1> QED BY <1>1, <1>2 DEF Produce

\* A request that is carried out is one step of the service.
LEMMA ExecuteServes ==
  ASSUME TypeOK, Disciplined, IInv, Texted, Running', NEW c \in Conns,
         conn[c].state \in Reading, NEW read, Own(c, read), Filled(c, read),
         Ready(c, read.req[conn[c].in]), execute_cmd(c, read)
  PROVE  Serves
<1> DEFINE r == conn[c].in
           m == [read EXCEPT !.req[r].received = now]
<1>1. r \in Reqs /\ read \in MemType /\ now \in Int
  BY ReaderApart DEF Own, IInv, TypeOK
<1>2. m \in MemType
  BY <1>1, WriteType
<1>3. /\ m.buf = read.buf
      /\ \A s \in Reqs \ {r} : m.req[s] = read.req[s]
      /\ m.req[r] = [read.req[r] EXCEPT !.received = now]
  BY <1>1 DEF MemType
<1>4. read.req[r] \in ReqType
  BY <1>1 DEF MemType
<1>5. \/ Keyless(c, m)
      \/ \E k \in Keys : m.req[r].rkey = k /\ (Get(c, m, k) \/ DeleteKey(c, m, k))
      \/ Set(c, m)
      \/ FlushAll(c, m)
      \/ ChgSetting(c, m)
      \/ GetSetting(c, m)
      \/ GetStats(c, m)
      \/ Unknown(c, m)
  BY DEF execute_cmd
<1> HIDE DEF m
<1>6. /\ m.req[r].rdata = read.req[r].rdata /\ m.req[r].hdr = read.req[r].hdr
      /\ m.req[r].rkey = read.req[r].rkey /\ m.req[r].rextra = read.req[r].rextra
      /\ m.req[r].received = now
  BY <1>3, <1>4 DEF ReqType
<1>7. Own(c, m) /\ Filled(c, m) /\ Ready(c, m.req[r])
  BY <1>2, <1>3, <1>6 DEF Own, Filled, Ready
<1>8. ~Keyless(c, m)
  BY <1>7 DEF Keyless, Ready
<1>9. ASSUME NEW k \in Keys, Get(c, m, k) \/ DeleteKey(c, m, k) PROVE Serves
  BY <1>7, <1>9, GetServes, DeleteKeyServes
<1>10. CASE Set(c, m)
  BY <1>6, <1>7, <1>10, SetServes
<1>11. CASE FlushAll(c, m)
  BY <1>7, <1>11, FlushAllServes
<1>12. CASE ChgSetting(c, m)
  BY <1>7, <1>12, ChgSettingServes
<1>13. CASE GetSetting(c, m)
  <2>1. m.req[r].hdr.op = "GET_SETTING" /\ ~Crash("segv")
    BY <1>13 DEF GetSetting, Crash, Running
  <2>2. CASE Refuse(c, m, "INVALID_PARAM")
    BY <1>7, <2>2, RefuseServes
  <2>3. CASE Produce(c, m, idle_conn_timeout)
    <3>1. idle_conn_timeout \in BufType
      BY DEF TypeOK, BufType
    <3>2. \/ Serves
          \/ /\ Service!Answer(c, "GET_SETTING", "SUCCESS", idle_conn_timeout)
             /\ Stored' = Stored /\ idle_conn_timeout' = idle_conn_timeout /\ Texted'
      BY <1>7, <2>1, <2>3, <3>1, ProduceAnswers
    <3> QED BY <3>2 DEF Serves, Service!SNext, Service!GetSetting
  <2> QED BY <1>13, <2>1, <2>2, <2>3 DEF GetSetting
<1>14. CASE GetStats(c, m)
  <2>1. m.req[r].hdr.op = "GET_STATS" /\ Produce(c, m, STATS) /\ STATS \in BufType
    BY <1>14 DEF GetStats, BufType
  <2>2. \/ Serves
        \/ /\ Service!Answer(c, "GET_STATS", "SUCCESS", STATS)
           /\ Stored' = Stored /\ idle_conn_timeout' = idle_conn_timeout /\ Texted'
    BY <1>7, <2>1, ProduceAnswers
  <2> QED BY <2>2 DEF Serves, Service!SNext, Service!GetStats
<1>15. CASE Unknown(c, m)
  BY <1>7, <1>15, RefuseServes DEF Unknown
<1> QED BY <1>5, <1>8, <1>9, <1>10, <1>11, <1>12, <1>13, <1>14, <1>15
-----------------------------------------------------------------------------
(* Steps that read                                                         *)

\* A section has been read and the next one is awaited: no client sees it.
LEMMA AwaitServes ==
  ASSUME TypeOK, IInv, Texted, NEW c \in Conns, conn[c].state \in Reading,
         NEW m, Own(c, m), NEW state \in Reading, Await(c, m, state),
         state = "READ_EXTRA" => m.buf[m.req[conn[c].in].rdata] \in Texts
  PROVE  Serves
<1>1. /\ req' = m.req /\ buf' = m.buf /\ cache' = cache
      /\ idle_conn_timeout' = idle_conn_timeout /\ now' = now
  BY DEF Await, clocks
<1>2. /\ conn'[c].state = state /\ conn'[c].in = conn[c].in
      /\ \A d \in Conns \ {c} : conn'[d] = conn[d]
  BY DEF Await, Heard, TypeOK
<1>3. OutOfSight({c}, conn[c].in, req[conn[c].in].rdata)
  BY <1>1, <1>2, ReaderOutOfSight
<1>4. \A d \in {c} : conn'[d].state \notin Sending
  BY <1>2 DEF Reading, Sending
<1>5. \A d \in {c} : conn'[d].state = "READ_EXTRA" => buf'[req'[conn'[d].in].rdata] \in Texts
  BY <1>1, <1>2
<1>6. {c} \in SUBSET Conns
  OBVIOUS
<1> QED BY <1>1, <1>3, <1>4, <1>5, <1>6, Quiet

\* The header has been read.
LEMMA ReadHeaderServes ==
  ASSUME TypeOK, Disciplined, IInv, Texted, Running', NEW c \in Conns, ReadHeader(c)
  PROVE  Serves
<1> DEFINE r == conn[c].in
<1>1. conn[c].state = "READ_HEADER" /\ conn[c].state \in Reading
  BY DEF ReadHeader, OnEvent, Reading
<1>2. r \in Reqs /\ Memory \in MemType /\ Memory.req = req /\ Memory.buf = buf
  BY <1>1, ReaderApart, MemoryType DEF IInv, Memory
<1>3. req[r].rkey = NULL /\ req[r].rdata = NULL /\ req[r].rextra = NULL
  BY <1>1 DEF IInv, Sections, Reading
<1>4. PICK h \in Headers :
        LET m == [Memory EXCEPT !.req[r].hdr = h] IN
        \/ ~h.fits /\ Refuse(c, m, "INVALID_PARAM_SIZE")
        \/ h.fits /\ ~h.klen /\ execute_cmd(c, m)
        \/ /\ h.fits /\ h.klen
           /\ \/ /\ Await(c, [m EXCEPT !.req[r].rkey = BLANK], "READ_KEY")
                 /\ UNCHANGED live
              \/ OutOfMemory(c, m, "rkey")
  BY DEF ReadHeader
<1> DEFINE m == [Memory EXCEPT !.req[r].hdr = h]
           p == [m EXCEPT !.req[r].rkey = BLANK]
<1>5. m \in MemType
  BY <1>2, HeadersAssumption, WriteType
<1>6. p \in MemType
  BY <1>2, <1>5, WriteType
<1>7. req[r] \in ReqType
  BY <1>2 DEF TypeOK
<1>8. /\ m.buf = buf /\ \A s \in Reqs \ {r} : m.req[s] = req[s]
      /\ m.req[r] = [req[r] EXCEPT !.hdr = h]
  BY <1>2 DEF MemType
<1>9. p.buf = buf /\ \A s \in Reqs \ {r} : p.req[s] = req[s]
  <2> HIDE DEF m
  <2> QED BY <1>2, <1>5, <1>8 DEF MemType
<1>10. \/ Refuse(c, m, "INVALID_PARAM_SIZE")
       \/ ~h.klen /\ execute_cmd(c, m)
       \/ Await(c, p, "READ_KEY")
       \/ Refuse(c, m, "OUT_OF_MEMORY")
  BY <1>4 DEF OutOfMemory
<1> HIDE DEF m, p
<1>11. /\ m.req[r].hdr = h /\ m.req[r].rkey = NULL /\ m.req[r].rdata = NULL
       /\ m.req[r].rextra = NULL
  BY <1>3, <1>7, <1>8 DEF ReqType
<1>12. Own(c, m) /\ Own(c, p) /\ Filled(c, m)
  BY <1>5, <1>6, <1>8, <1>9, <1>11 DEF Own, Filled
<1>13. ~h.klen => Ready(c, m.req[r])
  BY <1>11 DEF Ready, Disciplined, WellFormed
<1>14. CASE Refuse(c, m, "INVALID_PARAM_SIZE") \/ Refuse(c, m, "OUT_OF_MEMORY")
  BY <1>1, <1>12, <1>14, RefuseServes
<1>15. CASE ~h.klen /\ execute_cmd(c, m)
  BY <1>1, <1>12, <1>13, <1>15, ExecuteServes
<1>16. CASE Await(c, p, "READ_KEY")
  <2>1. "READ_KEY" \in Reading
    BY DEF Reading
  <2> QED BY <1>1, <1>12, <1>16, <2>1, AwaitServes
<1> QED BY <1>10, <1>14, <1>15, <1>16

\* The key has been read.
LEMMA ReadKeyServes ==
  ASSUME TypeOK, Disciplined, IInv, Texted, Running', NEW c \in Conns, ReadKey(c)
  PROVE  Serves
<1> DEFINE r == conn[c].in
<1>1. conn[c].state = "READ_KEY" /\ conn[c].state \in Reading
  BY DEF ReadKey, OnEvent, Reading
<1>2. r \in Reqs /\ Memory \in MemType /\ Memory.req = req /\ Memory.buf = buf
  BY <1>1, ReaderApart, MemoryType DEF IInv, Memory
<1>3. /\ req[r].hdr \in Headers /\ req[r].hdr.klen /\ req[r].rkey # NULL
      /\ req[r].rdata = NULL /\ req[r].rextra = NULL
  BY <1>1 DEF IInv, Sections, Reading
<1>4. PICK k \in KeysOf[c] :
        LET m == [Memory EXCEPT !.req[r].rkey = k] IN
        \/ ~req[r].hdr.dlen /\ execute_cmd(c, m)
        \/ /\ req[r].hdr.dlen
           /\ \/ \E b \in Bufs \ live :
                   /\ Await(c, [m EXCEPT !.req[r].rdata = b], "READ_DATA")
                   /\ live' = live \cup {b}
              \/ Bufs \subseteq live /\ Refuse(c, [m EXCEPT !.req[r].rdata = NULL], "OUT_OF_MEMORY")
  BY <1>3 DEF ReadKey
<1> DEFINE m == [Memory EXCEPT !.req[r].rkey = k]
           p(b) == [m EXCEPT !.req[r].rdata = b]
<1>5. k # NULL /\ k \in Keys
  BY OwnKeys
<1>6. m \in MemType
  BY <1>2, <1>5, WriteType
<1>7. req[r] \in ReqType
  BY <1>2 DEF TypeOK
<1>8. /\ m.buf = buf /\ \A s \in Reqs \ {r} : m.req[s] = req[s]
      /\ m.req[r] = [req[r] EXCEPT !.rkey = k]
  BY <1>2 DEF MemType
<1>9. \/ ~req[r].hdr.dlen /\ execute_cmd(c, m)
      \/ \E b \in Bufs \ live : Await(c, p(b), "READ_DATA")
      \/ Refuse(c, p(NULL), "OUT_OF_MEMORY")
  BY <1>4
<1> HIDE DEF m
<1>10. ASSUME NEW b \in Bufs \cup {NULL} PROVE Own(c, p(b))
  <2>1. p(b) \in MemType
    BY <1>2, <1>6, WriteType
  <2>2. p(b).buf = buf /\ \A s \in Reqs \ {r} : p(b).req[s] = req[s]
    BY <1>2, <1>6, <1>8 DEF MemType
  <2> QED BY <2>1, <2>2 DEF Own
<1> HIDE DEF p
<1>11. /\ m.req[r].hdr = req[r].hdr /\ m.req[r].rkey = k /\ m.req[r].rdata = NULL
       /\ m.req[r].rextra = NULL
  BY <1>3, <1>7, <1>8 DEF ReqType
<1>12. Own(c, m) /\ Filled(c, m) /\ Ready(c, m.req[r])
  BY <1>3, <1>5, <1>6, <1>8, <1>11 DEF Own, Filled, Ready
<1>13. CASE execute_cmd(c, m)
  BY <1>1, <1>12, <1>13, ExecuteServes
<1>14. CASE Refuse(c, p(NULL), "OUT_OF_MEMORY")
  BY <1>1, <1>10, <1>14, RefuseServes
<1>15. ASSUME NEW b \in Bufs \ live, Await(c, p(b), "READ_DATA") PROVE Serves
  <2>1. "READ_DATA" \in Reading /\ Own(c, p(b))
    BY <1>10 DEF Reading
  <2> QED BY <1>1, <1>15, <2>1, AwaitServes
<1> QED BY <1>9, <1>13, <1>14, <1>15

\* The data has been read.
LEMMA ReadDataServes ==
  ASSUME TypeOK, Disciplined, IInv, Texted, Running', NEW c \in Conns, ReadData(c)
  PROVE  Serves
<1> DEFINE r == conn[c].in
<1>1. conn[c].state = "READ_DATA" /\ conn[c].state \in Reading
  BY DEF ReadData, OnEvent, Reading
<1>2. r \in Reqs /\ Memory \in MemType /\ Memory.req = req /\ Memory.buf = buf
  BY <1>1, ReaderApart, MemoryType DEF IInv, Memory
<1>3. /\ req[r].hdr \in Headers /\ req[r].hdr.klen /\ req[r].rkey \in KeysOf[c]
      /\ req[r].rkey # NULL /\ req[r].rdata # NULL /\ req[r].hdr.dlen
      /\ req[r].rextra = NULL
  BY <1>1 DEF IInv, Sections, Reading
<1>4. PICK text \in Texts :
        LET m == [Memory EXCEPT !.buf[req[r].rdata] = text] IN
        \/ ~req[r].hdr.elen /\ execute_cmd(c, m)
        \/ Await(c, [m EXCEPT !.req[r].rextra = BLANK], "READ_EXTRA") /\ live' = live
        \/ Refuse(c, m, "OUT_OF_MEMORY")
  BY <1>3 DEF ReadData, OutOfMemory
<1> DEFINE m == [Memory EXCEPT !.buf[req[r].rdata] = text]
           p == [m EXCEPT !.req[r].rextra = BLANK]
<1>5. req[r] \in ReqType /\ req[r].rdata \in Bufs
  BY <1>2, <1>3 DEF TypeOK, ReqType
<1>6. m \in MemType
  BY <1>2, <1>5, WriteType DEF BufType
<1>7. /\ m.req = req /\ m.buf[req[r].rdata] = text
      /\ \A x \in Bufs \ {req[r].rdata} : m.buf[x] = buf[x]
  BY <1>2, <1>5 DEF MemType
<1>8. \/ ~req[r].hdr.elen /\ execute_cmd(c, m)
      \/ Await(c, p, "READ_EXTRA")
      \/ Refuse(c, m, "OUT_OF_MEMORY")
  BY <1>4
<1> HIDE DEF m
<1>9. /\ p \in MemType /\ p.buf = m.buf
      /\ \A s \in Reqs \ {r} : p.req[s] = req[s]
      /\ p.req[r] = [req[r] EXCEPT !.rextra = BLANK]
  <2>1. p \in MemType
    BY <1>2, <1>6, WriteType
  <2> QED BY <1>2, <1>6, <1>7, <2>1 DEF MemType
<1> HIDE DEF p
<1>10. Own(c, m) /\ Own(c, p) /\ Filled(c, m)
  BY <1>3, <1>6, <1>7, <1>9 DEF Own, Filled
<1>11. CASE Refuse(c, m, "OUT_OF_MEMORY")
  BY <1>1, <1>10, <1>11, RefuseServes
<1>12. CASE ~req[r].hdr.elen /\ execute_cmd(c, m)
  <2>1. Ready(c, m.req[r])
    BY <1>3, <1>7, <1>12 DEF Ready, Disciplined, WellFormed
  <2> QED BY <1>1, <1>10, <1>12, <2>1, ExecuteServes
<1>13. CASE Await(c, p, "READ_EXTRA")
  <2>1. p.req[r].rdata = req[r].rdata
    BY <1>5, <1>9 DEF ReqType
  <2>2. "READ_EXTRA" \in Reading /\ p.buf[p.req[r].rdata] \in Texts
    BY <1>4, <1>7, <1>9, <2>1 DEF Reading
  <2> QED BY <1>1, <1>10, <1>13, <2>2, AwaitServes
<1> QED BY <1>8, <1>11, <1>12, <1>13

\* The extra has been read.
LEMMA ReadExtraServes ==
  ASSUME TypeOK, Disciplined, IInv, Texted, Running', NEW c \in Conns, ReadExtra(c)
  PROVE  Serves
<1> DEFINE r == conn[c].in
<1>1. conn[c].state = "READ_EXTRA" /\ conn[c].state \in Reading
  BY DEF ReadExtra, OnEvent, Reading
<1>2. r \in Reqs /\ Memory \in MemType /\ Memory.req = req /\ Memory.buf = buf
  BY <1>1, ReaderApart, MemoryType DEF IInv, Memory
<1>3. /\ req[r].hdr \in Headers /\ req[r].rkey \in KeysOf[c] /\ req[r].rkey # NULL
      /\ req[r].hdr.dlen
  BY <1>1 DEF IInv, Sections, Reading
<1>4. PICK text \in Texts : execute_cmd(c, [Memory EXCEPT !.req[r].rextra = text])
  BY DEF ReadExtra
<1> DEFINE m == [Memory EXCEPT !.req[r].rextra = text]
<1>5. req[r] \in ReqType
  BY <1>2 DEF TypeOK
<1>6. m \in MemType
  BY <1>2, WriteType
<1>7. /\ m.buf = buf /\ \A s \in Reqs \ {r} : m.req[s] = req[s]
      /\ m.req[r] = [req[r] EXCEPT !.rextra = text]
  BY <1>2 DEF MemType
<1>8. execute_cmd(c, m)
  BY <1>4
<1> HIDE DEF m
<1>9. /\ m.req[r].hdr = req[r].hdr /\ m.req[r].rkey = req[r].rkey
      /\ m.req[r].rdata = req[r].rdata /\ m.req[r].rextra # NULL
  BY <1>5, <1>7, BlocksAssumption DEF ReqType
<1>10. buf[req[r].rdata] \in Texts
  BY <1>1 DEF Texted
<1>11. Own(c, m) /\ Filled(c, m) /\ Ready(c, m.req[r])
  BY <1>3, <1>6, <1>7, <1>9, <1>10 DEF Own, Filled, Ready
<1> QED BY <1>1, <1>8, <1>11, ExecuteServes
-----------------------------------------------------------------------------
(* The refinement                                                          *)

\* The server starts as the service does, with nothing stored and nobody connected.
LEMMA InitServes == Init => Service!SInit /\ Texted
<1> SUFFICES ASSUME Init PROVE Service!SInit /\ Texted
  OBVIOUS
<1>1. /\ \A k \in Keys : cache[k] = NULL
      /\ \A c \in Conns : conn[c].state = "CONN_CLOSED"
      /\ idle_conn_timeout \in Nat /\ now = 0
  BY SettingAssumption DEF Init, Closed
<1>2. Stored = [k \in Keys |-> NULL]
  BY <1>1 DEF Stored
<1>3. Replies = [c \in Conns |-> NULL]
  BY <1>1 DEF Replies, Sending
<1>4. Texted
  BY <1>1 DEF Texted
<1> QED BY <1>1, <1>2, <1>3, <1>4 DEF Service!SInit

\* Every step of the server is a step of the service, or no client sees it.
LEMMA NextServes ==
  ASSUME Disciplined, TypeOK, IInv, Running', Texted, [Next]_vars
  PROVE  Serves
<1>1. CASE UNCHANGED vars \/ Tick \/ NextIteration
  <2>1. /\ conn' = conn /\ req' = req /\ cache' = cache /\ buf' = buf
        /\ idle_conn_timeout' = idle_conn_timeout
    BY <1>1 DEF vars, memory, Tick, NextIteration
  <2>2. Stored' = Stored
    BY <2>1 DEF Stored
  <2>3. Replies' = Replies
    BY <2>1 DEF Replies, Body
  <2>4. Texted'
    BY <2>1 DEF Texted
  <2>5. now' = now \/ now' = now + 1
    BY <1>1 DEF vars, clocks, Tick, NextIteration
  <2>6. CASE now' = now
    BY <2>1, <2>2, <2>3, <2>4, <2>6 DEF Serves, Service!svars
  <2>7. CASE now' = now + 1
    BY <2>1, <2>2, <2>3, <2>4, <2>7 DEF Serves, Service!SNext, Service!Tick
  <2> QED BY <2>5, <2>6, <2>7
<1>2. CASE disconnect_idle_conns
  <2>1. Idle \in SUBSET Conns
    BY DEF Idle, Walked, TypeOK
  <2>2. disconnect_conn(Idle) /\ now' = now
    BY <1>2 DEF disconnect_idle_conns, Crash, Running
  <2> QED BY <2>1, <2>2, DisconnectServes
<1>3. ASSUME NEW c \in Conns, Accept(c) PROVE Serves
  BY <1>3, AcceptServes
<1>4. ASSUME NEW c \in Conns, AcceptDirty(c) PROVE Serves
  BY <1>4 DEF AcceptDirty, Disciplined
<1>5. ASSUME NEW c \in Conns, ReadHeader(c) PROVE Serves
  BY <1>5, ReadHeaderServes
<1>6. ASSUME NEW c \in Conns, ReadKey(c) PROVE Serves
  BY <1>6, ReadKeyServes
<1>7. ASSUME NEW c \in Conns, ReadData(c) PROVE Serves
  BY <1>7, ReadDataServes
<1>8. ASSUME NEW c \in Conns, ReadExtra(c) PROVE Serves
  BY <1>8, ReadExtraServes
<1>9. ASSUME NEW c \in Conns, NeedMore(c) PROVE Serves
  BY <1>9, MoveServes DEF NeedMore
<1>10. ASSUME NEW c \in Conns, SendHeader(c) PROVE Serves
  <2>1. conn[c].state \in Sending /\ "SEND_DATA" \in Sending
    BY <1>10 DEF SendHeader, OnEvent, Sending
  <2> QED BY <1>10, <2>1, MoveServes, InitResourcesServes DEF SendHeader
<1>11. ASSUME NEW c \in Conns, SendData(c) PROVE Serves
  BY <1>11, InitResourcesServes DEF SendData
<1>12. ASSUME NEW c \in Conns, Hangup(c) PROVE Serves
  <2>1. {c} \in SUBSET Conns /\ disconnect_conn({c}) /\ now' = now
    BY <1>12 DEF Hangup, Crash, Running, clocks
  <2> QED BY <2>1, DisconnectServes
<1> QED BY <1>1, <1>2, <1>3, <1>4, <1>5, <1>6, <1>7, <1>8, <1>9, <1>10, <1>11, <1>12
     DEF Next

\* A disciplined server is the service its clients are promised: a GET returns what was
\* last SET under the key and has not expired, a reply does not change while it is sent,
\* a refused request changes nothing, and neither failed allocations nor disconnections
\* touch the store, for any number of connections, keys and blocks.
THEOREM ServerRefinesService ==
  ASSUME Disciplined
  PROVE  Spec => RefinesService
<1>1. Init => Service!SInit /\ Texted
  BY InitServes
<1>2. TypeOK /\ IInv /\ IInv' /\ Texted /\ [Next]_vars =>
        [Service!SNext]_(Service!svars) /\ Texted'
  BY NextServes DEF IInv, Serves
<1> QED BY <1>1, <1>2, TypeCorrect, Owned, PTL DEF Spec, RefinesService, Service!SSpec
=============================================================================
