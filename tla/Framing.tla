------------------------------- MODULE Framing -------------------------------
(***************************************************************************)
(* The bytes of one connection of src/src/lightcache.c.  A request is a    *)
(* header and the sections whose lengths it gives; the server takes one    *)
(* byte an event and knows where it is in the stream only from state and   *)
(* rbytes.  A reply is given back a byte an event, counted by sbytes.      *)
(* Clients may send requests ahead, stop in the middle of one, close, or   *)
(* reset the connection.                                                   *)
(*                                                                         *)
(* Bytes carry no contents but their place: which request, which position. *)
(* What a command does, and whose memory it uses, is in LightCache.        *)
(***************************************************************************)
EXTENDS Integers, SequencesExt

CONSTANTS
  Headers,    \* the headers clients send: records of the three lengths
  HEADER,     \* sizeof(req_header)
  REPLY,      \* sizeof(resp_header)
  PROTOCOL_MAX_KEY_SIZE,
  PROTOCOL_MAX_DATA_SIZE,
  PROTOCOL_MAX_EXTRA_SIZE,
  WIDTH,      \* rbytes is counted modulo WIDTH
  SOCK,       \* bytes each direction of the socket holds
  MaxData,    \* bound on the data of a reply
  MaxOwed     \* bound on the requests a client sends ahead

ASSUME HeadersAssumption == Headers \subseteq [klen : Nat, dlen : Nat, elen : Nat] /\ Headers # {}
ASSUME SizesAssumption   == {HEADER, REPLY, SOCK} \subseteq Nat \ {0} /\ {MaxData, MaxOwed} \subseteq Nat
ASSUME LimitsAssumption  ==
  {PROTOCOL_MAX_KEY_SIZE, PROTOCOL_MAX_DATA_SIZE, PROTOCOL_MAX_EXTRA_SIZE} \subseteq 1..(WIDTH - 1)
ASSUME WidthAssumption   == WIDTH \in Nat /\ HEADER < WIDTH - 1

VARIABLES
  state,    \* conn->state
  rbytes,   \* bytes of the section read so far
  hdr,      \* the header in conn->in
  sbytes,   \* bytes of the part of the reply given so far
  dlen,     \* data_length of the reply
  wire,     \* what the client sent and the server has not read
  back,     \* what the server sent and the client has not read
  peer,     \* the client's end: "open", "gone" once closed, "reset" once aborted
  next,     \* the request the client is sending, and how much of it it has sent
  owed,     \* the requests the client has sent whole and has no whole reply to
  excused   \* whether a request was malformed, or memory for a section was missing

server == <<state, rbytes, hdr, sbytes, dlen, excused>>
client == <<next, owed>>
vars   == <<server, wire, back, peer, client>>

Reading == {"READ_HEADER", "READ_KEY", "READ_DATA", "READ_EXTRA"}
Sending == {"SEND_HEADER", "SEND_DATA"}

Size(h) == HEADER + h.klen + h.dlen + h.elen
-----------------------------------------------------------------------------
(* Requests.                                                               *)

\* The length of the section that is being read.
Total ==
  CASE state = "READ_HEADER" -> HEADER
    [] state = "READ_KEY"    -> hdr.klen
    [] state = "READ_DATA"   -> hdr.dlen
    [] state = "READ_EXTRA"  -> hdr.elen

Fits(h) == /\ h.klen < PROTOCOL_MAX_KEY_SIZE
           /\ h.dlen < PROTOCOL_MAX_DATA_SIZE
           /\ h.elen < PROTOCOL_MAX_EXTRA_SIZE

add_response(n) == state' = "SEND_HEADER" /\ dlen' = n /\ sbytes' = 0

execute_cmd_silent == state' = "READ_HEADER" /\ UNCHANGED <<dlen, sbytes>>

\* Every command ends with a reply.
execute_cmd == \E n \in 0..MaxData : add_response(n)

\* The next section, unless there is no memory for it: the rest is then not read.
Await(section, excuse) ==
  \/ state' = section /\ excused' = excuse /\ UNCHANGED <<dlen, sbytes>>
  \/ add_response(0) /\ excused' = TRUE

\* What a section is followed by: the sections come in their order, and the first that
\* is empty ends the request.
SectionRead_skips(h, excuse) ==
  \/ state = "READ_HEADER" /\ ~Fits(h) /\ add_response(0) /\ excused' = excuse
  \/ state = "READ_HEADER" /\ Fits(h) /\ h.klen > 0 /\ Await("READ_KEY", excuse)
  \/ state = "READ_KEY" /\ h.dlen > 0 /\ Await("READ_DATA", excuse)
  \/ /\ \/ state = "READ_HEADER" /\ Fits(h) /\ h.klen = 0
        \/ state = "READ_KEY" /\ h.dlen = 0
        \/ state = "READ_DATA"
     /\ execute_cmd /\ excused' = excuse

SectionRead(h, excuse) ==
  \/ state = "READ_HEADER" /\ ~Fits(h) /\ add_response(0) /\ excused' = excuse
  \/ state = "READ_HEADER" /\ Fits(h) /\ h.klen > 0 /\ Await("READ_KEY", excuse)
  \/ state = "READ_KEY" /\ h.dlen > 0 /\ Await("READ_DATA", excuse)
  \/ state = "READ_DATA" /\ h.elen > 0 /\ Await("READ_EXTRA", excuse)
  \/ /\ \/ state = "READ_HEADER" /\ Fits(h) /\ h.klen = 0
        \/ state = "READ_KEY" /\ h.dlen = 0
        \/ state = "READ_DATA" /\ h.elen = 0
        \/ state = "READ_EXTRA"
     /\ execute_cmd /\ excused' = excuse

\* Sections the server will read: none follows one that is empty.
WellFormed(h) == Fits(h) /\ (h.klen = 0 => h.dlen = 0) /\ (h.dlen = 0 => h.elen = 0)

\* Which header the bytes make: the client's, or anything when they are not a header.
HeaderRead == IF Head(wire).pos = HEADER THEN {Head(wire).of} ELSE Headers

try_read_request ==
  \E h \in IF state = "READ_HEADER" THEN HeaderRead ELSE {hdr} :
    hdr' = h /\ SectionRead(h, excused \/ ~WellFormed(h))

read_nbytes_goes_on(n) ==
  LET r == (rbytes + n) % WIDTH IN
  /\ state \in Reading
  /\ rbytes' = r
  /\ \/ r # Total /\ UNCHANGED <<state, hdr, sbytes, dlen, excused>>
     \/ r = Total /\ try_read_request

\* read has returned n.
read_nbytes(n) ==
  LET r == (rbytes + n) % WIDTH IN
  /\ state \in Reading
  /\ \/ r # Total /\ rbytes' = r /\ UNCHANGED <<state, hdr, sbytes, dlen, excused>>
     \/ r = Total /\ rbytes' = 0 /\ try_read_request

ReadByte ==
  /\ wire # <<>> /\ wire' = Tail(wire)
  /\ read_nbytes(1)
  /\ UNCHANGED <<back, peer, client>>

\* An error of read is not told from -1 bytes; it is reported once.
ReadError ==
  /\ peer = "reset" /\ peer' = "gone"
  /\ read_nbytes(WIDTH - 1)
  /\ UNCHANGED <<wire, back, client>>
-----------------------------------------------------------------------------
(* Replies.                                                                *)

disconnect_conn_keeps == wire' = <<>> /\ UNCHANGED <<server, back, peer, client>>

disconnect_conn ==
  /\ state' = "CONN_CLOSED" /\ wire' = <<>>
  /\ UNCHANGED <<rbytes, hdr, sbytes, dlen, excused, back, peer, client>>

EndOfStream ==
  /\ state \in Reading /\ wire = <<>> /\ peer = "gone"
  /\ disconnect_conn

SendTotal == IF state = "SEND_HEADER" THEN REPLY ELSE dlen

\* Bytes of the reply given so far.
Given == (IF state = "SEND_DATA" THEN REPLY ELSE 0) + sbytes

SendSection_bare == state' = "READ_HEADER" /\ rbytes' = 0

SendSection_again == IF state = "SEND_HEADER" /\ dlen # 0
                     THEN state' = "SEND_DATA" /\ UNCHANGED rbytes
                     ELSE state' = "SEND_HEADER" /\ UNCHANGED rbytes

\* After the data, or a header without data, the request begins anew.
SendSection == IF state = "SEND_HEADER" /\ dlen # 0
               THEN state' = "SEND_DATA" /\ UNCHANGED rbytes
               ELSE state' = "READ_HEADER" /\ rbytes' = 0

try_send_response ==
  /\ state \in Sending /\ peer # "reset" /\ Len(back) < SOCK
  /\ back' = Append(back, [len |-> dlen, pos |-> Given + 1])
  /\ \/ sbytes + 1 # SendTotal /\ sbytes' = sbytes + 1 /\ UNCHANGED <<state, rbytes>>
     \/ sbytes + 1 = SendTotal /\ sbytes' = 0 /\ SendSection
  /\ UNCHANGED <<hdr, dlen, excused, wire, peer, client>>

\* No memory for the next request.
GiveUp ==
  /\ state \in Sending /\ peer # "reset" /\ Len(back) < SOCK
  /\ sbytes + 1 = SendTotal /\ (state = "SEND_HEADER" => dlen = 0)
  /\ state' = "CONN_CLOSED" /\ wire' = <<>>
  /\ back' = Append(back, [len |-> dlen, pos |-> Given + 1])
  /\ UNCHANGED <<rbytes, hdr, sbytes, dlen, excused, peer, client>>

SendError ==
  /\ state \in Sending /\ peer # "open"
  /\ disconnect_conn

\* The client may be found idle between any two bytes.
disconnect_idle_conns == state # "CONN_CLOSED" /\ disconnect_conn

Server == ReadByte \/ ReadError \/ EndOfStream \/ try_send_response \/ GiveUp \/ SendError
-----------------------------------------------------------------------------
(* The client.                                                             *)

EndOfReply(b) == b.pos = REPLY + b.len

ClientWrite ==
  /\ peer = "open" /\ state # "CONN_CLOSED" /\ Len(wire) < SOCK
  /\ wire' = Append(wire, [next EXCEPT !.pos = @ + 1])
  /\ \/ next.pos + 1 < Size(next.of) /\ next' = [next EXCEPT !.pos = @ + 1] /\ UNCHANGED owed
     \/ /\ next.pos + 1 = Size(next.of) /\ owed < MaxOwed
        /\ \E h \in Headers : next' = [of |-> h, pos |-> 0]
        /\ owed' = owed + 1
  /\ UNCHANGED <<server, back, peer>>

ClientRead ==
  /\ peer = "open" /\ back # <<>> /\ back' = Tail(back)
  /\ owed' = IF owed > 0 /\ EndOfReply(Head(back)) THEN owed - 1 ELSE owed
  /\ UNCHANGED <<server, wire, peer, next>>

ClientCloses ==
  /\ peer = "open" /\ state # "CONN_CLOSED"
  /\ peer' = "gone"
  /\ UNCHANGED <<server, wire, back, client>>

ClientResets ==
  /\ peer = "open" /\ state # "CONN_CLOSED"
  /\ peer' = "reset" /\ wire' = <<>> /\ back' = <<>>
  /\ UNCHANGED <<server, client>>

\* A connection as accept leaves it, with what the structure held before.
Begin(h) ==
  /\ state' = "READ_HEADER" /\ rbytes' = 0 /\ sbytes' = 0
  /\ wire' = <<>> /\ back' = <<>> /\ peer' = "open"
  /\ next' = [of |-> h, pos |-> 0] /\ owed' = 0 /\ excused' = FALSE
  /\ UNCHANGED <<hdr, dlen>>

Connect == state = "CONN_CLOSED" /\ \E h \in Headers : Begin(h)

Init ==
  /\ state = "READ_HEADER" /\ rbytes = 0 /\ sbytes = 0 /\ dlen = 0 /\ hdr \in Headers
  /\ wire = <<>> /\ back = <<>> /\ peer = "open"
  /\ next \in [of : Headers, pos : {0}] /\ owed = 0 /\ excused = FALSE

Next == \/ Server \/ disconnect_idle_conns
        \/ ClientWrite \/ ClientRead \/ ClientCloses \/ ClientResets \/ Connect

Spec == Init /\ [][Next]_vars

\* epoll goes on reporting a socket with something to read, or room to write, and the
\* client goes on reading its replies.
FairSpec == Spec /\ WF_vars(Server) /\ WF_vars(ClientRead)
-----------------------------------------------------------------------------
(* Properties *)

\* The byte the server gets next.
NextByte == IF wire # <<>> THEN Head(wire) ELSE [next EXCEPT !.pos = @ + 1]

\* Bytes of the request read so far, by what the server knows.
Taken ==
  CASE state = "READ_HEADER" -> rbytes
    [] state = "READ_KEY"    -> HEADER + rbytes
    [] state = "READ_DATA"   -> HEADER + hdr.klen + rbytes
    [] state = "READ_EXTRA"  -> HEADER + hdr.klen + hdr.dlen + rbytes
    [] OTHER                 -> 0

\* The server is where the client is: the byte it reads next is the one that its state
\* and rbytes say, in the request whose header it goes by, however the requests are cut
\* into reads and sent ahead.  It is lost only by a request with a section that the
\* server does not read, or for want of memory.
Aligned ==
  state # "CONN_CLOSED" /\ peer = "open" /\ ~excused =>
    /\ NextByte.pos = Taken + 1
    /\ state \in Reading \ {"READ_HEADER"} => NextByte.of = hdr

\* A byte is stored inside the buffer of its section, also when the server has lost its
\* place, and after an error of read made rbytes wrap around.
InBuffer == state \in Reading /\ wire # <<>> => rbytes < Total

\* The client can tell the replies apart: each begins where the one before it ends, and
\* is as long as its header says.
RepliesFramed ==
  /\ \A i \in 1..(Len(back) - 1) :
       back[i + 1] = IF EndOfReply(back[i]) THEN [back[i + 1] EXCEPT !.pos = 1]
                     ELSE [back[i] EXCEPT !.pos = @ + 1]
  /\ back # <<>> /\ state # "CONN_CLOSED" =>
       IF state \in Sending /\ Given > 0 THEN Last(back) = [len |-> dlen, pos |-> Given]
       ELSE EndOfReply(Last(back))

\* Every request has its one reply: the requests without a whole reply are those on the
\* way, the one being answered, and those whose replies are on the way.
OneReplyEach ==
  LET asked  == {i \in DOMAIN wire : wire[i].pos = Size(wire[i].of)}
      ended  == {i \in DOMAIN back : EndOfReply(back[i])}
      inHand == IF state \in Sending THEN 1 ELSE 0
  IN  state # "CONN_CLOSED" /\ peer = "open" /\ ~excused =>
        owed = Cardinality(asked) + inHand + Cardinality(ended)

\* A client that has sent a whole request gets to the end of a reply, or is cut off.
Answered ==
  owed > 0 ~> \/ back # <<>> /\ EndOfReply(Head(back))
              \/ excused \/ peer # "open" \/ state = "CONN_CLOSED"

\* A connection that the client has closed or reset is closed, wherever the server is
\* in a request or a reply.
HangupCloses == peer # "open" ~> state = "CONN_CLOSED"
=============================================================================
