------------------------------ MODULE EventLoop ------------------------------
(***************************************************************************)
(* The main loop of src/src/lightcache.c over the event layer, which is    *)
(* src/src/epoll.c or src/src/kqueue.c: what the kernel reports is handled *)
(* from an array of at most POLL_MAX_EVENTS events, which hold pointers to *)
(* connection structures; structures are closed and recycled while it is   *)
(* worked off, and the audit comes after it.                               *)
(*                                                                         *)
(* What a handler does is reduced to what the loop sees of it: it takes a  *)
(* byte or gives one, turns from reading to sending or back, or closes.    *)
(* LightCache has the rest.  The clock appears as differences, each capped *)
(* where nothing compares it any further.                                  *)
(***************************************************************************)
EXTENDS Integers, SequencesExt

CONSTANTS
  Clients,
  Structs,            \* the connection structures there is memory for
  LISTEN,             \* the structure of the listening socket
  POLL_MAX_EVENTS,
  idle_conn_timeout,
  MaxUnread,          \* bound on the bytes in a socket
  MaxReply,           \* bound on the bytes of a reply
  NULL

ASSUME EventsAssumption  == POLL_MAX_EVENTS \in Nat \ {0}
ASSUME TimeoutAssumption == idle_conn_timeout \in Nat \ {0}
ASSUME BoundsAssumption  == MaxUnread \in Nat \ {0} /\ MaxReply \in Nat \ {0}
ASSUME NamesAssumption   == LISTEN \notin Structs /\ NULL \notin Clients

Pointers == Structs \cup {LISTEN}

VARIABLES
  backend,  \* "epoll" or "kqueue", as the server was built
  conns,    \* the list of structures, head first
  fd,       \* structure -> the client it is connected to; NULL when it is free
  todo,     \* structure -> bytes of the reply to send; 0 while it reads
  age,      \* structure -> seconds since last_heard
  reg,      \* pointer -> what epoll watches it for
  rdllist,  \* the order in which epoll looks at what is registered
  events,   \* what is left of the array, a pointer and an event each
  pc,       \* "wait" for epoll_wait, then "events"; "due" when an audit follows them
  since,    \* ctime - ptime
  lag,      \* the seconds since ctime was read, in an iteration that is due
  backlog,  \* the clients that wait to be accepted, in their order
  sock,     \* client -> "away", "queued", "open", or "gone" when it has closed its end and
            \* the server has not
  unread    \* client -> bytes it sent that are in the socket

list   == <<conns, fd, todo, age>>
kernel == <<reg, rdllist>>
loop   == <<events, pc, since, lag>>
client == <<backlog, sock, unread>>
vars   == <<backend, list, kernel, loop, client>>

Capped(n, max) == IF n < max THEN n ELSE max
-----------------------------------------------------------------------------
(* The event layer.                                                        *)

\* The sequences s[1], ..., s[n], one after the other.
Joined(s, n) == LET joined[i \in 0..n] == IF i = 0 THEN <<>> ELSE joined[i - 1] \o s[i] IN joined[n]

\* The members of P that seq has, in their order.
Kept(seq, P) == Joined([i \in DOMAIN seq |-> IF seq[i] \in P THEN <<seq[i]>> ELSE <<>>], Len(seq))

\* Nothing is watched any more for the pointers in C.
Unlisted(C) == Kept(rdllist, Pointers \ C)

event_del(C) ==
  /\ reg' = [p \in Pointers |-> IF p \in C THEN {} ELSE reg[p]]
  /\ rdllist' = Unlisted(C)

\* epoll_ctl adds the descriptor, or modifies what it has: it keeps its place.
epoll_set(p, flag) ==
  /\ reg' = [reg EXCEPT ![p] = {flag}]
  /\ rdllist' = IF Contains(rdllist, p) THEN rdllist ELSE Append(rdllist, p)

kqueue_set_adds(p, flag) ==
  /\ reg' = [reg EXCEPT ![p] = @ \cup {flag}]
  /\ rdllist' = Append(Unlisted({p}), p)

\* Both filters are deleted before one is added.
kqueue_set(p, flag) ==
  /\ reg' = [reg EXCEPT ![p] = {flag}]
  /\ rdllist' = Append(Unlisted({p}), p)

event_set(p, flag) ==
  \/ backend = "epoll" /\ epoll_set(p, flag)
  \/ backend = "kqueue" /\ kqueue_set(p, flag)

\* Which of the events p is watched for have come about.  Clients take what they are
\* sent; the end of a client's stream can be read and written to.
Ready(p) ==
  IF p = LISTEN THEN {e \in reg[p] : backlog # <<>>}
  ELSE {e \in reg[p] : e = "write" \/ unread[fd[p]] > 0 \/ sock[fd[p]] = "gone"}

Found == Kept(rdllist, {p \in Pointers : Ready(p) # {}})

\* The calls of the handler for a pointer: reading first.
Calls(p) == (IF "read" \in Ready(p) THEN <<[ptr |-> p, ev |-> "read"]>> ELSE <<>>)
         \o (IF "write" \in Ready(p) THEN <<[ptr |-> p, ev |-> "write"]>> ELSE <<>>)

FirstOf(seq) == SubSeq(seq, 1, Capped(Len(seq), POLL_MAX_EVENTS))

AllCalls(pointers) == Joined([i \in DOMAIN pointers |-> Calls(pointers[i])], Len(pointers))

\* epoll_wait returns an event for a descriptor, kevent one for a filter.
EpollArray  == AllCalls(FirstOf(Found))
KqueueArray == FirstOf(AllCalls(Found))

Array == IF backend = "epoll" THEN EpollArray ELSE KqueueArray

\* What has been returned goes to the end of the kernel's list.
Rotated(array) == LET out == [i \in 1..Len(array) |-> array[i].ptr]
                  IN  Unlisted(ToSet(out)) \o out

\* The top of the loop: the clock is read, and epoll_wait returns, if only because its
\* timeout is over.
EventProcess ==
  /\ pc = "wait"
  /\ pc' = IF since > 1 THEN "due" ELSE "events"
  /\ lag' = 0
  /\ UNCHANGED <<backend, since, reg, list, client>>
  /\ \E array \in {Array} : events' = array /\ rdllist' = Rotated(array)
-----------------------------------------------------------------------------
(* The handlers.                                                           *)

\* Structures C are given up and their sockets closed.
disconnect_conn(C) ==
  LET left == {fd[s] : s \in C} IN
  /\ fd' = [s \in Structs |-> IF s \in C THEN NULL ELSE fd[s]]
  /\ todo' = [s \in Structs |-> IF s \in C THEN 0 ELSE todo[s]]
  /\ age' = [s \in Structs |-> IF s \in C THEN 0 ELSE age[s]]
  /\ event_del(C)
  /\ sock' = [c \in Clients |-> IF c \in left THEN "away" ELSE sock[c]]
  /\ unread' = [c \in Clients |-> IF c \in left THEN 0 ELSE unread[c]]
  /\ UNCHANGED <<conns, backlog>>

Heard(s) == age' = [age EXCEPT ![s] = 0]

\* The first free structure of the list, or else a new one at its head.
Free == Kept(conns, {s \in Structs : fd[s] = NULL})

make_conn_relinks(s) ==
  \/ Free # <<>> /\ s = Head(Free) /\ conns' = Cons(s, conns)
  \/ Free = <<>> /\ ~Contains(conns, s) /\ conns' = Cons(s, conns)

make_conn(s) ==
  \/ Free # <<>> /\ s = Head(Free) /\ UNCHANGED conns
  \/ Free = <<>> /\ ~Contains(conns, s) /\ conns' = Cons(s, conns)

Turned_leaks(c) == sock' = [sock EXCEPT ![c] = "open"]

Turned(c) == sock' = [sock EXCEPT ![c] = "away"]

\* Without memory for a structure, or for a request in the structure, the socket is
\* closed again.
Accept ==
  LET c == Head(backlog) IN
  /\ backlog # <<>> /\ backlog' = Tail(backlog)
  /\ \/ \E s \in Structs :
          /\ make_conn(s)
          /\ fd' = [fd EXCEPT ![s] = c]
          /\ event_set(s, "read")
          /\ Heard(s)
          /\ sock' = [sock EXCEPT ![c] = "open"]
     \/ /\ \/ Free = <<>> /\ UNCHANGED conns
           \/ \E s \in Structs : make_conn(s)
        /\ Turned(c)
        /\ UNCHANGED <<fd, age, kernel>>
  /\ UNCHANGED <<todo, unread>>

\* A reply of n bytes, after a command, a refusal, or an event the state does not expect.
add_response(s, n) ==
  /\ todo' = [todo EXCEPT ![s] = n]
  /\ event_set(s, "write")
  /\ Heard(s)
  /\ UNCHANGED <<conns, fd, backlog, sock>>

\* A byte is taken; it may have been the last of the request.
TakeByte(s) ==
  /\ unread[fd[s]] > 0
  /\ unread' = [unread EXCEPT ![fd[s]] = @ - 1]
  /\ \/ Heard(s) /\ UNCHANGED <<conns, fd, todo, kernel, backlog, sock>>
     \/ \E n \in 1..MaxReply : add_response(s, n)

\* At the end of what the client sent, the connection is closed.
try_read_request(s) ==
  \/ TakeByte(s)
  \/ unread[fd[s]] = 0 /\ disconnect_conn({s})

try_send_response_deaf(s) ==
  \/ /\ todo' = [todo EXCEPT ![s] = @ - 1]
     /\ Heard(s)
     /\ UNCHANGED <<conns, fd, kernel, client>>
  \/ (todo[s] = 1 \/ sock[fd[s]] = "gone") /\ disconnect_conn({s})

\* A byte is given; after the last one the structure waits for a request, unless
\* there is no memory for it.  A client that is gone makes write fail, now or later.
try_send_response(s) ==
  \/ /\ todo' = [todo EXCEPT ![s] = @ - 1]
     /\ IF todo[s] = 1 THEN event_set(s, "read") ELSE UNCHANGED kernel
     /\ Heard(s)
     /\ UNCHANGED <<conns, fd, client>>
  \/ (todo[s] = 1 \/ sock[fd[s]] = "gone") /\ disconnect_conn({s})

\* A closed structure ignores the event, and one in another state answers it.
event_handler(s, ev) ==
  \/ fd[s] = NULL /\ UNCHANGED <<list, kernel, client>>
  \/ fd[s] # NULL /\ ev = "read" /\ todo[s] = 0 /\ try_read_request(s)
  \/ fd[s] # NULL /\ ev = "write" /\ todo[s] > 0 /\ try_send_response(s)
  \/ /\ fd[s] # NULL /\ (ev = "read" <=> todo[s] > 0)
     /\ \E n \in 1..MaxReply : add_response(s, n) /\ UNCHANGED unread

\* An accept that finds nobody there changes nothing.
Handle ==
  /\ pc \in {"events", "due"} /\ events # <<>>
  /\ LET e == Head(events) IN
     IF e.ptr # LISTEN THEN event_handler(e.ptr, e.ev)
     ELSE Accept \/ (backlog = <<>> /\ UNCHANGED <<list, kernel, client>>)
  /\ events' = Tail(events)
  /\ UNCHANGED <<backend, pc, since, lag>>
-----------------------------------------------------------------------------
(* The audit.                                                              *)

\* The walk ends at the first structure that is free, or listens.
InFront(s) ==
  \E i \in DOMAIN conns :
    conns[i] = s /\ \A j \in 1..i : conns[j] # LISTEN /\ fd[conns[j]] # NULL

disconnect_idle_conns ==
  disconnect_conn({s \in Structs : InFront(s) /\ age[s] > idle_conn_timeout})

NotDue_resets ==
  /\ pc = "events" /\ events = <<>>
  /\ pc' = "wait"
  /\ since' = 0
  /\ UNCHANGED <<backend, events, lag, list, kernel, client>>

NotDue ==
  /\ pc = "events" /\ events = <<>>
  /\ pc' = "wait"
  /\ UNCHANGED <<backend, events, since, lag, list, kernel, client>>

\* ptime becomes the time that was read before the events.
Audit ==
  /\ pc = "due" /\ events = <<>>
  /\ disconnect_idle_conns
  /\ pc' = "wait" /\ since' = lag /\ lag' = 0
  /\ UNCHANGED <<backend, events>>

Loop == EventProcess \/ Handle \/ NotDue \/ Audit
-----------------------------------------------------------------------------
(* The world outside.                                                      *)

Tick ==
  /\ age' = [s \in Structs |-> IF fd[s] = NULL THEN 0 ELSE Capped(age[s] + 1, idle_conn_timeout + 1)]
  /\ since' = Capped(since + 1, 2)
  /\ lag' = IF pc = "due" THEN Capped(lag + 1, 2) ELSE lag
  /\ UNCHANGED <<backend, conns, fd, todo, kernel, events, pc, client>>

Connect(c) ==
  /\ sock[c] = "away"
  /\ sock' = [sock EXCEPT ![c] = "queued"]
  /\ backlog' = Append(backlog, c)
  /\ UNCHANGED <<backend, list, kernel, loop, unread>>

Send(c) ==
  /\ sock[c] = "open" /\ unread[c] < MaxUnread
  /\ unread' = [unread EXCEPT ![c] = @ + 1]
  /\ UNCHANGED <<backend, list, kernel, loop, backlog, sock>>

Leave(c) ==
  /\ sock[c] = "open"
  /\ sock' = [sock EXCEPT ![c] = "gone"]
  /\ UNCHANGED <<backend, list, kernel, loop, backlog, unread>>

\* init_server_socket has made the first structure.
Init ==
  /\ backend \in {"epoll", "kqueue"}
  /\ conns = <<LISTEN>> /\ fd = [s \in Structs |-> NULL]
  /\ todo = [s \in Structs |-> 0] /\ age = [s \in Structs |-> 0]
  /\ reg = [p \in Pointers |-> IF p = LISTEN THEN {"read"} ELSE {}]
  /\ rdllist = <<LISTEN>>
  /\ events = <<>> /\ pc = "wait" /\ since = 2 /\ lag = 0
  /\ backlog = <<>> /\ sock = [c \in Clients |-> "away"] /\ unread = [c \in Clients |-> 0]

Next == \/ Loop
        \/ Tick
        \/ \E c \in Clients : Connect(c) \/ Send(c) \/ Leave(c)

Spec == Init /\ [][Next]_vars

\* The loop never blocks for longer than POLL_TIMEOUT, and time goes on.
FairSpec == Spec /\ WF_vars(Loop) /\ WF_vars(Tick)
-----------------------------------------------------------------------------
(* Properties *)

\* The list, epoll and the clients agree: a structure is linked once, a client has one
\* structure while the server holds its socket, and epoll watches the connected
\* structures and no others, each for what its state waits for.
Watched ==
  /\ \A i, j \in DOMAIN conns : conns[i] = conns[j] => i = j
  /\ \A s \in Structs :
       /\ fd[s] # NULL => Contains(conns, s)
       /\ reg[s] = IF fd[s] = NULL THEN {} ELSE IF todo[s] = 0 THEN {"read"} ELSE {"write"}
       /\ \A t \in Structs : fd[s] = fd[t] => s = t \/ fd[s] = NULL
  /\ \A c \in Clients : sock[c] \in {"open", "gone"} <=> \E s \in Structs : fd[s] = c
  /\ ToSet(rdllist) = {p \in Pointers : reg[p] # {}}

\* Every event still in the array is what its structure waits for, although structures
\* are closed and recycled while the array is worked off: no handler has to answer
\* INVALID_STATE, and none acts for a connection that took the place of another.
BatchFresh ==
  \A i \in DOMAIN events :
    LET e == events[i] IN
    /\ e.ptr # LISTEN => /\ fd[e.ptr] # NULL
                         /\ reg[e.ptr] = {e.ev}
                         /\ e.ev = "write" <=> todo[e.ptr] > 0
    /\ \A j \in DOMAIN events : events[j].ptr = e.ptr => i = j

\* A client that connects is given a structure or turned away, however busy the others
\* keep the server.
Accepted == \A c \in Clients :
  sock[c] = "queued" ~> sock[c] = "away" \/ \E s \in Structs : fd[s] = c

\* A client that goes on sending is heard.
ClientsHeard == \A c \in Clients :
  sock[c] = "open" /\ unread[c] = MaxUnread ~> sock[c] # "open" \/ unread[c] < MaxUnread

\* What the audit does guarantee: no connection stays silent for good, unless it stays
\* behind a free structure in the list.
IdleClosed == \A s \in Structs : []<>(fd[s] = NULL \/ Ready(s) # {} \/ ~InFront(s))
=============================================================================
