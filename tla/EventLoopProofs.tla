-------------------------- MODULE EventLoopProofs --------------------------
(***************************************************************************)
(* While a batch of events is worked off, structures are closed and        *)
(* recycled, and none of the events that are left turns stale: for any     *)
(* number of clients, structures and events, with either event layer.      *)
(***************************************************************************)
EXTENDS EventLoop, ListLemmas

Events == [ptr : Pointers, ev : {"read", "write"}]

TypeOK ==
  /\ backend \in {"epoll", "kqueue"}
  /\ conns \in Seq(Pointers)
  /\ fd \in [Structs -> Clients \cup {NULL}]
  /\ todo \in [Structs -> Nat]
  /\ reg \in [Pointers -> SUBSET {"read", "write"}] /\ rdllist \in Seq(Pointers)
  /\ events \in Seq(Events)
  /\ backlog \in Seq(Clients)
  /\ sock \in [Clients -> {"away", "queued", "open", "gone"}]

\* A client waits to be accepted once.
Queued ==
  /\ IsInjective(backlog)
  /\ \A c \in Clients : Contains(backlog, c) => sock[c] = "queued"

\* The kernel looks at nothing twice, and the socket that listens is watched for clients.
Listed == IsInjective(rdllist) /\ reg[LISTEN] = {"read"}

\* A structure that is given up has nothing to send.
FreeIsIdle == \A s \in Structs : fd[s] = NULL => todo[s] = 0

\* What holds of the structures, the kernel and the clients between two calls, whatever
\* is left of the array.
Sound == TypeOK /\ Queued /\ FreeIsIdle /\ Listed /\ Watched

IInv == Sound /\ BatchFresh
-----------------------------------------------------------------------------
(* Sequences                                                               *)

\* Two sequences without repetitions that have nothing in common, one after the other.
LEMMA ConcatIn ==
  ASSUME NEW S, NEW a \in Seq(S), NEW b \in Seq(S), IsInjective(a), IsInjective(b),
         \A x : ~(Contains(a, x) /\ Contains(b, x))
  PROVE  /\ a \o b \in Seq(S)
         /\ IsInjective(a \o b)
         /\ \A x : Contains(a \o b, x) <=> Contains(a, x) \/ Contains(b, x)
<1> DEFINE ab == a \o b
<1>1. /\ ab \in Seq(S) /\ Len(ab) = Len(a) + Len(b) /\ Len(a) \in Nat /\ Len(b) \in Nat
      /\ \A i \in 1..Len(a) : ab[i] = a[i]
      /\ \A i \in 1..Len(b) : ab[i + Len(a)] = b[i]
  OBVIOUS
<1>2. DOMAIN ab = 1..Len(ab) /\ DOMAIN a = 1..Len(a) /\ DOMAIN b = 1..Len(b)
  <2> HIDE DEF ab
  <2> QED BY <1>1
<1> HIDE DEF ab
<1>3. ASSUME NEW i \in 1..Len(ab)
      PROVE  \/ i \in 1..Len(a) /\ ab[i] = a[i]
             \/ i - Len(a) \in 1..Len(b) /\ ab[i] = b[i - Len(a)]
  <2>1. CASE i <= Len(a)
    BY <1>1, <2>1
  <2>2. CASE ~(i <= Len(a))
    <3>1. i - Len(a) \in 1..Len(b) /\ (i - Len(a)) + Len(a) = i
      BY <1>1, <2>2
    <3> QED BY <1>1, <3>1
  <2> QED BY <2>1, <2>2
<1>4. ASSUME NEW x PROVE Contains(ab, x) <=> Contains(a, x) \/ Contains(b, x)
  <2>1. ASSUME Contains(ab, x) PROVE Contains(a, x) \/ Contains(b, x)
    BY <1>3, <2>1 DEF Contains
  <2>2. ASSUME Contains(a, x) PROVE Contains(ab, x)
    <3>1. PICK i \in 1..Len(a) : a[i] = x
      BY <2>2 DEF Contains
    <3>2. i \in 1..Len(ab) /\ ab[i] = x
      BY <1>1, <3>1
    <3> QED BY <3>2 DEF Contains
  <2>3. ASSUME Contains(b, x) PROVE Contains(ab, x)
    <3>1. PICK i \in 1..Len(b) : b[i] = x
      BY <2>3 DEF Contains
    <3>2. i + Len(a) \in 1..Len(ab) /\ ab[i + Len(a)] = x
      BY <1>1, <3>1
    <3> QED BY <3>2 DEF Contains
  <2> QED BY <2>1, <2>2, <2>3
<1>5. IsInjective(ab)
  <2> SUFFICES ASSUME NEW i \in 1..Len(ab), NEW j \in 1..Len(ab), ab[i] = ab[j]
               PROVE  i = j
    BY <1>2 DEF IsInjective
  <2>1. ASSUME NEW k \in 1..Len(a), NEW l \in 1..Len(b) PROVE a[k] # b[l]
    BY DEF Contains
  <2>2. CASE i \in 1..Len(a) /\ ab[i] = a[i] /\ j \in 1..Len(a) /\ ab[j] = a[j]
    BY <1>2, <2>2 DEF IsInjective
  <2>3. CASE /\ i - Len(a) \in 1..Len(b) /\ ab[i] = b[i - Len(a)]
             /\ j - Len(a) \in 1..Len(b) /\ ab[j] = b[j - Len(a)]
    <3>1. i - Len(a) = j - Len(a)
      BY <1>2, <2>3 DEF IsInjective
    <3> QED BY <1>1, <3>1
  <2> QED BY <1>3, <2>1, <2>2, <2>3
<1> QED BY <1>1, <1>4, <1>5 DEF ab

\* The joined sequence is what its recursion says.
LEMMA JoinedIs ==
  ASSUME NEW s, NEW n \in Nat
  PROVE  \E f : /\ Joined(s, n) = f[n]
                /\ f = [i \in 0..n |-> IF i = 0 THEN <<>> ELSE f[i - 1] \o s[i]]
<1> DEFINE Step(f, k) == [i \in 0..k |-> IF i = 0 THEN <<>> ELSE f[i - 1] \o s[i]]
           T == {k \in 0..n : ~\E f : f = Step(f, k)}
           joined == CHOOSE f : f = Step(f, n)
<1>1. Joined(s, n) = joined[n]
  BY DEF Joined
<1>2. T = {}
  <2> SUFFICES ASSUME T # {} PROVE FALSE
    OBVIOUS
  <2>1. T \in SUBSET Nat
    <3> HIDE DEF Step
    <3> QED OBVIOUS
  <2> HIDE DEF T
  <2>2. PICK k \in T : \A y \in T : k <= y
    BY <2>1, Least
  <2>3. k \in 0..n /\ ~\E f : f = Step(f, k)
    BY DEF T
  <2>4. k # 0
    <3> SUFFICES ASSUME k = 0 PROVE FALSE
      OBVIOUS
    <3> DEFINE z == [i \in 0..0 |-> <<>>]
    <3>1. z = Step(z, 0)
      OBVIOUS
    <3> QED BY <2>3, <3>1
  <2>5. k - 1 \in 0..n /\ k - 1 \notin T
    BY <2>1, <2>2, <2>3, <2>4
  <2>6. PICK g : g = Step(g, k - 1)
    BY <2>5 DEF T
  <2> DEFINE h == [i \in 0..k |-> IF i = k THEN g[k - 1] \o s[k] ELSE g[i]]
  <2>7. \A i \in 0..(k - 1) : g[i] = IF i = 0 THEN <<>> ELSE g[i - 1] \o s[i]
    <3> HIDE DEF h
    <3> QED BY <2>6
  <2>8. \A i \in 0..k : h[i] = IF i = k THEN g[k - 1] \o s[k] ELSE g[i]
    OBVIOUS
  <2>9. ASSUME NEW i \in 0..k PROVE h[i] = IF i = 0 THEN <<>> ELSE h[i - 1] \o s[i]
    <3> HIDE DEF h
    <3>1. i \in 0..(k - 1) \/ i = k
      BY <2>3
    <3>2. i # 0 => i - 1 \in 0..k /\ i - 1 # k
      BY <2>3
    <3>3. i # 0 => h[i - 1] = g[i - 1]
      BY <2>8, <3>2
    <3> QED BY <2>3, <2>4, <2>7, <2>8, <3>1, <3>3
  <2>10. h = Step(h, k)
    BY <2>9
  <2> QED BY <2>3, <2>10
<1>3. \E f : f = Step(f, n)
  <2> HIDE DEF Step
  <2> QED BY <1>2
<1>4. joined = Step(joined, n)
  <2> HIDE DEF Step
  <2> QED BY <1>3
<1> QED BY <1>1, <1>4

\* Joining sequences without repetitions that have nothing in common.
LEMMA JoinedIn ==
  ASSUME NEW S, NEW n \in Nat, NEW s,
         \A i \in 1..n : s[i] \in Seq(S) /\ IsInjective(s[i]),
         \A i, j \in 1..n : i # j => \A x : ~(Contains(s[i], x) /\ Contains(s[j], x))
  PROVE  /\ Joined(s, n) \in Seq(S)
         /\ IsInjective(Joined(s, n))
         /\ \A x : Contains(Joined(s, n), x) <=> \E i \in 1..n : Contains(s[i], x)
<1>1. PICK f : /\ Joined(s, n) = f[n]
               /\ f = [i \in 0..n |-> IF i = 0 THEN <<>> ELSE f[i - 1] \o s[i]]
  BY JoinedIs
<1>2. \A i \in 0..n : f[i] = IF i = 0 THEN <<>> ELSE f[i - 1] \o s[i]
  BY <1>1
<1> DEFINE Good(k) == /\ f[k] \in Seq(S)
                      /\ IsInjective(f[k])
                      /\ \A x : Contains(f[k], x) <=> \E i \in 1..k : Contains(s[i], x)
           T == {k \in 0..n : ~Good(k)}
<1>3. T = {}
  <2> SUFFICES ASSUME T # {} PROVE FALSE
    OBVIOUS
  <2>1. T \in SUBSET Nat
    <3> HIDE DEF Good
    <3> QED OBVIOUS
  <2> HIDE DEF T
  <2>2. PICK k \in T : \A y \in T : k <= y
    BY <2>1, Least
  <2>3. k \in 0..n /\ ~Good(k)
    BY DEF T
  <2> HIDE DEF Good
  <2>4. k # 0
    <3>1. f[0] = <<>>
      BY <1>2
    <3>2. <<>> \in Seq(S) /\ Len(<<>>) = 0 /\ DOMAIN <<>> = {}
      OBVIOUS
    <3>3. Good(0)
      BY <3>1, <3>2 DEF Good, IsInjective, Contains
    <3> QED BY <2>3, <3>3
  <2>5. k \in 1..n /\ k - 1 \in 0..n /\ Good(k - 1)
    BY <2>1, <2>2, <2>3, <2>4 DEF T
  <2>6. f[k] = f[k - 1] \o s[k]
    BY <1>2, <2>3, <2>4
  <2>7. \A x : Contains(f[k - 1], x) <=> \E i \in 1..(k - 1) : Contains(s[i], x)
    BY <2>5 DEF Good
  <2>8. \A x : ~(Contains(f[k - 1], x) /\ Contains(s[k], x))
    <3> SUFFICES ASSUME NEW x, Contains(f[k - 1], x), Contains(s[k], x) PROVE FALSE
      OBVIOUS
    <3>1. PICK i \in 1..(k - 1) : Contains(s[i], x)
      BY <2>7
    <3>2. i \in 1..n /\ i # k
      BY <2>5
    <3> QED BY <2>5, <3>1, <3>2
  <2>9. f[k - 1] \in Seq(S) /\ IsInjective(f[k - 1]) /\ s[k] \in Seq(S) /\ IsInjective(s[k])
    BY <2>5 DEF Good
  <2>10. /\ f[k] \in Seq(S) /\ IsInjective(f[k])
         /\ \A x : Contains(f[k], x) <=> Contains(f[k - 1], x) \/ Contains(s[k], x)
    BY <2>6, <2>8, <2>9, ConcatIn
  <2>11. \A i : i \in 1..k <=> i \in 1..(k - 1) \/ i = k
    BY <2>5
  <2>12. Good(k)
    BY <2>7, <2>10, <2>11 DEF Good
  <2> QED BY <2>3, <2>12
<1>4. Good(n)
  <2> HIDE DEF Good
  <2> QED BY <1>3
<1> QED BY <1>1, <1>4

\* One element, or none.
LEMMA OneOrNone ==
  ASSUME NEW S, NEW e \in S
  PROVE  /\ <<e>> \in Seq(S) /\ IsInjective(<<e>>) /\ \A x : Contains(<<e>>, x) <=> x = e
         /\ <<>> \in Seq(S) /\ IsInjective(<<>>) /\ \A x : ~Contains(<<>>, x)
<1>1. <<e>> \in Seq(S) /\ Len(<<e>>) = 1 /\ <<e>>[1] = e /\ DOMAIN <<e>> = {1}
  OBVIOUS
<1>2. <<>> \in Seq(S) /\ Len(<<>>) = 0 /\ DOMAIN <<>> = {}
  OBVIOUS
<1>3. IsInjective(<<e>>) /\ \A x : Contains(<<e>>, x) <=> x = e
  BY <1>1 DEF IsInjective, Contains
<1>4. IsInjective(<<>>) /\ \A x : ~Contains(<<>>, x)
  BY <1>2 DEF IsInjective, Contains
<1> QED BY <1>1, <1>2, <1>3, <1>4

\* What is kept of a sequence without repetitions.
LEMMA KeptIn ==
  ASSUME NEW S, NEW seq \in Seq(S), IsInjective(seq), NEW P
  PROVE  /\ Kept(seq, P) \in Seq(S)
         /\ IsInjective(Kept(seq, P))
         /\ \A x : Contains(Kept(seq, P), x) <=> x \in P /\ Contains(seq, x)
<1> DEFINE s == [i \in DOMAIN seq |-> IF seq[i] \in P THEN <<seq[i]>> ELSE <<>>]
           n == Len(seq)
<1>1. n \in Nat /\ DOMAIN seq = 1..n /\ \A i \in 1..n : seq[i] \in S
  OBVIOUS
<1>2. \A i \in 1..n : s[i] = IF seq[i] \in P THEN <<seq[i]>> ELSE <<>>
  BY <1>1
<1>3. Kept(seq, P) = Joined(s, n)
  BY DEF Kept
<1> HIDE DEF s, n
<1>4. ASSUME NEW i \in 1..n
      PROVE  /\ s[i] \in Seq(S) /\ IsInjective(s[i])
             /\ \A x : Contains(s[i], x) <=> x = seq[i] /\ x \in P
  <2>1. seq[i] \in S
    BY <1>1
  <2>2. CASE seq[i] \in P
    <3>1. s[i] = <<seq[i]>>
      BY <1>2, <2>2
    <3> QED BY <2>1, <2>2, <3>1, OneOrNone
  <2>3. CASE seq[i] \notin P
    <3>1. s[i] = <<>>
      BY <1>2, <2>3
    <3>2. <<>> \in Seq(S) /\ IsInjective(<<>>) /\ \A x : ~Contains(<<>>, x)
      BY <2>1, OneOrNone
    <3>3. s[i] \in Seq(S) /\ IsInjective(s[i]) /\ \A x : ~Contains(s[i], x)
      BY <3>1, <3>2
    <3> QED BY <2>3, <3>3
  <2> QED BY <2>2, <2>3
<1>5. ASSUME NEW i \in 1..n, NEW j \in 1..n, i # j
      PROVE  \A x : ~(Contains(s[i], x) /\ Contains(s[j], x))
  <2>1. seq[i] # seq[j]
    BY <1>1, <1>5 DEF IsInjective
  <2> QED BY <1>4, <2>1
<1>6. /\ Joined(s, n) \in Seq(S) /\ IsInjective(Joined(s, n))
      /\ \A x : Contains(Joined(s, n), x) <=> \E i \in 1..n : Contains(s[i], x)
  <2>1. \A i \in 1..n : s[i] \in Seq(S) /\ IsInjective(s[i])
    BY <1>4
  <2>2. \A i, j \in 1..n : i # j => \A x : ~(Contains(s[i], x) /\ Contains(s[j], x))
    BY <1>5
  <2> QED BY <1>1, <2>1, <2>2, JoinedIn
<1>7. \A x : Contains(seq, x) <=> \E i \in 1..n : seq[i] = x
  BY DEF Contains, n
<1> QED BY <1>3, <1>4, <1>6, <1>7
-----------------------------------------------------------------------------
(* The array                                                               *)

\* A pointer is watched for one event at a time.
LEMMA OneEvent ==
  ASSUME TypeOK, Listed, Watched, NEW p \in Pointers
  PROVE  /\ reg[p] = {} \/ \E e \in {"read", "write"} : reg[p] = {e}
         /\ p \in Structs \/ p = LISTEN
<1>1. p \in Structs \/ p = LISTEN
  BY DEF Pointers
<1>2. CASE p \in Structs
  BY <1>2 DEF Watched
<1>3. CASE p = LISTEN
  BY <1>3 DEF Listed
<1> QED BY <1>1, <1>2, <1>3

\* The calls for a pointer are one or none, for the event that it is watched for.
LEMMA CallsIn ==
  ASSUME TypeOK, Listed, Watched, NEW p \in Pointers
  PROVE  /\ Calls(p) \in Seq(Events) /\ IsInjective(Calls(p))
         /\ \A x : Contains(Calls(p), x) => x \in Events /\ x.ptr = p /\ reg[p] = {x.ev}
<1>1. Ready(p) \subseteq reg[p]
  BY DEF Ready
<1> DEFINE r == [ptr |-> p, ev |-> "read"]
           w == [ptr |-> p, ev |-> "write"]
<1>2. /\ r \in Events /\ r.ptr = p /\ r.ev = "read"
      /\ w \in Events /\ w.ptr = p /\ w.ev = "write"
  BY DEF Events
<1>3. Calls(p) = (IF "read" \in Ready(p) THEN <<r>> ELSE <<>>)
              \o (IF "write" \in Ready(p) THEN <<w>> ELSE <<>>)
  BY DEF Calls
<1> HIDE DEF r, w
<1>4. <<>> \o <<>> = <<>> /\ <<r>> \o <<>> = <<r>> /\ <<>> \o <<w>> = <<w>>
  OBVIOUS
<1>5. CASE "read" \in Ready(p)
  <2>1. reg[p] = {"read"} /\ "write" \notin Ready(p)
    BY <1>1, <1>5, OneEvent
  <2>2. Calls(p) = <<r>>
    BY <1>3, <1>4, <1>5, <2>1
  <2> QED BY <1>2, <2>1, <2>2, OneOrNone
<1>6. CASE "read" \notin Ready(p) /\ "write" \in Ready(p)
  <2>1. reg[p] = {"write"}
    BY <1>1, <1>6, OneEvent
  <2>2. Calls(p) = <<w>>
    BY <1>3, <1>4, <1>6
  <2> QED BY <1>2, <2>1, <2>2, OneOrNone
<1>7. CASE "read" \notin Ready(p) /\ "write" \notin Ready(p)
  <2>1. Calls(p) = <<>>
    BY <1>3, <1>4, <1>7
  <2> QED BY <1>2, <2>1, OneOrNone
<1> QED BY <1>5, <1>6, <1>7

\* The calls a server can make in one batch: what each pointer is watched for, once.
Batch(calls) ==
  /\ calls \in Seq(Events)
  /\ \A i \in 1..Len(calls) : /\ Contains(rdllist, calls[i].ptr)
                              /\ reg[calls[i].ptr] = {calls[i].ev}
  /\ \A i, j \in 1..Len(calls) : calls[i].ptr = calls[j].ptr => i = j

\* The calls for some of the pointers in the list are a batch.
LEMMA AllCallsIn ==
  ASSUME TypeOK, Listed, Watched, NEW q \in Seq(Pointers), IsInjective(q),
         \A x : Contains(q, x) => Contains(rdllist, x)
  PROVE  Batch(AllCalls(q))
<1> DEFINE s == [i \in DOMAIN q |-> Calls(q[i])]
           n == Len(q)
           all == Joined(s, n)
<1>1. n \in Nat /\ DOMAIN q = 1..n /\ \A i \in 1..n : q[i] \in Pointers /\ Contains(q, q[i])
  BY DEF Contains
<1>2. \A i \in 1..n : s[i] = Calls(q[i])
  BY <1>1
<1>3. AllCalls(q) = all
  BY DEF AllCalls
<1> HIDE DEF s, n
<1>4. ASSUME NEW i \in 1..n
      PROVE  /\ s[i] \in Seq(Events) /\ IsInjective(s[i])
             /\ \A x : Contains(s[i], x) => x \in Events /\ x.ptr = q[i] /\ reg[q[i]] = {x.ev}
  BY <1>1, <1>2, CallsIn
<1>5. \A i, j \in 1..n : i # j => \A x : ~(Contains(s[i], x) /\ Contains(s[j], x))
  <2> SUFFICES ASSUME NEW i \in 1..n, NEW j \in 1..n, i # j, NEW x,
                      Contains(s[i], x), Contains(s[j], x)
               PROVE  FALSE
    OBVIOUS
  <2>1. q[i] = q[j]
    BY <1>4
  <2> QED BY <1>1, <2>1 DEF IsInjective
<1>6. /\ all \in Seq(Events)
      /\ IsInjective(all)
      /\ \A x : Contains(all, x) <=> \E i \in 1..n : Contains(s[i], x)
  <2>1. \A i \in 1..n : s[i] \in Seq(Events) /\ IsInjective(s[i])
    BY <1>4
  <2> QED BY <1>1, <1>5, <2>1, JoinedIn
<1> HIDE DEF all
<1>7. DOMAIN all = 1..Len(all) /\ \A k \in 1..Len(all) : all[k] \in Events
  BY <1>6
<1>8. ASSUME NEW k \in 1..Len(all)
      PROVE  Contains(rdllist, all[k].ptr) /\ reg[all[k].ptr] = {all[k].ev}
  <2>1. Contains(all, all[k])
    BY DEF Contains
  <2>2. PICK i \in 1..n : Contains(s[i], all[k])
    BY <1>6, <2>1
  <2>3. all[k].ptr = q[i] /\ reg[q[i]] = {all[k].ev}
    BY <1>4, <2>2
  <2> QED BY <1>1, <2>3
<1>9. ASSUME NEW k \in 1..Len(all), NEW l \in 1..Len(all), all[k].ptr = all[l].ptr
      PROVE  k = l
  <2>1. all[k].ev = all[l].ev
    BY <1>8, <1>9
  <2>2. all[k] = all[l]
    BY <1>7, <1>9, <2>1 DEF Events
  <2> QED BY <1>6, <1>7, <2>2 DEF IsInjective
<1> QED BY <1>3, <1>6, <1>8, <1>9 DEF Batch

\* The first of a sequence, at most POLL_MAX_EVENTS.
LEMMA FirstOfIs ==
  ASSUME NEW S, NEW seq \in Seq(S)
  PROVE  /\ FirstOf(seq) \in Seq(S)
         /\ Len(FirstOf(seq)) \in 0..Len(seq) /\ Len(FirstOf(seq)) <= POLL_MAX_EVENTS
         /\ \A i \in 1..Len(FirstOf(seq)) : i \in 1..Len(seq) /\ FirstOf(seq)[i] = seq[i]
<1> DEFINE m == Capped(Len(seq), POLL_MAX_EVENTS)
<1>1. Len(seq) \in Nat /\ m \in 0..Len(seq) /\ m <= POLL_MAX_EVENTS
  BY EventsAssumption DEF Capped
<1>2. FirstOf(seq) = SubSeq(seq, 1, m)
  BY DEF FirstOf
<1> HIDE DEF m
<1>3. /\ SubSeq(seq, 1, m) \in Seq(S) /\ Len(SubSeq(seq, 1, m)) = m
      /\ \A i \in 1..m : SubSeq(seq, 1, m)[i] = seq[i]
  BY <1>1, SubSeqProperties
<1> QED BY <1>1, <1>2, <1>3

\* Either event layer returns a batch.
LEMMA ArrayIn ==
  ASSUME TypeOK, Listed, Watched
  PROVE  Batch(Array)
<1>1. /\ Found \in Seq(Pointers) /\ IsInjective(Found)
      /\ \A x : Contains(Found, x) => Contains(rdllist, x)
  BY KeptIn DEF Found, TypeOK, Listed
<1>2. Batch(EpollArray)
  <2> DEFINE q == FirstOf(Found)
  <2>1. /\ q \in Seq(Pointers)
        /\ \A i \in 1..Len(q) : i \in 1..Len(Found) /\ q[i] = Found[i]
    BY <1>1, FirstOfIs
  <2> HIDE DEF q
  <2>2. DOMAIN q = 1..Len(q) /\ DOMAIN Found = 1..Len(Found)
    BY <1>1, <2>1
  <2>3. IsInjective(q)
    BY <1>1, <2>1, <2>2 DEF IsInjective
  <2>4. \A x : Contains(q, x) => Contains(Found, x)
    BY <2>1 DEF Contains
  <2>5. Batch(AllCalls(q))
    BY <1>1, <2>1, <2>3, <2>4, AllCallsIn
  <2> QED BY <2>5 DEF EpollArray, q
<1>3. Batch(KqueueArray)
  <2> DEFINE all == AllCalls(Found)
             a == FirstOf(all)
  <2>1. Batch(all)
    BY <1>1, AllCallsIn
  <2> HIDE DEF all
  <2>2. /\ a \in Seq(Events) /\ Len(a) <= Len(all)
        /\ \A i \in 1..Len(a) : i \in 1..Len(all) /\ a[i] = all[i]
    BY <2>1, FirstOfIs DEF Batch
  <2> HIDE DEF a
  <2>3. Batch(a)
    BY <2>1, <2>2 DEF Batch
  <2> QED BY <2>3 DEF KqueueArray, a, all
<1> QED BY <1>2, <1>3 DEF Array

\* What has been returned goes to the end of the list, and nothing leaves it.
LEMMA RotatedIn ==
  ASSUME TypeOK, Listed, NEW a, Batch(a)
  PROVE  /\ Rotated(a) \in Seq(Pointers)
         /\ IsInjective(Rotated(a))
         /\ \A x : Contains(Rotated(a), x) <=> Contains(rdllist, x)
<1> DEFINE out == [i \in 1..Len(a) |-> a[i].ptr]
           rest == Unlisted(ToSet(out))
<1>1. /\ Len(a) \in Nat
      /\ \A i \in 1..Len(a) : a[i].ptr \in Pointers /\ Contains(rdllist, a[i].ptr)
      /\ \A i, j \in 1..Len(a) : a[i].ptr = a[j].ptr => i = j
  <2>1. a \in Seq(Events)
    BY DEF Batch
  <2>2. Len(a) \in Nat /\ \A i \in 1..Len(a) : a[i] \in Events
    BY <2>1
  <2>3. \A i \in 1..Len(a) : a[i].ptr \in Pointers
    BY <2>2 DEF Events
  <2> QED BY <2>2, <2>3 DEF Batch
<1>2. /\ out \in Seq(Pointers) /\ Len(out) = Len(a) /\ DOMAIN out = 1..Len(a)
      /\ \A i \in 1..Len(a) : out[i] = a[i].ptr
  BY <1>1
<1>3. Rotated(a) = rest \o out
  BY DEF Rotated
<1> HIDE DEF out
<1>4. IsInjective(out) /\ \A x : Contains(out, x) <=> x \in ToSet(out)
  BY <1>1, <1>2 DEF IsInjective, Contains, ToSet
<1>5. \A x : Contains(out, x) => Contains(rdllist, x)
  BY <1>1, <1>2 DEF Contains
<1>6. \A x : Contains(rdllist, x) => x \in Pointers
  BY DEF TypeOK, Contains
<1>7. /\ rest \in Seq(Pointers) /\ IsInjective(rest)
      /\ \A x : Contains(rest, x) <=> x \in Pointers \ ToSet(out) /\ Contains(rdllist, x)
  BY KeptIn DEF Unlisted, TypeOK, Listed
<1> HIDE DEF rest
<1>8. \A x : ~(Contains(rest, x) /\ Contains(out, x))
  BY <1>4, <1>7
<1>9. /\ rest \o out \in Seq(Pointers) /\ IsInjective(rest \o out)
      /\ \A x : Contains(rest \o out, x) <=> Contains(rest, x) \/ Contains(out, x)
  BY <1>2, <1>4, <1>7, <1>8, ConcatIn
<1> QED BY <1>3, <1>4, <1>5, <1>6, <1>7, <1>9
-----------------------------------------------------------------------------
(* The event layer                                                         *)

\* The set of what is in a sequence of pointers.
LEMMA PolledIs ==
  ASSUME NEW S, NEW seq \in Seq(S), NEW R \in SUBSET S
  PROVE  ToSet(seq) = R <=> \A x \in S : Contains(seq, x) <=> x \in R
<1>1. \A x : x \in ToSet(seq) <=> Contains(seq, x)
  BY DEF ToSet, Contains
<1>2. \A x : x \in ToSet(seq) => x \in S
  BY DEF ToSet
<1> QED BY <1>1, <1>2

\* Appending what is not there yet.
LEMMA AppendIn ==
  ASSUME NEW S, NEW seq \in Seq(S), IsInjective(seq), NEW e \in S, ~Contains(seq, e)
  PROVE  /\ Append(seq, e) \in Seq(S)
         /\ IsInjective(Append(seq, e))
         /\ \A x : Contains(Append(seq, e), x) <=> x = e \/ Contains(seq, x)
<1>1. Append(seq, e) = seq \o <<e>>
  OBVIOUS
<1>2. /\ <<e>> \in Seq(S) /\ IsInjective(<<e>>)
      /\ \A x : ~(Contains(seq, x) /\ Contains(<<e>>, x))
  BY OneOrNone
<1>3. /\ seq \o <<e>> \in Seq(S) /\ IsInjective(seq \o <<e>>)
      /\ \A x : Contains(seq \o <<e>>, x) <=> Contains(seq, x) \/ Contains(<<e>>, x)
  BY <1>2, ConcatIn
<1> QED BY <1>1, <1>3, OneOrNone

\* What is listed after event_set: what was, and the pointer.
LEMMA EventSetIn ==
  ASSUME TypeOK, Listed, NEW s \in Structs, NEW flag \in {"read", "write"}, event_set(s, flag)
  PROVE  /\ reg' = [reg EXCEPT ![s] = {flag}] /\ reg' \in [Pointers -> SUBSET {"read", "write"}]
         /\ rdllist' \in Seq(Pointers) /\ Listed'
         /\ \A x : Contains(rdllist', x) <=> x = s \/ Contains(rdllist, x)
<1>1. s \in Pointers /\ s # LISTEN /\ LISTEN \in Pointers
  BY NamesAssumption DEF Pointers
<1>2. /\ rdllist \in Seq(Pointers) /\ IsInjective(rdllist)
      /\ reg \in [Pointers -> SUBSET {"read", "write"}] /\ reg[LISTEN] = {"read"}
  BY DEF TypeOK, Listed
<1>3. reg' = [reg EXCEPT ![s] = {flag}]
  BY DEF event_set, epoll_set, kqueue_set
<1>4. reg' \in [Pointers -> SUBSET {"read", "write"}] /\ reg'[LISTEN] = {"read"}
  BY <1>1, <1>2, <1>3
<1>5. ASSUME rdllist' = IF Contains(rdllist, s) THEN rdllist ELSE Append(rdllist, s)
      PROVE  /\ rdllist' \in Seq(Pointers) /\ IsInjective(rdllist')
             /\ \A x : Contains(rdllist', x) <=> x = s \/ Contains(rdllist, x)
  BY <1>1, <1>2, <1>5, AppendIn
<1>6. ASSUME rdllist' = Append(Unlisted({s}), s)
      PROVE  /\ rdllist' \in Seq(Pointers) /\ IsInjective(rdllist')
             /\ \A x : Contains(rdllist', x) <=> x = s \/ Contains(rdllist, x)
  <2>1. /\ Unlisted({s}) \in Seq(Pointers) /\ IsInjective(Unlisted({s}))
        /\ \A x : Contains(Unlisted({s}), x) <=> x \in Pointers \ {s} /\ Contains(rdllist, x)
    BY <1>2, KeptIn DEF Unlisted
  <2>2. \A x : Contains(rdllist, x) => x \in Pointers
    BY <1>2 DEF Contains
  <2>3. ~Contains(Unlisted({s}), s)
    BY <2>1
  <2> HIDE DEF Unlisted
  <2>4. /\ Append(Unlisted({s}), s) \in Seq(Pointers) /\ IsInjective(Append(Unlisted({s}), s))
        /\ \A x : Contains(Append(Unlisted({s}), s), x) <=> x = s \/ Contains(Unlisted({s}), x)
    BY <1>1, <2>1, <2>3, AppendIn
  <2> QED BY <1>6, <2>1, <2>2, <2>4
<1>7. \/ rdllist' = IF Contains(rdllist, s) THEN rdllist ELSE Append(rdllist, s)
      \/ rdllist' = Append(Unlisted({s}), s)
  BY DEF event_set, epoll_set, kqueue_set
<1> QED BY <1>3, <1>4, <1>5, <1>6, <1>7 DEF Listed

\* What is listed after event_del: what was, without the structures.
LEMMA EventDelIn ==
  ASSUME TypeOK, Listed, NEW C \in SUBSET Structs, event_del(C)
  PROVE  /\ reg' \in [Pointers -> SUBSET {"read", "write"}]
         /\ \A p \in Pointers : reg'[p] = IF p \in C THEN {} ELSE reg[p]
         /\ rdllist' \in Seq(Pointers) /\ Listed'
         /\ \A x : Contains(rdllist', x) <=> x \in Pointers \ C /\ Contains(rdllist, x)
<1>1. LISTEN \in Pointers /\ LISTEN \notin C
  BY NamesAssumption DEF Pointers
<1>2. /\ rdllist \in Seq(Pointers) /\ IsInjective(rdllist)
      /\ reg \in [Pointers -> SUBSET {"read", "write"}] /\ reg[LISTEN] = {"read"}
  BY DEF TypeOK, Listed
<1>3. reg' = [p \in Pointers |-> IF p \in C THEN {} ELSE reg[p]] /\ rdllist' = Unlisted(C)
  BY DEF event_del
<1>4. /\ reg' \in [Pointers -> SUBSET {"read", "write"}] /\ reg'[LISTEN] = {"read"}
      /\ \A p \in Pointers : reg'[p] = IF p \in C THEN {} ELSE reg[p]
  BY <1>1, <1>2, <1>3
<1>5. /\ Unlisted(C) \in Seq(Pointers) /\ IsInjective(Unlisted(C))
      /\ \A x : Contains(Unlisted(C), x) <=> x \in Pointers \ C /\ Contains(rdllist, x)
  BY <1>2, KeptIn DEF Unlisted
<1> QED BY <1>3, <1>4, <1>5 DEF Listed
-----------------------------------------------------------------------------
(* The steps, and what they leave sound                                    *)

\* Watched, in terms of what sequences contain.
Held ==
  /\ IsInjective(conns)
  /\ \A s \in Structs : fd[s] # NULL => Contains(conns, s)
  /\ \A s \in Structs :
       reg[s] = IF fd[s] = NULL THEN {} ELSE IF todo[s] = 0 THEN {"read"} ELSE {"write"}
  /\ \A s, t \in Structs : fd[s] = fd[t] => s = t \/ fd[s] = NULL
  /\ \A c \in Clients : sock[c] \in {"open", "gone"} <=> \E s \in Structs : fd[s] = c
  /\ \A p \in Pointers : Contains(rdllist, p) <=> reg[p] # {}

\* The two ways to say it agree.
LEMMA WatchedIs == rdllist \in Seq(Pointers) => (Watched <=> Held)
<1> SUFFICES ASSUME rdllist \in Seq(Pointers) PROVE Watched <=> Held
  OBVIOUS
<1> DEFINE R == {p \in Pointers : reg[p] # {}}
<1>1. ToSet(rdllist) = R <=> \A p \in Pointers : Contains(rdllist, p) <=> p \in R
  <2>1. R \in SUBSET Pointers
    OBVIOUS
  <2> HIDE DEF R
  <2> QED BY <2>1, PolledIs
<1>2. \A p \in Pointers : p \in R <=> reg[p] # {}
  OBVIOUS
<1> HIDE DEF R
<1>3. Watched => Held
  BY <1>1, <1>2 DEF Watched, Held, IsInjective, R
<1>4. Held => Watched
  BY <1>1, <1>2 DEF Watched, Held, IsInjective, R
<1> QED BY <1>3, <1>4

\* In the next state too.
LEMMA WatchedNext == (rdllist \in Seq(Pointers) => (Watched <=> Held))'
  BY WatchedIs, PTL

\* A step that changes at most C, as far as the array can tell.
Only(C) == \A t \in Structs \ C : fd'[t] = fd[t] /\ reg'[t] = reg[t] /\ todo'[t] = todo[t]

\* What every step keeps, or makes of the array.
Goes == backend' = backend /\ events' \in Seq(Events)

\* Closing structures.
LEMMA DisconnectIn ==
  ASSUME Sound, NEW C \in SUBSET Structs, disconnect_conn(C), Goes
  PROVE  Sound' /\ Only(C)
<1> DEFINE left == {fd[s] : s \in C}
<1>1. TypeOK /\ Queued /\ Listed /\ Held /\ NULL \notin Clients
  BY WatchedIs, NamesAssumption DEF Sound, TypeOK
<1>2. /\ fd' = [s \in Structs |-> IF s \in C THEN NULL ELSE fd[s]]
      /\ todo' = [s \in Structs |-> IF s \in C THEN 0 ELSE todo[s]]
      /\ event_del(C)
      /\ sock' = [c \in Clients |-> IF c \in left THEN "away" ELSE sock[c]]
      /\ conns' = conns /\ backlog' = backlog
  BY DEF disconnect_conn
<1>3. /\ reg' \in [Pointers -> SUBSET {"read", "write"}]
      /\ \A p \in Pointers : reg'[p] = IF p \in C THEN {} ELSE reg[p]
      /\ rdllist' \in Seq(Pointers) /\ Listed'
      /\ \A x : Contains(rdllist', x) <=> x \in Pointers \ C /\ Contains(rdllist, x)
  BY <1>1, <1>2, EventDelIn
<1>4. \A s \in Structs : s \in Pointers
  BY DEF Pointers
<1>5. /\ \A s \in Structs : fd'[s] = IF s \in C THEN NULL ELSE fd[s]
      /\ \A s \in Structs : todo'[s] = IF s \in C THEN 0 ELSE todo[s]
      /\ \A c \in Clients : sock'[c] = IF c \in left THEN "away" ELSE sock[c]
  BY <1>2
<1>6. TypeOK'
  BY <1>1, <1>2, <1>3 DEF TypeOK, Goes
<1>7. \A c \in Clients : c \in left => sock[c] \in {"open", "gone"}
  BY <1>1 DEF Held
<1> HIDE DEF left
<1>8. Queued'
  BY <1>1, <1>2, <1>5, <1>7 DEF Queued
<1>9. \A c \in Clients : sock'[c] \in {"open", "gone"} <=> \E s \in Structs : fd'[s] = c
  <2> SUFFICES ASSUME NEW c \in Clients
               PROVE  sock'[c] \in {"open", "gone"} <=> \E s \in Structs : fd'[s] = c
    OBVIOUS
  <2>1. CASE c \in left
    <3>1. PICK s \in C : fd[s] = c
      BY <2>1 DEF left
    <3>2. ASSUME NEW t \in Structs, fd'[t] = c PROVE FALSE
      <4>1. t \notin C /\ fd[t] = c
        BY <1>1, <1>5, <3>2
      <4>2. fd[t] = fd[s] /\ fd[t] # NULL /\ t # s
        BY <1>1, <3>1, <4>1
      <4> QED BY <1>1, <3>1, <4>2 DEF Held
    <3> QED BY <1>5, <2>1, <3>2
  <2>2. CASE c \notin left
    <3>1. \A s \in C : fd[s] # c
      BY <2>2 DEF left
    <3>2. \A s \in Structs : fd'[s] = c <=> fd[s] = c
      BY <1>1, <1>5, <3>1
    <3> QED BY <1>1, <1>5, <2>2, <3>2 DEF Held
  <2> QED BY <2>1, <2>2
<1>10. Held'
  <2>1. IsInjective(conns') /\ \A s \in Structs : fd'[s] # NULL => Contains(conns', s)
    BY <1>1, <1>2, <1>5 DEF Held
  <2>2. \A s \in Structs :
          reg'[s] = IF fd'[s] = NULL THEN {} ELSE IF todo'[s] = 0 THEN {"read"} ELSE {"write"}
    <3> SUFFICES ASSUME NEW s \in Structs
                 PROVE  reg'[s] = IF fd'[s] = NULL THEN {} ELSE IF todo'[s] = 0 THEN {"read"} ELSE {"write"}
      OBVIOUS
    <3>1. reg'[s] = IF s \in C THEN {} ELSE reg[s]
      BY <1>3, <1>4
    <3>2. reg[s] = IF fd[s] = NULL THEN {} ELSE IF todo[s] = 0 THEN {"read"} ELSE {"write"}
      BY <1>1 DEF Held
    <3>3. fd'[s] = IF s \in C THEN NULL ELSE fd[s]
      BY <1>5
    <3>4. todo'[s] = IF s \in C THEN 0 ELSE todo[s]
      BY <1>5
    <3> QED BY <3>1, <3>2, <3>3, <3>4
  <2>3. \A s, t \in Structs : fd'[s] = fd'[t] => s = t \/ fd'[s] = NULL
    BY <1>1, <1>5 DEF Held
  <2>4. \A p \in Pointers : Contains(rdllist', p) <=> reg'[p] # {}
    BY <1>1, <1>3 DEF Held
  <2> QED BY <1>9, <2>1, <2>2, <2>3, <2>4 DEF Held
<1>11. Watched'
  BY <1>3, <1>10, WatchedNext
<1>12. Only(C)
  BY <1>3, <1>4, <1>5 DEF Only
<1>13. FreeIsIdle'
  BY <1>5 DEF Sound, FreeIsIdle
<1> QED BY <1>3, <1>6, <1>8, <1>11, <1>12, <1>13 DEF Sound

\* A connected structure that turns from reading to sending or back, or goes on.
LEMMA TurnIn ==
  ASSUME Sound, NEW s \in Structs, fd[s] # NULL, NEW n \in Nat,
         todo' = [todo EXCEPT ![s] = n],
         \/ event_set(s, IF n = 0 THEN "read" ELSE "write")
         \/ UNCHANGED kernel /\ (n = 0 <=> todo[s] = 0),
         UNCHANGED <<conns, fd, backlog, sock>>, Goes
  PROVE  Sound' /\ Only({s})
<1> DEFINE flag == IF n = 0 THEN "read" ELSE "write"
<1>1. TypeOK /\ Queued /\ Listed /\ Held /\ s \in Pointers
  BY WatchedIs DEF Sound, TypeOK, Pointers
<1>2. flag \in {"read", "write"}
  OBVIOUS
<1>3. /\ reg \in [Pointers -> SUBSET {"read", "write"}] /\ rdllist \in Seq(Pointers)
      /\ \A t \in Structs : todo'[t] = IF t = s THEN n ELSE todo[t]
      /\ todo' \in [Structs -> Nat]
  BY <1>1 DEF TypeOK
<1>4. reg[s] = IF todo[s] = 0 THEN {"read"} ELSE {"write"}
  BY <1>1 DEF Held
<1>5. \A p \in Pointers : Contains(rdllist, p) <=> reg[p] # {}
  BY <1>1 DEF Held
<1>6. /\ reg' \in [Pointers -> SUBSET {"read", "write"}]
      /\ \A p \in Pointers : reg'[p] = IF p = s THEN {flag} ELSE reg[p]
      /\ rdllist' \in Seq(Pointers) /\ Listed'
      /\ \A p \in Pointers : Contains(rdllist', p) <=> reg'[p] # {}
  <2>1. CASE event_set(s, flag)
    <3> HIDE DEF flag
    <3>1. /\ reg' = [reg EXCEPT ![s] = {flag}] /\ reg' \in [Pointers -> SUBSET {"read", "write"}]
          /\ rdllist' \in Seq(Pointers) /\ Listed'
          /\ \A x : Contains(rdllist', x) <=> x = s \/ Contains(rdllist, x)
      BY <1>1, <1>2, <2>1, EventSetIn
    <3>2. \A p \in Pointers : reg'[p] = IF p = s THEN {flag} ELSE reg[p]
      BY <1>3, <3>1
    <3> QED BY <1>5, <3>1, <3>2
  <2>2. CASE UNCHANGED kernel /\ (n = 0 <=> todo[s] = 0)
    <3>1. reg' = reg /\ rdllist' = rdllist /\ reg[s] = {flag}
      BY <1>4, <2>2 DEF kernel
    <3> HIDE DEF flag
    <3> QED BY <1>1, <1>3, <1>5, <3>1 DEF Listed
  <2> QED BY <2>1, <2>2
<1>7. conns' = conns /\ fd' = fd /\ backlog' = backlog /\ sock' = sock
  OBVIOUS
<1>8. TypeOK'
  BY <1>1, <1>3, <1>6, <1>7 DEF TypeOK, Goes
<1>9. Queued'
  BY <1>1, <1>7 DEF Queued
<1>10. \A t \in Structs :
         reg'[t] = IF fd'[t] = NULL THEN {} ELSE IF todo'[t] = 0 THEN {"read"} ELSE {"write"}
  <2> SUFFICES ASSUME NEW t \in Structs
               PROVE  reg'[t] = IF fd'[t] = NULL THEN {}
                                ELSE IF todo'[t] = 0 THEN {"read"} ELSE {"write"}
    OBVIOUS
  <2>1. t \in Pointers
    BY DEF Pointers
  <2>2. CASE t = s
    BY <1>3, <1>6, <1>7, <2>1, <2>2
  <2>3. CASE t # s
    BY <1>1, <1>3, <1>6, <1>7, <2>1, <2>3 DEF Held
  <2> QED BY <2>2, <2>3
<1>11. Held'
  BY <1>1, <1>6, <1>7, <1>10 DEF Held
<1>12. Watched'
  BY <1>6, <1>11, WatchedNext
<1>13. Only({s})
  BY <1>3, <1>6, <1>7 DEF Only, Pointers
<1>14. FreeIsIdle'
  BY <1>3, <1>7 DEF Sound, FreeIsIdle
<1> QED BY <1>6, <1>8, <1>9, <1>12, <1>13, <1>14 DEF Sound

\* Nothing that Sound or the array is about.
LEMMA StillIn ==
  ASSUME Sound, UNCHANGED <<conns, fd, todo, reg, rdllist, backlog, sock>>, Goes
  PROVE  Sound' /\ Only({})
<1>1. /\ conns' = conns /\ fd' = fd /\ todo' = todo /\ reg' = reg /\ rdllist' = rdllist
      /\ backlog' = backlog /\ sock' = sock /\ backend' = backend /\ events' \in Seq(Events)
  BY DEF Goes
<1>2. TypeOK'
  BY <1>1 DEF Sound, TypeOK
<1>3. Queued' /\ FreeIsIdle' /\ Listed' /\ Watched'
  BY <1>1 DEF Sound, Queued, FreeIsIdle, Listed, Watched
<1> QED BY <1>1, <1>2, <1>3 DEF Sound, Only

\* The structure that make_conn returns is free, and in the list afterwards.
LEMMA MakeConnIn ==
  ASSUME Sound, NEW s \in Structs, make_conn(s)
  PROVE  /\ fd[s] = NULL
         /\ conns' \in Seq(Pointers) /\ IsInjective(conns')
         /\ \A x : Contains(conns', x) <=> x = s \/ Contains(conns, x)
<1>1. conns \in Seq(Pointers) /\ Held /\ s \in Pointers
  BY WatchedIs DEF Sound, TypeOK, Pointers
<1>2. IsInjective(conns) /\ (fd[s] # NULL => Contains(conns, s))
  BY <1>1 DEF Held
<1>3. /\ Free \in Seq(Pointers) /\ IsInjective(Free)
      /\ \A x : Contains(Free, x) <=> x \in {t \in Structs : fd[t] = NULL} /\ Contains(conns, x)
  BY <1>1, <1>2, KeptIn DEF Free
<1>4. CASE Free # <<>> /\ s = Head(Free) /\ UNCHANGED conns
  <2>1. Contains(Free, s)
    BY <1>3, <1>4, TailIn
  <2> QED BY <1>1, <1>2, <1>3, <1>4, <2>1
<1>5. CASE Free = <<>> /\ ~Contains(conns, s) /\ conns' = Cons(s, conns)
  BY <1>1, <1>2, <1>5, ConsIn
<1> QED BY <1>4, <1>5 DEF make_conn

\* A client is given a free structure, or turned away.
LEMMA AcceptIn ==
  ASSUME Sound, Accept, Goes
  PROVE  Sound' /\ \E C \in SUBSET Structs : (\A s \in C : fd[s] = NULL) /\ Only(C)
<1> DEFINE c == Head(backlog)
<1>1. /\ TypeOK /\ Queued /\ Listed /\ Held /\ NULL \notin Clients
      /\ backlog # <<>> /\ backlog' = Tail(backlog) /\ todo' = todo
  BY WatchedIs, NamesAssumption DEF Sound, TypeOK, Accept
<1>2. /\ c \in Clients /\ Contains(backlog, c)
      /\ backlog' \in Seq(Clients) /\ IsInjective(backlog')
      /\ \A x : Contains(backlog', x) <=> x # c /\ Contains(backlog, x)
  BY <1>1, TailIn DEF TypeOK, Queued
<1>3. /\ \/ \E s \in Structs :
              /\ make_conn(s)
              /\ fd' = [fd EXCEPT ![s] = c]
              /\ event_set(s, "read")
              /\ sock' = [sock EXCEPT ![c] = "open"]
         \/ /\ \/ UNCHANGED conns
               \/ \E s \in Structs : make_conn(s)
            /\ sock' = [sock EXCEPT ![c] = "away"]
            /\ UNCHANGED <<fd, kernel>>
  BY DEF Accept, Turned
<1> HIDE DEF c
<1>4. sock[c] = "queued" /\ \A s \in Structs : fd[s] # c
  BY <1>1, <1>2 DEF Queued, Held
<1>5. sock \in [Clients -> {"away", "queued", "open", "gone"}]
  BY <1>1 DEF TypeOK
<1>6. CASE \E s \in Structs : /\ make_conn(s)
                              /\ fd' = [fd EXCEPT ![s] = c]
                              /\ event_set(s, "read")
                              /\ sock' = [sock EXCEPT ![c] = "open"]
  <2> PICK s \in Structs : /\ make_conn(s)
                           /\ fd' = [fd EXCEPT ![s] = c]
                           /\ event_set(s, "read")
                           /\ sock' = [sock EXCEPT ![c] = "open"]
    BY <1>6
  <2>1. /\ fd[s] = NULL
        /\ conns' \in Seq(Pointers) /\ IsInjective(conns')
        /\ \A x : Contains(conns', x) <=> x = s \/ Contains(conns, x)
    BY MakeConnIn
  <2>2. /\ reg' = [reg EXCEPT ![s] = {"read"}] /\ reg' \in [Pointers -> SUBSET {"read", "write"}]
        /\ rdllist' \in Seq(Pointers) /\ Listed'
        /\ \A x : Contains(rdllist', x) <=> x = s \/ Contains(rdllist, x)
    BY <1>1, EventSetIn
  <2>3. /\ fd' \in [Structs -> Clients \cup {NULL}]
        /\ \A t \in Structs : fd'[t] = IF t = s THEN c ELSE fd[t]
        /\ \A p \in Pointers : reg'[p] = IF p = s THEN {"read"} ELSE reg[p]
        /\ sock' \in [Clients -> {"away", "queued", "open", "gone"}]
        /\ \A d \in Clients : sock'[d] = IF d = c THEN "open" ELSE sock[d]
    BY <1>1, <1>2, <1>5, <2>2 DEF TypeOK
  <2>4. TypeOK'
    BY <1>1, <1>2, <2>1, <2>2, <2>3 DEF TypeOK, Goes
  <2>5. Queued'
    BY <1>1, <1>2, <2>3 DEF Queued
  <2>6. \A t \in Structs :
          reg'[t] = IF fd'[t] = NULL THEN {} ELSE IF todo'[t] = 0 THEN {"read"} ELSE {"write"}
    <3>1. todo'[s] = 0
      BY <1>1, <2>1 DEF Sound, FreeIsIdle
    <3> QED BY <1>1, <1>2, <2>3, <3>1 DEF Held, Pointers
  <2>7. \A d \in Clients : sock'[d] \in {"open", "gone"} <=> \E t \in Structs : fd'[t] = d
    <3> SUFFICES ASSUME NEW d \in Clients
                 PROVE  sock'[d] \in {"open", "gone"} <=> \E t \in Structs : fd'[t] = d
      OBVIOUS
    <3>1. CASE d = c
      BY <2>3, <3>1
    <3>2. CASE d # c
      <4>1. \A t \in Structs : fd'[t] = d <=> fd[t] = d
        BY <1>1, <2>1, <2>3, <3>2
      <4> QED BY <1>1, <2>3, <3>2, <4>1 DEF Held
    <3> QED BY <3>1, <3>2
  <2>8. Held'
    <3>1. \A t \in Structs : fd'[t] # NULL => Contains(conns', t)
      BY <1>1, <2>1, <2>3 DEF Held
    <3>2. \A t, u \in Structs : fd'[t] = fd'[u] => t = u \/ fd'[t] = NULL
      BY <1>1, <1>4, <2>3 DEF Held
    <3>3. \A p \in Pointers : Contains(rdllist', p) <=> reg'[p] # {}
      <4> SUFFICES ASSUME NEW p \in Pointers PROVE Contains(rdllist', p) <=> reg'[p] # {}
        OBVIOUS
      <4>1. Contains(rdllist, p) <=> reg[p] # {}
        BY <1>1 DEF Held
      <4>2. Contains(rdllist', p) <=> p = s \/ Contains(rdllist, p)
        BY <2>2
      <4>3. reg'[p] = IF p = s THEN {"read"} ELSE reg[p]
        BY <2>3
      <4> QED BY <4>1, <4>2, <4>3
    <3> QED BY <2>1, <2>6, <2>7, <3>1, <3>2, <3>3 DEF Held
  <2>9. Watched'
    BY <2>2, <2>8, WatchedNext
  <2>10. FreeIsIdle'
    BY <1>1, <1>2, <2>3 DEF Sound, FreeIsIdle
  <2>11. Only({s})
    BY <1>1, <2>3 DEF Only, Pointers
  <2> QED BY <2>1, <2>2, <2>4, <2>5, <2>9, <2>10, <2>11 DEF Sound
<1>7. CASE /\ \/ UNCHANGED conns
              \/ \E s \in Structs : make_conn(s)
           /\ sock' = [sock EXCEPT ![c] = "away"]
           /\ UNCHANGED <<fd, kernel>>
  <2>1. fd' = fd /\ reg' = reg /\ rdllist' = rdllist
    BY <1>7 DEF kernel
  <2>2. /\ conns' \in Seq(Pointers) /\ IsInjective(conns')
        /\ \A x : Contains(conns, x) => Contains(conns', x)
    <3>1. CASE UNCHANGED conns
      BY <1>1, <3>1 DEF TypeOK, Held
    <3>2. CASE \E s \in Structs : make_conn(s)
      BY <3>2, MakeConnIn
    <3> QED BY <1>7, <3>1, <3>2
  <2>3. /\ sock' \in [Clients -> {"away", "queued", "open", "gone"}]
        /\ \A d \in Clients : sock'[d] = IF d = c THEN "away" ELSE sock[d]
    BY <1>2, <1>5, <1>7
  <2>4. TypeOK'
    BY <1>1, <1>2, <2>1, <2>2, <2>3 DEF TypeOK, Goes
  <2>5. Queued'
    BY <1>1, <1>2, <2>3 DEF Queued
  <2>6. \A d \in Clients : sock'[d] \in {"open", "gone"} <=> \E t \in Structs : fd'[t] = d
    BY <1>1, <1>4, <2>1, <2>3 DEF Held
  <2>7. Held'
    BY <1>1, <2>1, <2>2, <2>6 DEF Held
  <2>8. Watched'
    BY <1>1, <2>1, <2>7, WatchedNext DEF TypeOK
  <2>9. FreeIsIdle' /\ Listed'
    BY <1>1, <2>1 DEF Sound, FreeIsIdle, Listed
  <2>10. Only({})
    BY <1>1, <2>1 DEF Only
  <2> QED BY <2>4, <2>5, <2>8, <2>9, <2>10 DEF Sound
<1> QED BY <1>3, <1>6, <1>7

\* A reply that is put together turns the structure to sending.
LEMMA AddResponseIn ==
  ASSUME Sound, NEW s \in Structs, fd[s] # NULL, NEW n \in 1..MaxReply, add_response(s, n), Goes
  PROVE  Sound' /\ Only({s})
<1>1. n \in Nat /\ n # 0
  BY BoundsAssumption
<1>2. /\ todo' = [todo EXCEPT ![s] = n] /\ event_set(s, "write")
      /\ UNCHANGED <<conns, fd, backlog, sock>>
  BY DEF add_response
<1>3. event_set(s, IF n = 0 THEN "read" ELSE "write")
  BY <1>1, <1>2
<1> QED BY <1>1, <1>2, <1>3, TurnIn

\* Whatever an event does to the structure it is for.
LEMMA HandlerIn ==
  ASSUME Sound, NEW s \in Structs, NEW ev, event_handler(s, ev), Goes
  PROVE  Sound' /\ Only({s})
<1>1. CASE UNCHANGED <<conns, fd, todo, reg, rdllist, backlog, sock>>
  BY <1>1, StillIn DEF Only
<1>2. CASE disconnect_conn({s})
  BY <1>2, DisconnectIn
<1>3. CASE fd[s] # NULL /\ \E n \in 1..MaxReply : add_response(s, n)
  BY <1>3, AddResponseIn
<1>4. CASE fd[s] = NULL /\ UNCHANGED <<list, kernel, client>>
  BY <1>1, <1>4 DEF list, kernel, client
<1>5. CASE fd[s] # NULL /\ try_read_request(s)
  <2>1. CASE TakeByte(s)
    BY <1>1, <1>3, <1>5, <2>1 DEF TakeByte, kernel
  <2> QED BY <1>2, <1>5, <2>1 DEF try_read_request
<1>6. CASE fd[s] # NULL /\ todo[s] > 0 /\ try_send_response(s)
  <2>1. ASSUME todo' = [todo EXCEPT ![s] = @ - 1],
               IF todo[s] = 1 THEN event_set(s, "read") ELSE UNCHANGED kernel,
               UNCHANGED <<conns, fd, client>>
        PROVE  Sound' /\ Only({s})
    <3> DEFINE n == todo[s] - 1
    <3>1. todo[s] \in Nat /\ n \in Nat /\ (n = 0 <=> todo[s] = 1)
      BY <1>6 DEF Sound, TypeOK
    <3>2. todo' = [todo EXCEPT ![s] = n] /\ UNCHANGED <<backlog, sock>>
      BY <2>1 DEF client
    <3>3. \/ event_set(s, IF n = 0 THEN "read" ELSE "write")
          \/ UNCHANGED kernel /\ (n = 0 <=> todo[s] = 0)
      <4>1. CASE todo[s] = 1
        BY <2>1, <3>1, <4>1
      <4>2. CASE todo[s] # 1
        <5>1. n # 0 /\ todo[s] # 0
          BY <1>6, <3>1, <4>2
        <5> QED BY <2>1, <4>2, <5>1
      <4> QED BY <4>1, <4>2
    <3> HIDE DEF n
    <3> QED BY <1>6, <2>1, <3>1, <3>2, <3>3, TurnIn
  <2> QED BY <1>2, <1>6, <2>1 DEF try_send_response
<1> QED BY <1>3, <1>4, <1>5, <1>6 DEF event_handler

\* What is left of the array is as fresh as it was if a step changes nothing but the
\* structure whose event was handled, and structures that were free.
LEMMA FreshTail ==
  ASSUME Sound, BatchFresh, events # <<>>, events' = Tail(events),
         NEW C \in SUBSET Structs, Only(C),
         \A s \in C : s = Head(events).ptr \/ fd[s] = NULL
  PROVE  BatchFresh'
<1> DEFINE n == Len(events)
<1>1. /\ n \in Nat /\ n >= 1 /\ DOMAIN events = 1..n /\ Head(events) = events[1]
      /\ DOMAIN events' = 1..(n - 1)
      /\ \A i \in 1..(n - 1) : i + 1 \in 1..n /\ events'[i] = events[i + 1]
      /\ \A i \in 1..n : events[i] \in Events
  BY DEF Sound, TypeOK
<1> HIDE DEF n
<1>2. ASSUME NEW i \in 1..(n - 1), events'[i].ptr # LISTEN
      PROVE  /\ fd'[events'[i].ptr] # NULL
             /\ reg'[events'[i].ptr] = {events'[i].ev}
             /\ events'[i].ev = "write" <=> todo'[events'[i].ptr] > 0
  <2> DEFINE e == events[i + 1]
  <2>1. events'[i] = e /\ i + 1 \in 1..n /\ i + 1 # 1 /\ 1 \in 1..n
    BY <1>1
  <2>2. e.ptr \in Structs
    BY <1>1, <1>2, <2>1 DEF Events, Pointers
  <2>3. /\ fd[e.ptr] # NULL /\ reg[e.ptr] = {e.ev} /\ (e.ev = "write" <=> todo[e.ptr] > 0)
        /\ e.ptr # events[1].ptr
    BY <1>1, <1>2, <2>1 DEF BatchFresh
  <2>4. e.ptr \notin C
    BY <1>1, <2>3
  <2> HIDE DEF e
  <2>5. fd'[e.ptr] = fd[e.ptr] /\ reg'[e.ptr] = reg[e.ptr] /\ todo'[e.ptr] = todo[e.ptr]
    BY <2>2, <2>4 DEF Only
  <2> QED BY <2>1, <2>3, <2>5
<1>3. ASSUME NEW i \in 1..(n - 1), NEW j \in 1..(n - 1), events'[j].ptr = events'[i].ptr
      PROVE  i = j
  <2>1. i + 1 \in 1..n /\ j + 1 \in 1..n /\ events[j + 1].ptr = events[i + 1].ptr
    BY <1>1, <1>3
  <2>2. i + 1 = j + 1
    BY <1>1, <2>1 DEF BatchFresh
  <2> QED BY <2>2
<1> QED BY <1>1, <1>2, <1>3 DEF BatchFresh

\* If there is nothing left of the array, or if nothing changes, the rest is fresh.
LEMMA FreshStill ==
  ASSUME BatchFresh, events' = events, events = <<>> \/ UNCHANGED <<fd, todo, reg>>
  PROVE  BatchFresh'
<1>1. CASE events = <<>>
  BY <1>1 DEF BatchFresh
<1>2. CASE UNCHANGED <<fd, todo, reg>>
  BY <1>2 DEF BatchFresh
<1> QED BY <1>1, <1>2
-----------------------------------------------------------------------------
(* The invariant                                                           *)

\* The server starts with nobody there.
LEMMA InitIn == Init => IInv
<1> SUFFICES ASSUME Init PROVE IInv
  OBVIOUS
<1>1. /\ LISTEN \in Pointers /\ LISTEN \notin Structs /\ NULL \notin Clients
      /\ \A s \in Structs : s \in Pointers /\ s # LISTEN
  BY NamesAssumption DEF Pointers
<1>2. /\ conns = <<LISTEN>> /\ rdllist = <<LISTEN>> /\ events = <<>> /\ backlog = <<>>
      /\ \A s \in Structs : fd[s] = NULL /\ todo[s] = 0
      /\ \A p \in Pointers : reg[p] = IF p = LISTEN THEN {"read"} ELSE {}
      /\ \A c \in Clients : sock[c] = "away"
  BY DEF Init
<1>3. /\ <<LISTEN>> \in Seq(Pointers) /\ IsInjective(<<LISTEN>>)
      /\ \A x : Contains(<<LISTEN>>, x) <=> x = LISTEN
  BY <1>1, OneOrNone
<1>4. IsInjective(backlog) /\ \A x : ~Contains(backlog, x)
  BY <1>2, OneOrNone
<1>5. TypeOK
  <2>1. /\ backend \in {"epoll", "kqueue"} /\ fd = [s \in Structs |-> NULL]
        /\ todo = [s \in Structs |-> 0]
        /\ reg = [p \in Pointers |-> IF p = LISTEN THEN {"read"} ELSE {}]
        /\ sock = [c \in Clients |-> "away"]
    BY DEF Init
  <2> QED BY <1>2, <1>3, <2>1 DEF TypeOK
<1>6. Held
  BY <1>1, <1>2, <1>3 DEF Held
<1>7. Watched
  BY <1>5, <1>6, WatchedIs DEF TypeOK
<1>8. Queued /\ FreeIsIdle /\ Listed
  BY <1>1, <1>2, <1>3, <1>4 DEF Queued, FreeIsIdle, Listed
<1>9. BatchFresh
  BY <1>2 DEF BatchFresh
<1> QED BY <1>5, <1>7, <1>8, <1>9 DEF IInv, Sound

\* What the kernel returns is fresh, and stays listed.
LEMMA PollKeeps == IInv /\ EventProcess => IInv'
<1> SUFFICES ASSUME IInv, EventProcess PROVE IInv'
  OBVIOUS
<1>1. TypeOK /\ Queued /\ FreeIsIdle /\ Listed /\ Watched /\ Held
  BY WatchedIs DEF IInv, Sound, TypeOK
<1>2. /\ events' = Array /\ rdllist' = Rotated(Array)
      /\ backend' = backend /\ reg' = reg /\ conns' = conns /\ fd' = fd /\ todo' = todo
      /\ backlog' = backlog /\ sock' = sock
  BY DEF EventProcess, list, client
<1>3. Batch(Array)
  BY <1>1, ArrayIn
<1>4. /\ rdllist' \in Seq(Pointers) /\ IsInjective(rdllist')
      /\ \A x : Contains(rdllist', x) <=> Contains(rdllist, x)
  BY <1>1, <1>2, <1>3, RotatedIn
<1>5. TypeOK'
  BY <1>1, <1>2, <1>3, <1>4 DEF TypeOK, Batch
<1>6. Held'
  BY <1>1, <1>2, <1>4 DEF Held
<1>7. Watched'
  BY <1>4, <1>6, WatchedNext
<1>8. Queued' /\ FreeIsIdle' /\ Listed'
  BY <1>1, <1>2, <1>4 DEF Queued, FreeIsIdle, Listed
<1>9. BatchFresh'
  <2> DEFINE a == Array
             n == Len(a)
  <2>1. /\ a \in Seq(Events) /\ n \in Nat /\ DOMAIN a = 1..n
        /\ \A i \in 1..n : a[i] \in Events /\ reg[a[i].ptr] = {a[i].ev}
        /\ \A i, j \in 1..n : a[i].ptr = a[j].ptr => i = j
    BY <1>3 DEF Batch
  <2> HIDE DEF a, n
  <2>2. ASSUME NEW i \in 1..n, a[i].ptr # LISTEN
        PROVE  fd[a[i].ptr] # NULL /\ (a[i].ev = "write" <=> todo[a[i].ptr] > 0)
    <3> DEFINE p == a[i].ptr
               v == a[i].ev
    <3>1. p \in Structs /\ v \in {"read", "write"} /\ reg[p] = {v}
      BY <2>1, <2>2 DEF Events, Pointers
    <3> HIDE DEF p, v
    <3>2. reg[p] = IF fd[p] = NULL THEN {} ELSE IF todo[p] = 0 THEN {"read"} ELSE {"write"}
      BY <1>1, <3>1 DEF Held
    <3>3. todo[p] \in Nat
      BY <1>1, <3>1 DEF TypeOK
    <3>4. fd[p] # NULL /\ (v = "write" <=> todo[p] > 0)
      BY <3>1, <3>2, <3>3
    <3> QED BY <3>4 DEF p, v
  <2>3. events' = a
    BY <1>2 DEF a
  <2> QED BY <1>2, <2>1, <2>2, <2>3 DEF BatchFresh
<1> QED BY <1>5, <1>7, <1>8, <1>9 DEF IInv, Sound

\* Handling an event leaves the others fresh.
LEMMA HandleKeeps == IInv /\ Handle => IInv'
<1> SUFFICES ASSUME IInv, Handle PROVE IInv'
  OBVIOUS
<1> DEFINE e == Head(events)
<1>1. /\ Sound /\ BatchFresh /\ events # <<>> /\ events' = Tail(events) /\ backend' = backend
      /\ events \in Seq(Events)
  BY DEF IInv, Sound, TypeOK, Handle
<1>2. Goes /\ e \in Events
  BY <1>1 DEF Goes
<1>3. \/ e.ptr # LISTEN /\ event_handler(e.ptr, e.ev)
      \/ Accept
      \/ UNCHANGED <<list, kernel, client>>
  BY DEF Handle
<1> HIDE DEF e
<1>4. ASSUME NEW C \in SUBSET Structs, Sound', Only(C), \A s \in C : s = e.ptr \/ fd[s] = NULL
      PROVE  IInv'
  <2>1. BatchFresh'
    BY <1>1, <1>4, FreshTail DEF e
  <2> QED BY <1>4, <2>1 DEF IInv
<1>5. CASE e.ptr # LISTEN /\ event_handler(e.ptr, e.ev)
  <2>1. e.ptr \in Structs
    BY <1>2, <1>5 DEF Events, Pointers
  <2>2. Sound' /\ Only({e.ptr})
    BY <1>1, <1>2, <1>5, <2>1, HandlerIn
  <2> QED BY <1>4, <2>1, <2>2
<1>6. CASE Accept
  <2>1. Sound' /\ \E C \in SUBSET Structs : (\A s \in C : fd[s] = NULL) /\ Only(C)
    BY <1>1, <1>2, <1>6, AcceptIn
  <2> QED BY <1>4, <2>1
<1>7. CASE UNCHANGED <<list, kernel, client>>
  <2>1. Sound' /\ Only({})
    BY <1>1, <1>2, <1>7, StillIn DEF list, kernel, client
  <2> QED BY <1>4, <2>1
<1> QED BY <1>3, <1>5, <1>6, <1>7

\* The audit closes structures when there is nothing left of the array.
LEMMA AuditKeeps == IInv /\ Audit => IInv'
<1> SUFFICES ASSUME IInv, Audit PROVE IInv'
  OBVIOUS
<1> DEFINE C == {s \in Structs : InFront(s) /\ age[s] > idle_conn_timeout}
<1>1. Sound /\ BatchFresh /\ events = <<>> /\ events' = events /\ backend' = backend
  BY DEF IInv, Audit
<1>2. C \in SUBSET Structs /\ disconnect_conn(C)
  BY DEF Audit, disconnect_idle_conns
<1>3. Goes
  BY <1>1 DEF Goes, Sound, TypeOK
<1> HIDE DEF C
<1>4. Sound'
  BY <1>1, <1>2, <1>3, DisconnectIn
<1>5. BatchFresh'
  BY <1>1, FreshStill
<1> QED BY <1>4, <1>5 DEF IInv

\* A client that connects is queued once.
LEMMA ConnectKeeps == ASSUME NEW c \in Clients PROVE IInv /\ Connect(c) => IInv'
<1> SUFFICES ASSUME IInv, Connect(c) PROVE IInv'
  OBVIOUS
<1>1. /\ TypeOK /\ Queued /\ FreeIsIdle /\ Listed /\ Watched /\ Held /\ BatchFresh
      /\ backlog \in Seq(Clients)
  BY WatchedIs DEF IInv, Sound, TypeOK
<1>2. /\ sock[c] = "away" /\ sock' = [sock EXCEPT ![c] = "queued"]
      /\ backlog' = Append(backlog, c)
      /\ backend' = backend /\ reg' = reg /\ conns' = conns /\ fd' = fd /\ todo' = todo
      /\ rdllist' = rdllist /\ events' = events
  BY DEF Connect, list, kernel, loop
<1>3. /\ sock' \in [Clients -> {"away", "queued", "open", "gone"}]
      /\ \A d \in Clients : sock'[d] = IF d = c THEN "queued" ELSE sock[d]
  BY <1>1, <1>2 DEF TypeOK
<1>4. ~Contains(backlog, c)
  BY <1>1, <1>2 DEF Queued
<1>5. /\ backlog' \in Seq(Clients) /\ IsInjective(backlog')
      /\ \A x : Contains(backlog', x) <=> x = c \/ Contains(backlog, x)
  BY <1>1, <1>2, <1>4, AppendIn DEF Queued
<1>6. TypeOK'
  BY <1>1, <1>2, <1>3, <1>5 DEF TypeOK
<1>7. Queued'
  BY <1>1, <1>3, <1>5 DEF Queued
<1>8. Held'
  <2>1. \A d \in Clients : sock'[d] \in {"open", "gone"} <=> sock[d] \in {"open", "gone"}
    BY <1>2, <1>3
  <2> QED BY <1>1, <1>2, <2>1 DEF Held
<1>9. Watched'
  BY <1>6, <1>8, WatchedNext DEF TypeOK
<1>10. FreeIsIdle' /\ Listed' /\ BatchFresh'
  BY <1>1, <1>2 DEF FreeIsIdle, Listed, BatchFresh
<1> QED BY <1>6, <1>7, <1>9, <1>10 DEF IInv, Sound

\* A client that closes its end leaves a socket that the server holds.
LEMMA LeaveKeeps == ASSUME NEW c \in Clients PROVE IInv /\ Leave(c) => IInv'
<1> SUFFICES ASSUME IInv, Leave(c) PROVE IInv'
  OBVIOUS
<1>1. TypeOK /\ Queued /\ FreeIsIdle /\ Listed /\ Watched /\ Held /\ BatchFresh
  BY WatchedIs DEF IInv, Sound, TypeOK
<1>2. /\ sock[c] = "open" /\ sock' = [sock EXCEPT ![c] = "gone"] /\ backlog' = backlog
      /\ backend' = backend /\ reg' = reg /\ conns' = conns /\ fd' = fd /\ todo' = todo
      /\ rdllist' = rdllist /\ events' = events
  BY DEF Leave, list, kernel, loop
<1>3. /\ sock' \in [Clients -> {"away", "queued", "open", "gone"}]
      /\ \A d \in Clients : sock'[d] = IF d = c THEN "gone" ELSE sock[d]
  BY <1>1, <1>2 DEF TypeOK
<1>4. TypeOK'
  BY <1>1, <1>2, <1>3 DEF TypeOK
<1>5. Queued'
  BY <1>1, <1>2, <1>3 DEF Queued
<1>6. Held'
  <2>1. \A d \in Clients : sock'[d] \in {"open", "gone"} <=> sock[d] \in {"open", "gone"}
    BY <1>2, <1>3
  <2> QED BY <1>1, <1>2, <2>1 DEF Held
<1>7. Watched'
  BY <1>4, <1>6, WatchedNext DEF TypeOK
<1>8. FreeIsIdle' /\ Listed' /\ BatchFresh'
  BY <1>1, <1>2 DEF FreeIsIdle, Listed, BatchFresh
<1> QED BY <1>4, <1>5, <1>7, <1>8 DEF IInv, Sound

\* A step that touches neither structures nor sockets.
LEMMA OtherKeeps ==
  IInv /\ UNCHANGED <<backend, conns, fd, todo, reg, rdllist, events, backlog, sock>> => IInv'
<1> SUFFICES ASSUME IInv,
                    UNCHANGED <<backend, conns, fd, todo, reg, rdllist, events, backlog, sock>>
             PROVE  IInv'
  OBVIOUS
<1>1. Goes
  BY DEF Goes, IInv, Sound, TypeOK
<1>2. Sound'
  BY <1>1, StillIn DEF IInv
<1>3. BatchFresh'
  BY FreshStill DEF IInv
<1> QED BY <1>2, <1>3 DEF IInv

\* In every reachable state.
THEOREM EventLoopInvariant == Spec => []IInv
<1>1. IInv /\ [Next]_vars => IInv'
  <2> SUFFICES ASSUME IInv, [Next]_vars PROVE IInv'
    OBVIOUS
  <2>1. CASE Loop
    <3>1. CASE NotDue
      BY <3>1, OtherKeeps DEF NotDue, list, kernel, client
    <3> QED BY <2>1, <3>1, PollKeeps, HandleKeeps, AuditKeeps DEF Loop
  <2>2. CASE Tick
    BY <2>2, OtherKeeps DEF Tick, kernel, client
  <2>3. ASSUME NEW c \in Clients, Connect(c) \/ Send(c) \/ Leave(c) PROVE IInv'
    <3>1. CASE Send(c)
      BY <3>1, OtherKeeps DEF Send, list, kernel, loop
    <3> QED BY <2>3, <3>1, ConnectKeeps, LeaveKeeps
  <2>4. CASE UNCHANGED vars
    BY <2>4, OtherKeeps DEF vars, list, kernel, loop, client
  <2> QED BY <2>1, <2>2, <2>3, <2>4 DEF Next
<1> QED BY <1>1, InitIn, PTL DEF Spec

\* Whoever connects, sends and leaves, and whatever closes them, the list, the event layer
\* and the clients agree.
THEOREM ListAndKernelAgree == Spec => []Watched
<1>1. IInv => Watched
  BY DEF IInv, Sound
<1> QED BY <1>1, EventLoopInvariant, PTL

\* No event that is left in the array is stale, although the structures are closed and
\* recycled while it is worked off, for any length of the array.
THEOREM NoStaleEvent == Spec => []BatchFresh
<1>1. IInv => BatchFresh
  BY DEF IInv
<1> QED BY <1>1, EventLoopInvariant, PTL
=============================================================================
