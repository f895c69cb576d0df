---------------------------- MODULE FramingProofs ----------------------------
(***************************************************************************)
(* A connection keeps its place in the stream, for any lengths of headers, *)
(* requests, replies and sockets and any number of requests sent ahead:    *)
(* bytes stay inside their buffers, the server is where the client is, the *)
(* replies can be told apart, and every request has its one reply.         *)
(***************************************************************************)
EXTENDS Framing, FiniteSetTheorems, SequenceTheorems, TLAPS

\* The bytes of requests, and of replies.
Sent     == [of : Headers, pos : Nat]
Answers  == [len : Nat, pos : Nat]

TypeOK ==
  /\ state \in Reading \cup Sending \cup {"CONN_CLOSED"}
  /\ rbytes \in 0..(WIDTH - 1) /\ sbytes \in Nat /\ dlen \in Nat
  /\ hdr \in Headers
  /\ wire \in Seq(Sent) /\ back \in Seq(Answers)
  /\ peer \in {"open", "gone", "reset"}
  /\ next \in Sent /\ owed \in Nat /\ excused \in BOOLEAN

\* What a section is counted up to, and that the count has not got there: only an error
\* of read takes it below 0, and after that there is nothing to read.
Counting ==
  /\ state \in Reading => Total \in 1..(WIDTH - 2) /\ (rbytes < Total \/ (peer = "gone" /\ wire = <<>>))
  /\ state \in Reading \ {"READ_HEADER"} => Fits(hdr)
  /\ peer = "reset" => wire = <<>>
  /\ state \in Sending => sbytes < SendTotal

\* b is what comes after a in the stream of requests.
Follows(a, b) == IF a.pos = Size(a.of) THEN b.pos = 1
                 ELSE b.of = a.of /\ b.pos = a.pos + 1

\* The byte the client sends next.
Coming == [of |-> next.of, pos |-> next.pos + 1]

\* The bytes on the way are those of whole requests, in order.
Stream ==
  /\ next.pos < Size(next.of)
  /\ \A i \in 1..(Len(wire) - 1) : Follows(wire[i], wire[i + 1])
  /\ wire # <<>> => Follows(wire[Len(wire)], Coming)

IInv == TypeOK /\ Counting /\ Stream /\ Aligned /\ RepliesFramed /\ OneReplyEach
-----------------------------------------------------------------------------
(* Sequences                                                               *)

\* Taking the first of a sequence leaves the others, one place earlier.
LEMMA TailIs ==
  ASSUME NEW S, NEW q \in Seq(S), q # <<>>
  PROVE  /\ Len(q) \in Nat /\ Len(q) > 0 /\ Head(q) = q[1] /\ q[1] \in S /\ q[Len(q)] \in S
         /\ Tail(q) \in Seq(S) /\ Len(Tail(q)) = Len(q) - 1
         /\ \A i \in 1..(Len(q) - 1) : Tail(q)[i] = q[i + 1]
  OBVIOUS

\* Appending leaves what is there where it is.
LEMMA AppendIs ==
  ASSUME NEW S, NEW q \in Seq(S), NEW e \in S
  PROVE  /\ Len(q) \in Nat /\ Append(q, e) \in Seq(S) /\ Len(Append(q, e)) = Len(q) + 1
         /\ \A i \in 1..Len(q) : Append(q, e)[i] = q[i]
         /\ Append(q, e)[Len(q) + 1] = e /\ Append(q, e) # <<>>
  OBVIOUS

\* Where the elements of A are in a sequence.
Places(q, A) == {i \in 1..Len(q) : q[i] \in A}

\* A sequence has finitely many places.
LEMMA PlacesFinite ==
  ASSUME NEW S, NEW q \in Seq(S), NEW A
  PROVE  IsFiniteSet(Places(q, A)) /\ Cardinality(Places(q, A)) \in Nat
<1>1. IsFiniteSet(1..Len(q))
  BY FS_Interval
<1>2. IsFiniteSet(Places(q, A))
  BY <1>1, FS_Subset DEF Places
<1> QED BY <1>2, FS_CardinalityType

\* Appending e adds a place for A exactly when e is in A.
LEMMA PlacesAppend ==
  ASSUME NEW S, NEW q \in Seq(S), NEW e \in S, NEW A
  PROVE  Cardinality(Places(Append(q, e), A)) = Cardinality(Places(q, A)) + IF e \in A THEN 1 ELSE 0
<1> DEFINE n == Len(q)
           r == Append(q, e)
<1>1. n \in Nat /\ Len(r) = n + 1 /\ (\A i \in 1..n : r[i] = q[i]) /\ r[n + 1] = e
  BY AppendIs
<1>2. IsFiniteSet(Places(q, A)) /\ Cardinality(Places(q, A)) \in Nat
  BY PlacesFinite
<1> HIDE DEF n, r
<1>3. CASE e \in A
  <2>1. Places(r, A) = Places(q, A) \cup {n + 1} /\ n + 1 \notin Places(q, A)
    BY <1>1, <1>3 DEF Places, n
  <2> QED BY <1>2, <1>3, <2>1, FS_AddElement DEF r
<1>4. CASE e \notin A
  <2>1. Places(r, A) = Places(q, A)
    BY <1>1, <1>4 DEF Places, n
  <2> QED BY <1>2, <1>4, <2>1 DEF r
<1> QED BY <1>3, <1>4

\* Taking the first off removes a place for A exactly when it is in A.
LEMMA PlacesTail ==
  ASSUME NEW S, NEW q \in Seq(S), q # <<>>, NEW A
  PROVE  Cardinality(Places(q, A)) = Cardinality(Places(Tail(q), A)) + IF Head(q) \in A THEN 1 ELSE 0
<1> DEFINE n == Len(q)
           r == Tail(q)
           B == Places(r, A)
           C == {i \in 2..n : q[i] \in A}
           f == [i \in B |-> i + 1]
<1>1. n \in Nat /\ n > 0 /\ Len(r) = n - 1 /\ (\A i \in 1..(n - 1) : r[i] = q[i + 1]) /\ Head(q) = q[1]
  BY TailIs
<1>2. IsFiniteSet(B) /\ Cardinality(B) \in Nat
  <2>1. r \in Seq(S)
    BY TailIs
  <2> QED BY <2>1, PlacesFinite
<1> HIDE DEF n, r
<1>3. f \in Bijection(B, C)
  <2>1. \A i \in B : i \in 1..(n - 1) /\ q[i + 1] \in A
    BY <1>1 DEF Places
  <2>2. f \in [B -> C]
    BY <1>1, <2>1
  <2>3. \A i, j \in B : f[i] = f[j] => i = j
    BY <1>1, <2>1
  <2>4. ASSUME NEW j \in C PROVE \E i \in B : f[i] = j
    <3>1. j - 1 \in 1..(n - 1) /\ q[j] \in A /\ (j - 1) + 1 = j
      BY <1>1
    <3>2. j - 1 \in B
      BY <1>1, <3>1 DEF Places
    <3> QED BY <3>1, <3>2
  <2> HIDE DEF B, C, f
  <2> QED BY <2>2, <2>3, <2>4 DEF Bijection, Injection, Surjection, IsInjective
<1>4. IsFiniteSet(C) /\ Cardinality(C) = Cardinality(B)
  <2> HIDE DEF f
  <2> QED BY <1>2, <1>3, FS_Bijection DEF ExistsBijection
<1>5. CASE Head(q) \in A
  <2>1. Places(q, A) = C \cup {1} /\ 1 \notin C
    BY <1>1, <1>5 DEF Places, n
  <2> HIDE DEF B, C
  <2>2. Cardinality(C \cup {1}) = Cardinality(C) + 1
    BY <1>4, <2>1, FS_AddElement
  <2> QED BY <1>4, <1>5, <2>1, <2>2 DEF B, r
<1>6. CASE Head(q) \notin A
  <2>1. Places(q, A) = C
    BY <1>1, <1>6 DEF Places, n
  <2> HIDE DEF C
  <2> QED BY <1>2, <1>4, <1>6, <2>1 DEF B, r
<1> QED BY <1>5, <1>6
-----------------------------------------------------------------------------
(* Lengths                                                                 *)

\* What the assumptions say of the lengths.
LEMMA Lengths ==
  /\ HEADER \in Nat /\ HEADER > 0 /\ REPLY \in Nat /\ REPLY > 0 /\ WIDTH \in Nat /\ HEADER < WIDTH - 1
  /\ \A h \in Headers : /\ h.klen \in Nat /\ h.dlen \in Nat /\ h.elen \in Nat
                        /\ Size(h) = HEADER + h.klen + h.dlen + h.elen /\ Size(h) \in Nat /\ Size(h) >= HEADER
                        /\ Fits(h) => /\ h.klen <= WIDTH - 2 /\ h.dlen <= WIDTH - 2
                                      /\ h.elen <= WIDTH - 2
<1>1. HEADER \in Nat /\ HEADER > 0 /\ REPLY \in Nat /\ REPLY > 0
  BY SizesAssumption
<1>2. WIDTH \in Nat /\ HEADER < WIDTH - 1
  BY WidthAssumption
<1>3. ASSUME NEW h \in Headers
      PROVE  /\ h.klen \in Nat /\ h.dlen \in Nat /\ h.elen \in Nat
             /\ Size(h) = HEADER + h.klen + h.dlen + h.elen /\ Size(h) \in Nat /\ Size(h) >= HEADER
             /\ Fits(h) => /\ h.klen <= WIDTH - 2 /\ h.dlen <= WIDTH - 2
                           /\ h.elen <= WIDTH - 2
  <2>1. h.klen \in Nat /\ h.dlen \in Nat /\ h.elen \in Nat
    BY HeadersAssumption
  <2>2. Size(h) = HEADER + h.klen + h.dlen + h.elen /\ Size(h) \in Nat /\ Size(h) >= HEADER
    BY <1>1, <2>1 DEF Size
  <2>3. Fits(h) => h.klen <= WIDTH - 2 /\ h.dlen <= WIDTH - 2 /\ h.elen <= WIDTH - 2
    BY <1>2, <2>1, LimitsAssumption DEF Fits
  <2> QED BY <2>1, <2>2, <2>3
<1> QED BY <1>1, <1>2, <1>3

\* The last bytes of requests, and of replies.
Ends  == {b \in Sent : b.pos = Size(b.of)}
Dones == {b \in Answers : EndOfReply(b)}

\* The ends of requests and replies on the way, as places.
LEMMA PlacesAre ==
  /\ \A w \in Seq(Sent) : {i \in DOMAIN w : w[i].pos = Size(w[i].of)} = Places(w, Ends)
  /\ \A w \in Seq(Answers) : {i \in DOMAIN w : EndOfReply(w[i])} = Places(w, Dones)
<1>1. ASSUME NEW w \in Seq(Sent)
      PROVE  {i \in DOMAIN w : w[i].pos = Size(w[i].of)} = Places(w, Ends)
  <2>1. DOMAIN w = 1..Len(w) /\ \A i \in 1..Len(w) : w[i] \in Sent
    OBVIOUS
  <2> QED BY <2>1 DEF Places, Ends
<1>2. ASSUME NEW w \in Seq(Answers)
      PROVE  {i \in DOMAIN w : EndOfReply(w[i])} = Places(w, Dones)
  <2>1. DOMAIN w = 1..Len(w) /\ \A i \in 1..Len(w) : w[i] \in Answers
    OBVIOUS
  <2> QED BY <2>1 DEF Places, Dones
<1> QED BY <1>1, <1>2

\* A byte of a request, and the one after it.
LEMMA SentIs ==
  ASSUME NEW b \in Sent
  PROVE  /\ b.of \in Headers /\ b.pos \in Nat /\ (b \in Ends <=> b.pos = Size(b.of))
         /\ [b EXCEPT !.pos = @ + 1] = [of |-> b.of, pos |-> b.pos + 1]
  BY DEF Sent, Ends

\* The requests without a whole reply.
Owed ==
  state # "CONN_CLOSED" /\ peer = "open" /\ ~excused =>
    owed = Cardinality(Places(wire, Ends)) + (IF state \in Sending THEN 1 ELSE 0)
             + Cardinality(Places(back, Dones))

\* OneReplyEach, by places.
LEMMA OwedIs == TypeOK => (OneReplyEach <=> Owed)
<1> SUFFICES ASSUME TypeOK PROVE OneReplyEach <=> Owed
  OBVIOUS
<1>1. wire \in Seq(Sent) /\ back \in Seq(Answers)
  BY DEF TypeOK
<1> QED BY <1>1, PlacesAre DEF OneReplyEach, Owed

\* OneReplyEach after a step, by places.
LEMMA OwedIsNext == TypeOK' => (OneReplyEach' <=> Owed')
<1> SUFFICES ASSUME TypeOK' PROVE OneReplyEach' <=> Owed'
  OBVIOUS
<1>1. wire' \in Seq(Sent) /\ back' \in Seq(Answers)
  BY DEF TypeOK
<1> QED BY <1>1, PlacesAre DEF OneReplyEach, Owed
-----------------------------------------------------------------------------
(* Requests                                                                *)

\* What the server gets after the byte it has now.
LEMMA ByteAfter ==
  ASSUME TypeOK, Stream, wire # <<>>, wire' = Tail(wire), UNCHANGED next
  PROVE  /\ Stream' /\ Follows(Head(wire), NextByte') /\ Head(wire) \in Sent
         /\ NextByte = Head(wire)
<1>1. wire \in Seq(Sent) /\ next \in Sent
  BY DEF TypeOK
<1> DEFINE n == Len(wire)
<1>2. /\ n \in Nat /\ n > 0 /\ Head(wire) = wire[1] /\ wire[1] \in Sent /\ wire' \in Seq(Sent)
      /\ Len(wire') = n - 1 /\ \A i \in 1..(n - 1) : wire'[i] = wire[i + 1]
  BY <1>1, TailIs
<1>3. NextByte = Head(wire)
  BY DEF NextByte
<1>4. Coming' = Coming
  BY DEF Coming
<1>5. /\ \A i \in 1..(n - 1) : Follows(wire[i], wire[i + 1])
      /\ Follows(wire[n], Coming) /\ next.pos < Size(next.of)
  BY DEF Stream
<1> HIDE DEF n
<1>6. CASE n = 1
  <2>1. wire' = <<>>
    BY <1>2, <1>6
  <2>2. NextByte' = Coming
    BY <1>1, <2>1, SentIs DEF NextByte, Coming
  <2> QED BY <1>2, <1>3, <1>5, <1>6, <2>1, <2>2 DEF Stream
<1>7. CASE n # 1
  <2>1. /\ wire' # <<>> /\ Head(wire') = wire'[1] /\ wire'[1] = wire[2]
        /\ wire'[n - 1] = wire[n] /\ n - 1 > 0
    BY <1>2, <1>7
  <2>2. NextByte' = wire[1 + 1]
    BY <2>1 DEF NextByte
  <2>3. Follows(wire[1], wire[1 + 1])
    BY <1>2, <1>5, <1>7
  <2>4. ASSUME NEW i \in 1..(Len(wire') - 1) PROVE Follows(wire'[i], wire'[i + 1])
    <3>1. i \in 1..(n - 1) /\ i + 1 \in 1..(n - 1)
      BY <1>2
    <3> QED BY <1>2, <1>5, <3>1
  <2>5. Follows(wire'[Len(wire')], Coming')
    BY <1>2, <1>4, <1>5, <2>1
  <2> QED BY <1>2, <1>3, <1>5, <2>2, <2>3, <2>4, <2>5 DEF Stream
<1> QED BY <1>6, <1>7

\* A byte of a section is counted, and the one that completes it is acted on.
LEMMA ByteCounted ==
  ASSUME TypeOK, Counting, ReadByte
  PROVE  /\ state \in Reading /\ wire # <<>> /\ wire' = Tail(wire) /\ UNCHANGED <<back, peer, next, owed>>
         /\ Total \in 1..(WIDTH - 2) /\ rbytes + 1 <= Total
         /\ \/ rbytes + 1 # Total /\ rbytes' = rbytes + 1 /\ UNCHANGED <<state, hdr, sbytes, dlen, excused>>
            \/ rbytes + 1 = Total /\ rbytes' = 0 /\ try_read_request
<1>1. /\ state \in Reading /\ wire # <<>> /\ wire' = Tail(wire) /\ UNCHANGED <<back, peer, next, owed>>
      /\ read_nbytes(1)
  BY DEF ReadByte, read_nbytes, client
<1>2. Total \in 1..(WIDTH - 2) /\ rbytes < Total
  BY <1>1 DEF Counting
<1>3. rbytes \in Nat /\ WIDTH \in Nat
  BY Lengths DEF TypeOK
<1>4. (rbytes + 1) % WIDTH = rbytes + 1 /\ rbytes + 1 <= Total
  BY <1>2, <1>3
<1> QED BY <1>1, <1>2, <1>4 DEF read_nbytes

\* What try_read_request comes to: the next section, or a reply.  With memory for it and a
\* well-formed request, it goes by what is left of the request.
LEMMA SectionEnds ==
  ASSUME TypeOK, Counting, wire # <<>>, state \in Reading, try_read_request
  PROVE  \E h \in Headers :
           /\ hdr' = h
           /\ state = "READ_HEADER" => (Head(wire).pos = HEADER => h = Head(wire).of)
           /\ state # "READ_HEADER" => h = hdr
           /\ excused' \in BOOLEAN /\ (~excused' => ~excused /\ WellFormed(h))
           /\ \/ state' = "SEND_HEADER" /\ sbytes' = 0 /\ dlen' \in Nat
              \/ UNCHANGED <<sbytes, dlen>> /\ Fits(h) /\ state = "READ_HEADER" /\ h.klen > 0 /\ state' = "READ_KEY"
              \/ UNCHANGED <<sbytes, dlen>> /\ Fits(h) /\ state = "READ_KEY" /\ h.dlen > 0 /\ state' = "READ_DATA"
              \/ UNCHANGED <<sbytes, dlen>> /\ Fits(h) /\ state = "READ_DATA" /\ h.elen > 0 /\ state' = "READ_EXTRA"
           /\ ~excused' /\ state' = "SEND_HEADER" =>
                \/ state = "READ_HEADER" /\ h.klen = 0
                \/ state = "READ_KEY" /\ h.dlen = 0
                \/ state = "READ_DATA" /\ h.elen = 0
                \/ state = "READ_EXTRA"
<1>0. Head(wire) \in Sent /\ hdr \in Headers /\ excused \in BOOLEAN
  BY TailIs DEF TypeOK
<1>1. PICK h \in (IF state = "READ_HEADER" THEN HeaderRead ELSE {hdr}) :
        hdr' = h /\ SectionRead(h, excused \/ ~WellFormed(h))
  BY DEF try_read_request
<1>2. h \in Headers
  BY <1>0, <1>1, SentIs DEF HeaderRead
<1>3. /\ state = "READ_HEADER" => (Head(wire).pos = HEADER => h = Head(wire).of)
      /\ state # "READ_HEADER" => h = hdr
  BY <1>1 DEF HeaderRead
<1> DEFINE e == excused \/ ~WellFormed(h)
<1>4. e \in BOOLEAN /\ (~e => ~excused /\ WellFormed(h) /\ Fits(h))
  BY <1>0 DEF WellFormed, Fits
<1>5. state \in {"READ_KEY", "READ_DATA", "READ_EXTRA"} => Fits(h)
  BY <1>3 DEF Counting, Reading
<1>6. 0 \in Nat /\ \A n \in 0..MaxData : n \in Nat
  BY SizesAssumption
<1> HIDE DEF e
<1>7. \/ state = "READ_HEADER" /\ ~Fits(h) /\ add_response(0) /\ excused' = e
      \/ state = "READ_HEADER" /\ Fits(h) /\ h.klen > 0 /\ Await("READ_KEY", e)
      \/ state = "READ_KEY" /\ h.dlen > 0 /\ Await("READ_DATA", e)
      \/ state = "READ_DATA" /\ h.elen > 0 /\ Await("READ_EXTRA", e)
      \/ /\ \/ state = "READ_HEADER" /\ Fits(h) /\ h.klen = 0
            \/ state = "READ_KEY" /\ h.dlen = 0
            \/ state = "READ_DATA" /\ h.elen = 0
            \/ state = "READ_EXTRA"
         /\ execute_cmd /\ excused' = e
  BY <1>1 DEF SectionRead, e
<1> DEFINE Out == /\ excused' \in BOOLEAN /\ (~excused' => ~excused /\ WellFormed(h))
                  /\ \/ state' = "SEND_HEADER" /\ sbytes' = 0 /\ dlen' \in Nat
                     \/ UNCHANGED <<sbytes, dlen>> /\ Fits(h) /\ state = "READ_HEADER" /\ h.klen > 0 /\ state' = "READ_KEY"
                     \/ UNCHANGED <<sbytes, dlen>> /\ Fits(h) /\ state = "READ_KEY" /\ h.dlen > 0 /\ state' = "READ_DATA"
                     \/ UNCHANGED <<sbytes, dlen>> /\ Fits(h) /\ state = "READ_DATA" /\ h.elen > 0 /\ state' = "READ_EXTRA"
                  /\ ~excused' /\ state' = "SEND_HEADER" =>
                       \/ state = "READ_HEADER" /\ h.klen = 0
                       \/ state = "READ_KEY" /\ h.dlen = 0
                       \/ state = "READ_DATA" /\ h.elen = 0
                       \/ state = "READ_EXTRA"
<1>8. Out
  <2>1. CASE state = "READ_HEADER" /\ ~Fits(h) /\ add_response(0) /\ excused' = e
    BY <1>4, <1>6, <2>1 DEF add_response
  <2>2. CASE state = "READ_HEADER" /\ Fits(h) /\ h.klen > 0 /\ Await("READ_KEY", e)
    <3>1. CASE state' = "READ_KEY" /\ excused' = e /\ UNCHANGED <<dlen, sbytes>>
      BY <1>4, <1>6, <2>2, <3>1
    <3>2. CASE add_response(0) /\ excused' = TRUE
      BY <1>6, <3>2 DEF add_response
    <3> QED BY <2>2, <3>1, <3>2 DEF Await
  <2>3. CASE state = "READ_KEY" /\ h.dlen > 0 /\ Await("READ_DATA", e)
    <3>1. CASE state' = "READ_DATA" /\ excused' = e /\ UNCHANGED <<dlen, sbytes>>
      BY <1>4, <1>5, <1>6, <2>3, <3>1
    <3>2. CASE add_response(0) /\ excused' = TRUE
      BY <1>6, <3>2 DEF add_response
    <3> QED BY <2>3, <3>1, <3>2 DEF Await
  <2>4. CASE state = "READ_DATA" /\ h.elen > 0 /\ Await("READ_EXTRA", e)
    <3>1. CASE state' = "READ_EXTRA" /\ excused' = e /\ UNCHANGED <<dlen, sbytes>>
      BY <1>4, <1>5, <1>6, <2>4, <3>1
    <3>2. CASE add_response(0) /\ excused' = TRUE
      BY <1>6, <3>2 DEF add_response
    <3> QED BY <2>4, <3>1, <3>2 DEF Await
  <2>5. CASE /\ \/ state = "READ_HEADER" /\ Fits(h) /\ h.klen = 0
                \/ state = "READ_KEY" /\ h.dlen = 0
                \/ state = "READ_DATA" /\ h.elen = 0
                \/ state = "READ_EXTRA"
             /\ execute_cmd /\ excused' = e
    BY <1>4, <1>6, <2>5 DEF execute_cmd, add_response
  <2> QED BY <1>7, <2>1, <2>2, <2>3, <2>4, <2>5
<1> QED BY <1>1, <1>2, <1>3, <1>8

\* The server goes on from its state and rbytes to where the client goes on.
LEMMA ReadKeeps ==
  ASSUME IInv, ReadByte
  PROVE  IInv'
<1> USE DEF IInv
<1> DEFINE b == Head(wire)
<1>1. /\ state \in Reading /\ wire # <<>> /\ wire' = Tail(wire) /\ UNCHANGED <<back, peer, next, owed>>
      /\ Total \in 1..(WIDTH - 2) /\ rbytes + 1 <= Total
      /\ \/ rbytes + 1 # Total /\ rbytes' = rbytes + 1 /\ UNCHANGED <<state, hdr, sbytes, dlen, excused>>
         \/ rbytes + 1 = Total /\ rbytes' = 0 /\ try_read_request
  BY ByteCounted
<1>2. /\ Stream' /\ Follows(b, NextByte') /\ b \in Sent /\ NextByte = b
  BY <1>1, ByteAfter
<1>3. wire' \in Seq(Sent) /\ rbytes \in Nat /\ WIDTH \in Nat /\ hdr \in Headers /\ peer # "reset"
  BY <1>1, TailIs, Lengths DEF TypeOK, Counting
<1>4. b.of \in Headers /\ b.pos \in Nat /\ (b \in Ends <=> b.pos = Size(b.of))
  BY <1>2, SentIs
<1>5. ASSUME peer = "open", ~excused
      PROVE  b.pos = Taken + 1 /\ (state # "READ_HEADER" => b.of = hdr)
  BY <1>1, <1>2, <1>5 DEF Aligned, Reading
<1>6. Cardinality(Places(wire, Ends)) = Cardinality(Places(wire', Ends)) + IF b \in Ends THEN 1 ELSE 0
  BY <1>1, PlacesTail DEF TypeOK
<1>7. Cardinality(Places(wire', Ends)) \in Nat /\ Cardinality(Places(back, Dones)) \in Nat /\ owed \in Nat
  BY <1>3, PlacesFinite DEF TypeOK
<1>8. Owed
  BY OwedIs
<1> HIDE DEF b
<1>9. CASE rbytes + 1 # Total /\ rbytes' = rbytes + 1 /\ UNCHANGED <<state, hdr, sbytes, dlen, excused>>
  <2>1. TypeOK'
    BY <1>1, <1>3, <1>9 DEF TypeOK
  <2>2. Total' = Total /\ SendTotal' = SendTotal
    BY <1>9 DEF Total, SendTotal
  <2>3. Counting'
    BY <1>1, <1>3, <1>9, <2>2 DEF Counting
  <2>4. ASSUME peer = "open", ~excused PROVE b.pos < Size(b.of)
    <3>1. b.pos = Taken + 1 /\ (state # "READ_HEADER" => b.of = hdr)
      BY <1>5, <2>4
    <3>2. rbytes + 1 < Total
      BY <1>1, <1>3, <1>9
    <3>3. /\ hdr.klen \in Nat /\ hdr.dlen \in Nat /\ hdr.elen \in Nat /\ HEADER \in Nat
          /\ Size(hdr) = HEADER + hdr.klen + hdr.dlen + hdr.elen /\ Size(b.of) >= HEADER
          /\ Size(b.of) \in Nat /\ b.pos \in Nat /\ rbytes \in Nat
      BY <1>3, <1>4, Lengths
    <3>4. CASE state = "READ_HEADER"
      <4>1. Taken = rbytes /\ Total = HEADER
        BY <3>4 DEF Taken, Total
      <4>2. b.pos = rbytes + 1 /\ rbytes + 1 < HEADER
        BY <3>1, <3>2, <4>1
      <4> QED BY <3>3, <4>2
    <3>5. CASE state = "READ_KEY"
      <4>1. Taken = HEADER + rbytes /\ Total = hdr.klen
        BY <3>5 DEF Taken, Total
      <4>2. b.pos = HEADER + rbytes + 1 /\ b.of = hdr /\ rbytes + 1 < hdr.klen
        BY <3>1, <3>2, <3>5, <4>1
      <4> QED BY <3>3, <4>2
    <3>6. CASE state = "READ_DATA"
      <4>1. Taken = HEADER + hdr.klen + rbytes /\ Total = hdr.dlen
        BY <3>6 DEF Taken, Total
      <4>2. b.pos = HEADER + hdr.klen + rbytes + 1 /\ b.of = hdr /\ rbytes + 1 < hdr.dlen
        BY <3>1, <3>2, <3>6, <4>1
      <4> QED BY <3>3, <4>2
    <3>7. CASE state = "READ_EXTRA"
      <4>1. Taken = HEADER + hdr.klen + hdr.dlen + rbytes /\ Total = hdr.elen
        BY <3>7 DEF Taken, Total
      <4>2. b.pos = HEADER + hdr.klen + hdr.dlen + rbytes + 1 /\ b.of = hdr /\ rbytes + 1 < hdr.elen
        BY <3>1, <3>2, <3>7, <4>1
      <4> QED BY <3>3, <4>2
    <3> QED BY <1>1, <3>4, <3>5, <3>6, <3>7 DEF Reading
  <2>5. Aligned'
    <3>1. ASSUME peer = "open", ~excused
          PROVE  /\ NextByte'.pos = Taken' + 1
                 /\ state \in Reading \ {"READ_HEADER"} => NextByte'.of = hdr
      <4>1. NextByte'.of = b.of /\ NextByte'.pos = b.pos + 1
        BY <1>2, <1>4, <2>4, <3>1, Lengths DEF Follows
      <4>2. Taken' = Taken + 1 /\ Taken \in Nat
        <5>1. hdr.klen \in Nat /\ hdr.dlen \in Nat /\ HEADER \in Nat
          BY <1>3, Lengths
        <5>2. CASE state = "READ_HEADER"
          BY <1>3, <1>9, <5>2 DEF Taken
        <5>3. CASE state = "READ_KEY"
          BY <1>3, <1>9, <5>1, <5>3 DEF Taken
        <5>4. CASE state = "READ_DATA"
          <6> DEFINE a == HEADER + hdr.klen
          <6>1. a \in Nat
            BY <5>1
          <6>2. Taken = a + rbytes /\ Taken' = a + rbytes'
            BY <1>9, <5>4 DEF Taken
          <6> HIDE DEF a
          <6> QED BY <1>3, <1>9, <6>1, <6>2
        <5>5. CASE state = "READ_EXTRA"
          <6> DEFINE a == HEADER + hdr.klen + hdr.dlen
          <6>1. a \in Nat
            BY <5>1
          <6>2. Taken = a + rbytes /\ Taken' = a + rbytes'
            BY <1>9, <5>5 DEF Taken
          <6> HIDE DEF a
          <6> QED BY <1>3, <1>9, <6>1, <6>2
        <5> QED BY <1>1, <5>2, <5>3, <5>4, <5>5 DEF Reading
      <4> QED BY <1>5, <3>1, <4>1, <4>2
    <3> QED BY <1>1, <1>9, <3>1 DEF Aligned
  <2>6. RepliesFramed'
    <3>1. Given' = Given
      BY <1>9 DEF Given
    <3> QED BY <1>1, <1>9, <3>1 DEF RepliesFramed
  <2>7. Owed'
    <3>1. ASSUME peer = "open", ~excused PROVE Cardinality(Places(wire', Ends)) = Cardinality(Places(wire, Ends))
      <4>1. b \notin Ends
        BY <1>4, <2>4, <3>1, Lengths
      <4> QED BY <1>6, <1>7, <4>1
    <3> QED BY <1>1, <1>8, <1>9, <3>1 DEF Owed
  <2> QED BY <1>2, <2>1, <2>3, <2>5, <2>6, <2>7, OwedIsNext
<1>10. CASE rbytes + 1 = Total /\ rbytes' = 0 /\ try_read_request
  <2> DEFINE Out(h) ==
        /\ hdr' = h
        /\ state = "READ_HEADER" => (b.pos = HEADER => h = b.of)
        /\ state # "READ_HEADER" => h = hdr
        /\ excused' \in BOOLEAN /\ (~excused' => ~excused /\ WellFormed(h))
        /\ \/ state' = "SEND_HEADER" /\ sbytes' = 0 /\ dlen' \in Nat
           \/ UNCHANGED <<sbytes, dlen>> /\ Fits(h) /\ state = "READ_HEADER" /\ h.klen > 0 /\ state' = "READ_KEY"
           \/ UNCHANGED <<sbytes, dlen>> /\ Fits(h) /\ state = "READ_KEY" /\ h.dlen > 0 /\ state' = "READ_DATA"
           \/ UNCHANGED <<sbytes, dlen>> /\ Fits(h) /\ state = "READ_DATA" /\ h.elen > 0 /\ state' = "READ_EXTRA"
        /\ ~excused' /\ state' = "SEND_HEADER" =>
             \/ state = "READ_HEADER" /\ h.klen = 0
             \/ state = "READ_KEY" /\ h.dlen = 0
             \/ state = "READ_DATA" /\ h.elen = 0
             \/ state = "READ_EXTRA"
  <2>0. PICK h \in Headers : Out(h)
    BY <1>1, <1>10, SectionEnds DEF b
  <2>00. /\ h.klen \in Nat /\ h.dlen \in Nat /\ h.elen \in Nat /\ HEADER \in Nat
         /\ Size(h) = HEADER + h.klen + h.dlen + h.elen
         /\ Fits(h) => h.klen <= WIDTH - 2 /\ h.dlen <= WIDTH - 2 /\ h.elen <= WIDTH - 2
    BY Lengths
  <2>1. TypeOK'
    <3>1. 0 \in 0..(WIDTH - 1)
      BY Lengths
    <3> QED BY <1>1, <1>3, <1>10, <2>0, <3>1 DEF TypeOK, Reading, Sending
  <2>2. Counting'
    <3>1. CASE state' = "SEND_HEADER"
      BY <1>1, <1>3, <2>0, <3>1, Lengths DEF Counting, Reading, Sending, SendTotal
    <3>2. CASE state' # "SEND_HEADER"
      <4>1. Fits(h) /\ state' \in {"READ_KEY", "READ_DATA", "READ_EXTRA"} /\ Total' \in 1..(WIDTH - 2)
        BY <1>3, <2>0, <2>00, <3>2 DEF Total
      <4> QED BY <1>1, <1>3, <1>10, <2>0, <4>1 DEF Counting, Reading, Sending
    <3> QED BY <3>1, <3>2
  <2>3. ASSUME peer = "open", ~excused'
        PROVE  /\ b.of = h /\ (b.pos = Size(h) <=> state' = "SEND_HEADER")
               /\ state' # "SEND_HEADER" => b.pos = Taken' /\ b.pos # Size(h)
               /\ state' = "SEND_HEADER" => Taken' = 0
    <3>1. /\ b.pos = Taken + 1 /\ (state # "READ_HEADER" => b.of = hdr)
          /\ (h.klen = 0 => h.dlen = 0) /\ (h.dlen = 0 => h.elen = 0)
      BY <1>5, <2>0, <2>3 DEF WellFormed
    <3>2. CASE state = "READ_HEADER"
      <4>1. b.pos = HEADER /\ b.of = h
        BY <1>3, <1>10, <2>0, <3>1, <3>2 DEF Taken, Total
      <4>2. state' = "SEND_HEADER" => h.klen = 0
        BY <2>0, <2>3, <3>2
      <4>3. state' # "SEND_HEADER" => state' = "READ_KEY" /\ h.klen > 0
        BY <2>0, <3>2
      <4> QED BY <1>10, <2>0, <2>00, <3>1, <4>1, <4>2, <4>3 DEF Taken
    <3>3. CASE state = "READ_KEY"
      <4>1. b.pos = HEADER + h.klen /\ b.of = h
        BY <1>3, <1>10, <2>0, <2>00, <3>1, <3>3 DEF Taken, Total
      <4>2. state' = "SEND_HEADER" => h.dlen = 0
        BY <2>0, <2>3, <3>3
      <4>3. state' # "SEND_HEADER" => state' = "READ_DATA" /\ h.dlen > 0
        BY <2>0, <3>3
      <4> QED BY <1>10, <2>0, <2>00, <3>1, <4>1, <4>2, <4>3 DEF Taken
    <3>4. CASE state = "READ_DATA"
      <4>1. b.pos = HEADER + h.klen + h.dlen /\ b.of = h
        BY <1>3, <1>10, <2>0, <2>00, <3>1, <3>4 DEF Taken, Total
      <4>2. state' = "SEND_HEADER" => h.elen = 0
        BY <2>0, <2>3, <3>4
      <4>3. state' # "SEND_HEADER" => state' = "READ_EXTRA" /\ h.elen > 0
        BY <2>0, <3>4
      <4> QED BY <1>10, <2>0, <2>00, <3>1, <4>1, <4>2, <4>3 DEF Taken
    <3>5. CASE state = "READ_EXTRA"
      <4>1. b.pos = HEADER + h.klen + h.dlen + h.elen /\ b.of = h
        <5>1. h = hdr /\ rbytes + 1 = hdr.elen
          BY <1>10, <2>0, <3>5 DEF Total
        <5>2. b.pos = HEADER + hdr.klen + hdr.dlen + rbytes + 1 /\ b.of = hdr
          BY <3>1, <3>5 DEF Taken
        <5> DEFINE a == HEADER + hdr.klen + hdr.dlen
        <5>3. a \in Nat
          BY <2>00, <5>1
        <5>4. a + rbytes + 1 = a + hdr.elen
          <6> HIDE DEF a
          <6> QED BY <1>3, <5>1, <5>3
        <5> QED BY <5>1, <5>2, <5>4
      <4>2. state' = "SEND_HEADER"
        BY <2>0, <3>5
      <4> QED BY <2>0, <2>00, <4>1, <4>2 DEF Taken
    <3> QED BY <1>1, <3>2, <3>3, <3>4, <3>5 DEF Reading
  <2>4. Aligned'
    <3>1. ASSUME peer = "open", ~excused'
          PROVE  /\ NextByte'.pos = Taken' + 1
                 /\ state' \in Reading \ {"READ_HEADER"} => NextByte'.of = hdr'
      BY <1>2, <2>0, <2>3, <3>1 DEF Follows, Reading
    <3> QED BY <1>1, <3>1 DEF Aligned
  <2>5. RepliesFramed'
    <3>1. state \notin Sending /\ (state' \in Sending => Given' = 0) /\ back' = back /\ state # "CONN_CLOSED"
      BY <1>1, <2>0 DEF Reading, Sending, Given
    <3> QED BY <3>1 DEF RepliesFramed
  <2>6. Owed'
    <3>1. ASSUME peer = "open", ~excused'
          PROVE  owed = Cardinality(Places(wire', Ends)) + (IF state' \in Sending THEN 1 ELSE 0)
                          + Cardinality(Places(back, Dones))
      <4>1. owed = Cardinality(Places(wire, Ends)) + Cardinality(Places(back, Dones))
        <5>1. state \notin Sending /\ state # "CONN_CLOSED" /\ ~excused
          BY <1>1, <2>0, <3>1 DEF Reading, Sending
        <5>2. Cardinality(Places(wire, Ends)) \in Nat
          BY <1>6, <1>7
        <5> QED BY <1>7, <1>8, <3>1, <5>1, <5>2 DEF Owed
      <4>2. b \in Ends <=> state' \in Sending
        BY <1>4, <2>0, <2>3, <3>1 DEF Sending
      <4> QED BY <1>6, <1>7, <4>1, <4>2
    <3> QED BY <1>1, <3>1 DEF Owed
  <2> QED BY <1>2, <2>1, <2>2, <2>4, <2>5, <2>6, OwedIsNext
<1> QED BY <1>1, <1>9, <1>10

\* An error of read counts one byte back, and never completes a section.
LEMMA ErrorKeeps ==
  ASSUME IInv, ReadError
  PROVE  IInv'
<1> USE DEF IInv
<1>1. /\ peer = "reset" /\ peer' = "gone" /\ state \in Reading /\ UNCHANGED <<wire, back, next, owed>>
      /\ read_nbytes(WIDTH - 1)
  BY DEF ReadError, read_nbytes, client
<1>2. wire = <<>> /\ Total \in 1..(WIDTH - 2) /\ rbytes < Total
  BY <1>1 DEF Counting
<1>3. rbytes \in 0..(WIDTH - 1) /\ WIDTH \in Nat
  BY Lengths DEF TypeOK
<1> DEFINE r == (rbytes + (WIDTH - 1)) % WIDTH
<1>4. r \in 0..(WIDTH - 1) /\ r # Total
  <2>1. CASE rbytes = 0
    BY <1>2, <1>3, <2>1
  <2>2. CASE rbytes # 0
    <3>1. rbytes + (WIDTH - 1) = (rbytes - 1) + WIDTH /\ rbytes - 1 \in 0..(WIDTH - 1)
      BY <1>3, <2>2
    <3>2. ((rbytes - 1) + WIDTH) % WIDTH = rbytes - 1
      BY <1>3, <3>1
    <3> QED BY <1>2, <1>3, <3>1, <3>2
  <2> QED BY <2>1, <2>2
<1>5. rbytes' = r /\ UNCHANGED <<state, hdr, sbytes, dlen, excused>>
  BY <1>1, <1>4 DEF read_nbytes
<1> HIDE DEF r
<1>6. TypeOK'
  BY <1>1, <1>4, <1>5 DEF TypeOK
<1>7. Counting'
  <2>1. Total' = Total /\ SendTotal' = SendTotal
    BY <1>5 DEF Total, SendTotal
  <2> QED BY <1>1, <1>2, <1>5, <2>1 DEF Counting
<1>8. Stream'
  BY <1>1 DEF Stream, Coming
<1>9. Aligned' /\ Owed'
  BY <1>1 DEF Aligned, Owed
<1>10. RepliesFramed'
  <2>1. Given' = Given
    BY <1>5 DEF Given
  <2> QED BY <1>1, <1>5, <2>1 DEF RepliesFramed
<1> QED BY <1>6, <1>7, <1>8, <1>9, <1>10, OwedIsNext

\* A connection that is closed has nothing to read.
LEMMA ClosedKeeps ==
  ASSUME IInv, disconnect_conn
  PROVE  IInv'
<1> USE DEF IInv
<1>1. state' = "CONN_CLOSED" /\ wire' = <<>> /\ UNCHANGED <<rbytes, hdr, sbytes, dlen, excused, back, peer, next, owed>>
  BY DEF disconnect_conn, client
<1>2. TypeOK'
  BY <1>1 DEF TypeOK
<1>3. Counting'
  BY <1>1 DEF Counting, Reading, Sending
<1>4. Stream'
  BY <1>1 DEF Stream
<1>5. Aligned' /\ Owed'
  BY <1>1 DEF Aligned, Owed
<1>6. RepliesFramed'
  BY <1>1 DEF RepliesFramed
<1> QED BY <1>2, <1>3, <1>4, <1>5, <1>6, OwedIsNext
-----------------------------------------------------------------------------
(* Replies                                                                 *)

\* The byte of the reply that is given next.
Giving == [len |-> dlen, pos |-> Given + 1]

\* Replies, one after the other.
Chained(q) ==
  \A i \in 1..(Len(q) - 1) :
    q[i + 1] = IF EndOfReply(q[i]) THEN [q[i + 1] EXCEPT !.pos = 1]
               ELSE [q[i] EXCEPT !.pos = @ + 1]

\* Chained replies, field by field.
LEMMA ChainedIs ==
  ASSUME NEW q \in Seq(Answers)
  PROVE  Chained(q) <=>
           \A i \in 1..(Len(q) - 1) :
             IF EndOfReply(q[i]) THEN q[i + 1].pos = 1
             ELSE q[i + 1].len = q[i].len /\ q[i + 1].pos = q[i].pos + 1
<1> SUFFICES ASSUME NEW i \in 1..(Len(q) - 1)
             PROVE  (q[i + 1] = IF EndOfReply(q[i]) THEN [q[i + 1] EXCEPT !.pos = 1]
                                ELSE [q[i] EXCEPT !.pos = @ + 1])
                    <=> (IF EndOfReply(q[i]) THEN q[i + 1].pos = 1
                         ELSE q[i + 1].len = q[i].len /\ q[i + 1].pos = q[i].pos + 1)
  BY DEF Chained
<1>1. i \in 1..Len(q) /\ i + 1 \in 1..Len(q)
  OBVIOUS
<1>2. q[i] \in Answers /\ q[i + 1] \in Answers
  BY <1>1
<1>3. \A a, b \in Answers : /\ a = [a EXCEPT !.pos = 1] <=> a.pos = 1
                            /\ b = [a EXCEPT !.pos = @ + 1] <=> b.len = a.len /\ b.pos = a.pos + 1
  BY DEF Answers
<1> QED BY <1>2, <1>3

\* A byte more of the reply.
LEMMA ReplyGrows ==
  ASSUME IInv, state \in Sending, back' = Append(back, Giving)
  PROVE  /\ back' \in Seq(Answers) /\ back' # <<>> /\ Last(back') = Giving /\ Giving \in Answers
         /\ Chained(back')
         /\ Cardinality(Places(back', Dones)) =
              Cardinality(Places(back, Dones)) + IF Given + 1 = REPLY + dlen THEN 1 ELSE 0
         /\ Given \in Nat /\ Given + 1 <= REPLY + dlen
<1> USE DEF IInv
<1>1. /\ dlen \in Nat /\ sbytes \in Nat /\ REPLY \in Nat /\ REPLY > 0 /\ back \in Seq(Answers)
      /\ sbytes < SendTotal
  BY Lengths DEF TypeOK, Counting
<1>2. Given \in Nat /\ Given + 1 <= REPLY + dlen
  <2>1. CASE state = "SEND_HEADER"
    BY <1>1, <2>1 DEF Given, SendTotal
  <2>2. CASE state = "SEND_DATA"
    BY <1>1, <2>2 DEF Given, SendTotal
  <2> QED BY <2>1, <2>2 DEF Sending
<1>3. Giving \in Answers /\ Giving.len = dlen /\ Giving.pos = Given + 1
  BY <1>1, <1>2 DEF Giving, Answers
<1> DEFINE n == Len(back)
<1>4. /\ n \in Nat /\ back' \in Seq(Answers) /\ Len(back') = n + 1 /\ (\A i \in 1..n : back'[i] = back[i])
      /\ back'[n + 1] = Giving /\ back' # <<>>
  <2> HIDE DEF n
  <2> QED BY <1>1, <1>3, AppendIs DEF n
<1>5. Last(back') = Giving
  BY <1>4 DEF Last
<1>6. Chained(back')
  <2>0. \A i \in 1..(n - 1) : IF EndOfReply(back[i]) THEN back[i + 1].pos = 1
                              ELSE back[i + 1].len = back[i].len /\ back[i + 1].pos = back[i].pos + 1
    <3>1. Chained(back)
      BY DEF RepliesFramed, Chained
    <3> QED BY <1>1, <3>1, ChainedIs
  <2>1. ASSUME back # <<>>
        PROVE  IF EndOfReply(back[n]) THEN Giving.pos = 1
               ELSE Giving.len = back[n].len /\ Giving.pos = back[n].pos + 1
    <3>1. state # "CONN_CLOSED" /\ Last(back) = back[n]
      BY DEF Sending, Last
    <3>2. CASE Given > 0
      <4>1. back[n] = [len |-> dlen, pos |-> Given]
        BY <2>1, <3>1, <3>2 DEF RepliesFramed
      <4>2. ~EndOfReply(back[n])
        BY <1>1, <1>2, <4>1 DEF EndOfReply
      <4> QED BY <1>3, <4>1, <4>2
    <3>3. CASE ~(Given > 0)
      <4>1. EndOfReply(back[n])
        BY <2>1, <3>1, <3>3 DEF RepliesFramed
      <4> QED BY <1>2, <1>3, <3>3, <4>1
    <3> QED BY <3>2, <3>3
  <2>2. ASSUME NEW i \in 1..(Len(back') - 1)
        PROVE  IF EndOfReply(back'[i]) THEN back'[i + 1].pos = 1
               ELSE back'[i + 1].len = back'[i].len /\ back'[i + 1].pos = back'[i].pos + 1
    <3> HIDE DEF n
    <3>1. CASE i < n
      <4>1. i \in 1..(n - 1) /\ back'[i] = back[i] /\ back'[i + 1] = back[i + 1]
        BY <1>4, <3>1
      <4> QED BY <2>0, <4>1
    <3>2. CASE i = n
      <4>1. back # <<>> /\ back'[i] = back[n] /\ back'[i + 1] = Giving
        BY <1>4, <3>2 DEF n
      <4> QED BY <2>1, <4>1
    <3> QED BY <1>4, <3>1, <3>2
  <2> QED BY <1>4, <2>2, ChainedIs
<1>7. Giving \in Dones <=> Given + 1 = REPLY + dlen
  BY <1>3 DEF Dones, EndOfReply
<1>8. Cardinality(Places(back', Dones)) =
        Cardinality(Places(back, Dones)) + IF Giving \in Dones THEN 1 ELSE 0
  BY <1>1, <1>3, PlacesAppend
<1> QED BY <1>2, <1>3, <1>4, <1>5, <1>6, <1>7, <1>8

\* A byte of a reply goes where the reply has got to, and the last one ends the request.
LEMMA SendKeeps ==
  ASSUME IInv, try_send_response
  PROVE  IInv'
<1> USE DEF IInv
<1>1. /\ state \in Sending /\ peer # "reset" /\ UNCHANGED <<hdr, dlen, excused, wire, peer, next, owed>>
      /\ back' = Append(back, Giving)
      /\ \/ sbytes + 1 # SendTotal /\ sbytes' = sbytes + 1 /\ UNCHANGED <<state, rbytes>>
         \/ sbytes + 1 = SendTotal /\ sbytes' = 0 /\ SendSection
  BY DEF try_send_response, client, Giving
<1>2. /\ back' \in Seq(Answers) /\ back' # <<>> /\ Last(back') = Giving /\ Giving \in Answers
      /\ Chained(back')
      /\ Cardinality(Places(back', Dones)) =
           Cardinality(Places(back, Dones)) + IF Given + 1 = REPLY + dlen THEN 1 ELSE 0
      /\ Given \in Nat /\ Given + 1 <= REPLY + dlen
  BY <1>1, ReplyGrows
<1>3. /\ dlen \in Nat /\ sbytes \in Nat /\ REPLY \in Nat /\ REPLY > 0 /\ sbytes < SendTotal /\ owed \in Nat
      /\ 0 \in 0..(WIDTH - 1) /\ HEADER \in 1..(WIDTH - 2)
  BY <1>1, Lengths DEF TypeOK, Counting
<1>4. Cardinality(Places(wire, Ends)) \in Nat /\ Cardinality(Places(back, Dones)) \in Nat
  BY PlacesFinite DEF TypeOK
\* The reply goes on, or the server reads again.
<1>5. \/ /\ state' \in Sending /\ Given' = Given + 1 /\ Given + 1 # REPLY + dlen
         /\ sbytes' \in Nat /\ sbytes' < SendTotal' /\ rbytes' = rbytes
      \/ /\ state' = "READ_HEADER" /\ rbytes' = 0 /\ Given + 1 = REPLY + dlen /\ sbytes' \in Nat
  <2>1. CASE state = "SEND_HEADER" /\ sbytes + 1 # SendTotal
    BY <1>1, <1>3, <2>1 DEF Given, SendTotal, Sending
  <2>2. CASE state = "SEND_DATA" /\ sbytes + 1 # SendTotal
    BY <1>1, <1>3, <2>2 DEF Given, SendTotal, Sending
  <2>3. CASE state = "SEND_HEADER" /\ sbytes + 1 = SendTotal /\ dlen # 0
    <3>1. state' = "SEND_DATA" /\ rbytes' = rbytes /\ sbytes' = 0 /\ dlen' = dlen
      BY <1>1, <2>3 DEF SendSection
    <3> QED BY <1>3, <2>3, <3>1 DEF Given, SendTotal, Sending
  <2>4. CASE state = "SEND_HEADER" /\ sbytes + 1 = SendTotal /\ dlen = 0
    <3>1. state' = "READ_HEADER" /\ rbytes' = 0 /\ sbytes' = 0
      BY <1>1, <2>4 DEF SendSection
    <3> QED BY <1>3, <2>4, <3>1 DEF Given, SendTotal
  <2>5. CASE state = "SEND_DATA" /\ sbytes + 1 = SendTotal
    <3>1. state' = "READ_HEADER" /\ rbytes' = 0 /\ sbytes' = 0
      BY <1>1, <2>5 DEF SendSection
    <3> QED BY <1>3, <2>5, <3>1 DEF Given, SendTotal
  <2> QED BY <1>1, <2>1, <2>2, <2>3, <2>4, <2>5 DEF Sending
<1>6. TypeOK'
  BY <1>1, <1>2, <1>3, <1>5 DEF TypeOK, Reading, Sending
<1>7. Counting'
  <2>1. CASE state' \in Sending
    BY <1>1, <1>5, <2>1 DEF Counting, Reading, Sending
  <2>2. CASE state' = "READ_HEADER" /\ rbytes' = 0
    <3>1. Total' = HEADER
      BY <2>2 DEF Total
    <3> QED BY <1>1, <1>3, <2>2, <3>1 DEF Counting, Sending
  <2> QED BY <1>5, <2>1, <2>2
<1>8. Stream'
  BY <1>1 DEF Stream, Coming
<1>9. Aligned'
  <2>1. NextByte' = NextByte
    BY <1>1 DEF NextByte
  <2>2. Taken = 0 /\ Taken' = 0 /\ state # "CONN_CLOSED" /\ state' \notin Reading \ {"READ_HEADER"}
    BY <1>1, <1>5 DEF Taken, Sending, Reading
  <2> QED BY <1>1, <2>1, <2>2 DEF Aligned
<1>10. RepliesFramed'
  <2>1. back' # <<>> /\ state' # "CONN_CLOSED" =>
          IF state' \in Sending /\ Given' > 0 THEN Last(back') = [len |-> dlen', pos |-> Given']
          ELSE EndOfReply(Last(back'))
    <3>1. CASE state' \in Sending
      <4>1. Given' = Given + 1 /\ Given' > 0
        BY <1>2, <1>5, <3>1 DEF Sending
      <4> QED BY <1>1, <1>2, <3>1, <4>1 DEF Giving
    <3>2. CASE state' = "READ_HEADER" /\ Given + 1 = REPLY + dlen
      BY <1>2, <3>2 DEF Giving, EndOfReply, Sending
    <3> QED BY <1>5, <3>1, <3>2
  <2> QED BY <1>2, <2>1 DEF RepliesFramed, Chained
<1>11. Owed'
  <2>1. Owed
    BY OwedIs
  <2>2. ASSUME peer = "open", ~excused
        PROVE  owed = Cardinality(Places(wire, Ends)) + (IF state' \in Sending THEN 1 ELSE 0)
                        + Cardinality(Places(back', Dones))
    <3>1. owed = Cardinality(Places(wire, Ends)) + 1 + Cardinality(Places(back, Dones))
      BY <1>1, <2>1, <2>2 DEF Owed, Sending
    <3>2. state' \in Sending <=> Given + 1 # REPLY + dlen
      BY <1>5 DEF Sending
    <3> QED BY <1>2, <1>3, <1>4, <3>1, <3>2
  <2> QED BY <1>1, <2>2 DEF Owed
<1> QED BY <1>6, <1>7, <1>8, <1>9, <1>10, <1>11, OwedIsNext

\* The last byte of a reply is given before the connection is closed for want of memory.
LEMMA GiveUpKeeps ==
  ASSUME IInv, GiveUp
  PROVE  IInv'
<1> USE DEF IInv
<1>1. /\ state \in Sending /\ state' = "CONN_CLOSED" /\ wire' = <<>> /\ back' = Append(back, Giving)
      /\ UNCHANGED <<rbytes, hdr, sbytes, dlen, excused, peer, next, owed>>
  BY DEF GiveUp, client, Giving
<1>2. back' \in Seq(Answers) /\ Chained(back')
  BY <1>1, ReplyGrows
<1>3. TypeOK'
  BY <1>1, <1>2 DEF TypeOK
<1>4. Counting'
  BY <1>1 DEF Counting, Reading, Sending
<1>5. Stream'
  BY <1>1 DEF Stream
<1>6. Aligned' /\ Owed'
  BY <1>1 DEF Aligned, Owed
<1>7. RepliesFramed'
  BY <1>1, <1>2 DEF RepliesFramed, Chained
<1> QED BY <1>3, <1>4, <1>5, <1>6, <1>7, OwedIsNext
-----------------------------------------------------------------------------
(* The client                                                              *)

\* The client's bytes follow one another, and a whole request is one more that is owed.
LEMMA WriteKeeps ==
  ASSUME IInv, ClientWrite
  PROVE  IInv'
<1> USE DEF IInv
<1>1. /\ peer = "open" /\ state # "CONN_CLOSED" /\ UNCHANGED <<state, rbytes, hdr, sbytes, dlen, excused, back, peer>>
      /\ wire' = Append(wire, [next EXCEPT !.pos = @ + 1])
      /\ \/ next.pos + 1 < Size(next.of) /\ next' = [next EXCEPT !.pos = @ + 1] /\ UNCHANGED owed
         \/ /\ next.pos + 1 = Size(next.of) /\ owed' = owed + 1
            /\ \E h \in Headers : next' = [of |-> h, pos |-> 0]
  BY DEF ClientWrite, server
<1>2. /\ next \in Sent /\ next.of \in Headers /\ next.pos \in Nat /\ [next EXCEPT !.pos = @ + 1] = Coming
      /\ wire \in Seq(Sent) /\ owed \in Nat
  BY SentIs DEF TypeOK, Coming
<1>3. Coming \in Sent /\ Coming.of = next.of /\ Coming.pos = next.pos + 1
  BY <1>2 DEF Coming, Sent
<1> DEFINE n == Len(wire)
<1>4. /\ n \in Nat /\ wire' \in Seq(Sent) /\ Len(wire') = n + 1 /\ (\A i \in 1..n : wire'[i] = wire[i])
      /\ wire'[n + 1] = Coming /\ wire' # <<>>
  <2> HIDE DEF n
  <2> QED BY <1>1, <1>2, <1>3, AppendIs DEF n
\* The request goes on, or is whole and the next begins.
<1>5. /\ next' \in Sent /\ next'.pos < Size(next'.of) /\ owed' \in Nat
      /\ Follows(Coming, Coming')
      /\ owed' = owed + IF Coming \in Ends THEN 1 ELSE 0
  <2>0. \A h \in Headers : Size(h) \in Nat /\ Size(h) > 0
    BY Lengths
  <2>1. CASE next.pos + 1 < Size(next.of) /\ next' = [next EXCEPT !.pos = @ + 1] /\ UNCHANGED owed
    <3>1. next' = Coming /\ Coming \notin Ends
      BY <1>2, <1>3, <2>0, <2>1 DEF Ends
    <3>2. Coming'.of = next.of /\ Coming'.pos = next.pos + 1 + 1
      BY <1>3, <3>1 DEF Coming
    <3> QED BY <1>2, <1>3, <2>0, <2>1, <3>1, <3>2 DEF Follows
  <2>2. CASE next.pos + 1 = Size(next.of) /\ owed' = owed + 1 /\ \E h \in Headers : next' = [of |-> h, pos |-> 0]
    <3>1. PICK h \in Headers : next' = [of |-> h, pos |-> 0]
      BY <2>2
    <3>2. next' \in Sent /\ next'.of = h /\ next'.pos = 0 /\ Coming \in Ends
      BY <1>3, <2>2, <3>1 DEF Sent, Ends
    <3>3. Coming'.pos = 1
      BY <3>2 DEF Coming
    <3> QED BY <1>2, <1>3, <2>0, <2>2, <3>2, <3>3 DEF Follows
  <2> QED BY <1>1, <2>1, <2>2
<1>6. NextByte' = NextByte
  <2>1. CASE wire = <<>>
    <3>1. n = 0
      BY <2>1
    <3>2. Head(wire') = Coming
      BY <1>4, <3>1
    <3> QED BY <1>2, <1>4, <2>1, <3>2 DEF NextByte
  <2>2. CASE wire # <<>>
    <3>1. 1 \in 1..n /\ Head(wire) = wire[1] /\ Head(wire') = wire'[1]
      BY <1>2, <1>4, <2>2
    <3> QED BY <1>4, <2>2, <3>1 DEF NextByte
  <2> QED BY <2>1, <2>2
<1>7. TypeOK'
  BY <1>1, <1>4, <1>5 DEF TypeOK
<1>8. Counting'
  <2>1. Total' = Total /\ SendTotal' = SendTotal
    BY <1>1 DEF Total, SendTotal
  <2> QED BY <1>1, <2>1 DEF Counting
<1>9. Stream'
  <2>1. ASSUME NEW i \in 1..(Len(wire') - 1) PROVE Follows(wire'[i], wire'[i + 1])
    <3>0. \A j \in 1..(n - 1) : Follows(wire[j], wire[j + 1])
      BY DEF Stream
    <3>00. wire # <<>> => Follows(wire[n], Coming)
      BY DEF Stream
    <3>1. CASE i < n
      <4> HIDE DEF n
      <4>1. i \in 1..(n - 1) /\ wire'[i] = wire[i] /\ wire'[i + 1] = wire[i + 1]
        BY <1>4, <3>1
      <4> QED BY <3>0, <4>1
    <3>2. CASE i = n
      <4>1. wire # <<>> /\ wire'[i] = wire[n] /\ wire'[i + 1] = Coming
        BY <1>4, <3>2
      <4> QED BY <3>00, <4>1
    <3> QED BY <1>4, <3>1, <3>2
  <2>2. wire'[Len(wire')] = Coming
    BY <1>4
  <2> QED BY <1>5, <2>1, <2>2 DEF Stream
<1>10. Aligned'
  <2>1. Taken' = Taken
    BY <1>1 DEF Taken
  <2> QED BY <1>1, <1>6, <2>1 DEF Aligned
<1>11. RepliesFramed'
  <2>1. Given' = Given
    BY <1>1 DEF Given
  <2> QED BY <1>1, <2>1 DEF RepliesFramed
<1>12. Owed'
  <2>1. Cardinality(Places(wire', Ends)) = Cardinality(Places(wire, Ends)) + IF Coming \in Ends THEN 1 ELSE 0
    BY <1>1, <1>2, <1>3, PlacesAppend
  <2>2. Cardinality(Places(wire, Ends)) \in Nat /\ Cardinality(Places(back, Dones)) \in Nat
    BY PlacesFinite DEF TypeOK
  <2>3. Owed
    BY OwedIs
  <2> QED BY <1>1, <1>2, <1>5, <2>1, <2>2, <2>3 DEF Owed
<1> QED BY <1>7, <1>8, <1>9, <1>10, <1>11, <1>12, OwedIsNext

\* A reply that is read to its end is one that is no longer owed or on the way.
LEMMA ReadsKeeps ==
  ASSUME IInv, ClientRead
  PROVE  IInv'
<1> USE DEF IInv
<1>1. /\ peer = "open" /\ back # <<>> /\ back' = Tail(back)
      /\ owed' = IF owed > 0 /\ EndOfReply(Head(back)) THEN owed - 1 ELSE owed
      /\ UNCHANGED <<state, rbytes, hdr, sbytes, dlen, excused, wire, peer, next>>
  BY DEF ClientRead, server
<1>2. back \in Seq(Answers) /\ owed \in Nat
  BY DEF TypeOK
<1> DEFINE n == Len(back)
<1>3. /\ n \in Nat /\ n > 0 /\ Head(back) = back[1] /\ back[1] \in Answers /\ back' \in Seq(Answers)
      /\ Len(back') = n - 1 /\ \A i \in 1..(n - 1) : back'[i] = back[i + 1]
  BY <1>1, <1>2, TailIs
<1>4. Head(back) \in Dones <=> EndOfReply(Head(back))
  BY <1>3 DEF Dones
<1>5. TypeOK'
  BY <1>1, <1>2, <1>3 DEF TypeOK
<1>6. Counting'
  <2>1. Total' = Total /\ SendTotal' = SendTotal
    BY <1>1 DEF Total, SendTotal
  <2> QED BY <1>1, <2>1 DEF Counting
<1>7. Stream'
  BY <1>1 DEF Stream, Coming
<1>8. Aligned'
  <2>1. Taken' = Taken /\ NextByte' = NextByte
    BY <1>1 DEF Taken, NextByte
  <2> QED BY <1>1, <2>1 DEF Aligned
<1>9. RepliesFramed'
  <2>0. \A i \in 1..(n - 1) : IF EndOfReply(back[i]) THEN back[i + 1].pos = 1
                              ELSE back[i + 1].len = back[i].len /\ back[i + 1].pos = back[i].pos + 1
    <3>1. Chained(back)
      BY DEF RepliesFramed, Chained
    <3> QED BY <1>2, <3>1, ChainedIs
  <2>1. Chained(back')
    <3> SUFFICES ASSUME NEW i \in 1..(Len(back') - 1)
                 PROVE  IF EndOfReply(back'[i]) THEN back'[i + 1].pos = 1
                        ELSE back'[i + 1].len = back'[i].len /\ back'[i + 1].pos = back'[i].pos + 1
      BY <1>3, ChainedIs
    <3> HIDE DEF n
    <3>1. i + 1 \in 1..(n - 1) /\ back'[i] = back[i + 1] /\ back'[i + 1] = back[i + 1 + 1]
      BY <1>3
    <3> QED BY <2>0, <3>1
  <2>2. Given' = Given
    BY <1>1 DEF Given
  <2>3. back' # <<>> => Last(back') = Last(back)
    <3>1. SUFFICES ASSUME back' # <<>> PROVE back'[n - 1] = back[n]
      BY <1>3 DEF Last
    <3>2. n - 1 \in 1..(n - 1)
      BY <1>3, <3>1
    <3> HIDE DEF n
    <3> QED BY <1>3, <3>2
  <2>4. back' # <<>> /\ state' # "CONN_CLOSED" =>
          IF state' \in Sending /\ Given' > 0 THEN Last(back') = [len |-> dlen', pos |-> Given']
          ELSE EndOfReply(Last(back'))
    BY <1>1, <2>2, <2>3 DEF RepliesFramed
  <2> QED BY <2>1, <2>4 DEF RepliesFramed, Chained
<1>10. Owed'
  <2>1. Cardinality(Places(back, Dones)) = Cardinality(Places(back', Dones)) + IF Head(back) \in Dones THEN 1 ELSE 0
    BY <1>1, <1>2, PlacesTail
  <2>2. Cardinality(Places(wire, Ends)) \in Nat /\ Cardinality(Places(back', Dones)) \in Nat
    BY <1>3, PlacesFinite DEF TypeOK
  <2>3. Owed
    BY OwedIs
  <2> SUFFICES ASSUME state # "CONN_CLOSED", ~excused
               PROVE  owed' = Cardinality(Places(wire, Ends)) + (IF state \in Sending THEN 1 ELSE 0)
                              + Cardinality(Places(back', Dones))
    BY <1>1 DEF Owed
  <2> DEFINE a == Cardinality(Places(wire, Ends)) + (IF state \in Sending THEN 1 ELSE 0)
             d == Cardinality(Places(back', Dones))
  <2>4. owed = a + Cardinality(Places(back, Dones))
    BY <1>1, <2>3 DEF Owed
  <2>5. a \in Nat /\ d \in Nat
    BY <2>2
  <2>6. Cardinality(Places(back, Dones)) = d + IF Head(back) \in Dones THEN 1 ELSE 0
    BY <2>1
  <2>7. owed' = IF owed > 0 /\ Head(back) \in Dones THEN owed - 1 ELSE owed
    BY <1>1, <1>4
  <2> HIDE DEF a, d
  <2>8. owed' = a + d
    BY <2>4, <2>5, <2>6, <2>7
  <2> QED BY <2>8 DEF a, d
<1> QED BY <1>5, <1>6, <1>7, <1>8, <1>9, <1>10, OwedIsNext

\* A client that leaves takes what is on the way with it, or leaves it.
LEMMA LeavesKeeps ==
  ASSUME IInv, ClientCloses \/ ClientResets
  PROVE  IInv'
<1> USE DEF IInv
<1>1. /\ peer = "open" /\ peer' \in {"gone", "reset"}
      /\ (wire' = wire /\ back' = back /\ peer' = "gone") \/ (wire' = <<>> /\ back' = <<>>)
      /\ UNCHANGED <<state, rbytes, hdr, sbytes, dlen, excused, next, owed>>
  BY DEF ClientCloses, ClientResets, server, client
<1>2. TypeOK'
  <2>1. wire' \in Seq(Sent)
    <3>1. <<>> \in Seq(Sent)
      OBVIOUS
    <3> QED BY <1>1, <3>1 DEF TypeOK
  <2>2. back' \in Seq(Answers)
    <3>1. <<>> \in Seq(Answers)
      OBVIOUS
    <3> QED BY <1>1, <3>1 DEF TypeOK
  <2> QED BY <1>1, <2>1, <2>2 DEF TypeOK
<1>3. Counting'
  <2>1. Total' = Total /\ SendTotal' = SendTotal
    BY <1>1 DEF Total, SendTotal
  <2> QED BY <1>1, <2>1 DEF Counting
<1>4. Stream'
  BY <1>1 DEF Stream, Coming
<1>5. Aligned' /\ Owed'
  BY <1>1 DEF Aligned, Owed
<1>6. RepliesFramed'
  <2>1. Given' = Given
    BY <1>1 DEF Given
  <2> QED BY <1>1, <2>1 DEF RepliesFramed
<1> QED BY <1>2, <1>3, <1>4, <1>5, <1>6, OwedIsNext

\* A connection as accept leaves it, with any header and length left in the structure.
Fresh ==
  /\ state = "READ_HEADER" /\ rbytes = 0 /\ sbytes = 0 /\ dlen \in Nat /\ hdr \in Headers
  /\ wire = <<>> /\ back = <<>> /\ peer = "open" /\ owed = 0 /\ excused = FALSE
  /\ next \in [of : Headers, pos : {0}]

\* A connection begins with the client and the server at the first byte.
LEMMA FreshOK == Fresh => IInv
<1> SUFFICES ASSUME Fresh PROVE IInv
  OBVIOUS
<1> USE DEF Fresh
<1>1. /\ next \in Sent /\ next.of \in Headers /\ next.pos = 0 /\ Size(next.of) > 0
      /\ HEADER \in 1..(WIDTH - 2) /\ WIDTH \in Nat
  BY Lengths DEF Sent
<1>2. TypeOK
  <2>1. <<>> \in Seq(Sent) /\ <<>> \in Seq(Answers)
    OBVIOUS
  <2>2. 0 \in 0..(WIDTH - 1)
    BY <1>1
  <2> QED BY <1>1, <2>1, <2>2 DEF TypeOK, Reading
<1>3. Counting
  BY <1>1 DEF Counting, Reading, Sending, Total
<1>4. Stream
  BY <1>1 DEF Stream
<1>5. Aligned
  <2>1. NextByte.pos = 1
    BY <1>1, SentIs DEF NextByte
  <2> QED BY <2>1 DEF Aligned, Taken
<1>6. RepliesFramed
  BY DEF RepliesFramed
<1>7. Owed
  <2>1. Places(wire, Ends) = {} /\ Places(back, Dones) = {}
    BY DEF Places
  <2>2. Cardinality(Places(wire, Ends)) = 0 /\ Cardinality(Places(back, Dones)) = 0
    BY <2>1, FS_EmptySet
  <2>3. state \notin Sending
    BY DEF Sending
  <2> QED BY <2>2, <2>3 DEF Owed
<1> QED BY <1>2, <1>3, <1>4, <1>5, <1>6, <1>7, OwedIs DEF IInv

\* A structure that is used again begins afresh.
LEMMA ConnectKeeps ==
  ASSUME IInv, Connect
  PROVE  IInv'
<1>1. Fresh'
  BY DEF Connect, Begin, Fresh, IInv, TypeOK
<1>2. Fresh' => IInv'
  BY FreshOK, PTL
<1> QED BY <1>1, <1>2

\* A step that changes nothing keeps the invariant.
LEMMA NothingKeeps ==
  ASSUME IInv, UNCHANGED vars
  PROVE  IInv'
<1>1. UNCHANGED <<state, rbytes, hdr, sbytes, dlen, excused, wire, back, peer, next, owed>>
  BY DEF vars, server, client
<1>2. TypeOK' /\ Stream' /\ Aligned' /\ OneReplyEach'
  BY <1>1 DEF IInv, TypeOK, Stream, Coming, Aligned, NextByte, Taken, OneReplyEach, EndOfReply
<1>3. Counting' /\ RepliesFramed'
  BY <1>1 DEF IInv, Counting, Total, SendTotal, RepliesFramed, Given
<1> QED BY <1>2, <1>3 DEF IInv

\* Every step keeps the invariant.
LEMMA StepKeeps == IInv /\ [Next]_vars => IInv'
<1> SUFFICES ASSUME IInv, [Next]_vars PROVE IInv'
  OBVIOUS
<1>1. CASE ReadByte
  BY <1>1, ReadKeeps
<1>2. CASE ReadError
  BY <1>2, ErrorKeeps
<1>3. CASE EndOfStream \/ SendError \/ disconnect_idle_conns
  BY <1>3, ClosedKeeps DEF EndOfStream, SendError, disconnect_idle_conns
<1>4. CASE try_send_response
  BY <1>4, SendKeeps
<1>5. CASE GiveUp
  BY <1>5, GiveUpKeeps
<1>6. CASE ClientWrite
  BY <1>6, WriteKeeps
<1>7. CASE ClientRead
  BY <1>7, ReadsKeeps
<1>8. CASE ClientCloses \/ ClientResets
  BY <1>8, LeavesKeeps
<1>9. CASE Connect
  BY <1>9, ConnectKeeps
<1>10. CASE UNCHANGED vars
  BY <1>10, NothingKeeps
<1> QED BY <1>1, <1>2, <1>3, <1>4, <1>5, <1>6, <1>7, <1>8, <1>9, <1>10 DEF Next, Server
-----------------------------------------------------------------------------
(* Theorems                                                                *)

\* A connection of try_read_request, read_nbytes and try_send_response keeps its counts,
\* its place in the stream of requests, and its replies, in every reachable state.
THEOREM FramingInvariant == Spec => []IInv
<1>1. Init => IInv
  <2>1. Init => Fresh
    BY DEF Init, Fresh
  <2> QED BY <2>1, FreshOK
<1> QED BY <1>1, StepKeeps, PTL DEF Spec

\* The server is where the client is, unless a section was not read: for requests of
\* any lengths, cut into reads in any way and sent ahead.
THEOREM KeepsItsPlace == Spec => []Aligned
<1>1. IInv => Aligned
  BY DEF IInv
<1> QED BY <1>1, FramingInvariant, PTL

\* No byte is stored past the buffer of its section, also by a server that has lost its
\* place, and after rbytes wrapped around.
THEOREM BytesInBuffer == Spec => []InBuffer
<1>1. IInv => InBuffer
  BY DEF IInv, Counting, InBuffer
<1> QED BY <1>1, FramingInvariant, PTL

\* The replies on the way to the client follow one another, each of the length that its
\* header gives.
THEOREM RepliesApart == Spec => []RepliesFramed
<1>1. IInv => RepliesFramed
  BY DEF IInv
<1> QED BY <1>1, FramingInvariant, PTL

\* The requests a client has no whole reply to are those on the way, the one in hand,
\* and those whose replies are on the way: none is answered twice or not at all.
THEOREM OneReplyForEach == Spec => []OneReplyEach
<1>1. IInv => OneReplyEach
  BY DEF IInv
<1> QED BY <1>1, FramingInvariant, PTL
=============================================================================
