--------------------------- MODULE StpSystemProofs ---------------------------
(***************************************************************************)
(* Theorems about StpSystem, for any number of clients on the server's     *)
(* host and on others, any timers, backlog and deaths: no packet is lost   *)
(* or answered twice on a connection, what a remote client stores has been *)
(* granted to it, and never replaces a newer token; and, where no client   *)
(* shares the server's segment, the expiry of an item belongs to its key   *)
(* and the last client agrees with the server.                             *)
(***************************************************************************)
EXTENDS StpSystem, SequenceTheorems, TLAPS

-----------------------------------------------------------------------------
(* Constants and sequences.                                                *)

LEMMA Constants ==
  /\ LocalClients \subseteq Clients /\ Srv \notin Clients /\ Nobody \notin Clients
  /\ Srv \in Segments /\ Clients \ LocalClients \subseteq Segments
  /\ \A c \in Clients : SegmentOf(c) \in Segments
  /\ \A c \in Clients \ LocalClients : SegmentOf(c) = c /\ c # Srv
  /\ \A c \in LocalClients : SegmentOf(c) = Srv
  /\ MaxTime \in Nat /\ TokenExpires \in Nat /\ MaxDeaths \in Nat
BY SystemAssumption DEF SystemAssumption, Segments, SegmentOf

LEMMA KeysAndExpiries ==
  /\ NoKey \in Keys /\ Mixed \in Keys /\ 0 .. MaxTime \subseteq Keys /\ Keys \subseteq Int
  /\ -1 \in Expiries /\ 0 \in Expiries
  /\ \A t \in 0 .. MaxTime : t + TokenExpires \in Expiries
  /\ \A e \in Expiries : e \in Int /\ e >= -1
BY SystemAssumption DEF SystemAssumption, Keys, Expiries, NoKey, Mixed

\* The first element of a concatenation, and what follows it.
LEMMA TailOfConcat ==
  ASSUME NEW S, NEW s \in Seq(S), NEW t \in Seq(S), s # <<>>
  PROVE  /\ s \o t # <<>>
         /\ Head(s \o t) = Head(s)
         /\ Tail(s \o t) = Tail(s) \o t
<1>1. Len(s) \in Nat /\ Len(t) \in Nat /\ Len(s) > 0 /\ s \o t \in Seq(S) /\ Len(s \o t) = Len(s) + Len(t)
  BY EmptySeq, LenProperties, ConcatProperties
<1>2. \A i \in 1 .. Len(s) + Len(t) : (s \o t)[i] = IF i <= Len(s) THEN s[i] ELSE t[i - Len(s)]
  BY ConcatProperties, Zenon
<1>3. s \o t # <<>>
  BY <1>1, EmptySeq
<1>4. Tail(s \o t) \in Seq(S) /\ Len(Tail(s \o t)) = Len(s) + Len(t) - 1
  BY <1>1, <1>3, HeadTailProperties
<1>5. \A i \in 1 .. Len(Tail(s \o t)) : Tail(s \o t)[i] = (s \o t)[i + 1]
  BY <1>1, <1>3, HeadTailProperties, Zenon
<1>6. /\ Tail(s) \in Seq(S) /\ Len(Tail(s)) = Len(s) - 1
      /\ \A i \in 1 .. Len(Tail(s)) : Tail(s)[i] = s[i + 1]
  BY HeadTailProperties, Zenon
<1>7. Tail(s) \o t \in Seq(S) /\ Len(Tail(s) \o t) = Len(s) - 1 + Len(t)
  BY <1>6, ConcatProperties
<1>8. \A i \in 1 .. Len(Tail(s)) + Len(t) :
        (Tail(s) \o t)[i] = IF i <= Len(Tail(s)) THEN Tail(s)[i] ELSE t[i - Len(Tail(s))]
  BY <1>6, ConcatProperties, Zenon
<1> DEFINE a == Tail(s) \o t
           b == Tail(s \o t)
           c == s \o t
           d == Tail(s)
<1> HIDE DEF a, b, c, d
<1>9. ASSUME NEW i \in 1 .. Len(a) PROVE a[i] = b[i]
  <2>1. i \in 1 .. Len(s) + Len(t) - 1
    BY <1>1, <1>7 DEF a
  <2>2. a[i] = IF i <= Len(s) - 1 THEN d[i] ELSE t[i - (Len(s) - 1)]
    BY <2>1, <1>1, <1>6, <1>8 DEF a, d
  <2>3. b[i] = c[i + 1]
    BY <2>1, <1>4, <1>5 DEF b, c
  <2>4. c[i + 1] = IF i + 1 <= Len(s) THEN s[i + 1] ELSE t[i + 1 - Len(s)]
    BY <2>1, <1>1, <1>2 DEF c
  <2>5. i <= Len(s) - 1 => d[i] = s[i + 1]
    BY <2>1, <1>1, <1>6 DEF d
  <2> QED
    BY <1>1, <2>1, <2>2, <2>3, <2>4, <2>5
<1>10. a \in Seq(S) /\ b \in Seq(S) /\ Len(a) = Len(b)
  BY <1>1, <1>4, <1>7 DEF a, b
<1>11. a = b
  BY <1>9, <1>10, SeqEqual, Zenon
<1>12. c[1] = s[1]
  BY <1>1, <1>2 DEF c
<1>13. Head(s \o t) = Head(s)
  BY <1>12 DEF c
<1> QED
  BY <1>3, <1>11, <1>13 DEF a, b

\* A read event takes the first of all packets that are buffered or on the way, and
\* changes neither the number nor the order of the rest.
Buffered(s, t, n) == s \o SubSeq(t, 1, n)
OnTheWay(t, n) == SubSeq(t, n + 1, Len(t))

TakesOne(S, s, t, n) ==
  /\ Tail(Buffered(s, t, n)) \in Seq(S) /\ OnTheWay(t, n) \in Seq(S)
  /\ Head(Buffered(s, t, n)) \in S
  /\ s \o t # <<>> /\ Head(s \o t) = Head(Buffered(s, t, n))
  /\ Tail(s \o t) = Tail(Buffered(s, t, n)) \o OnTheWay(t, n)
  /\ Len(s) + Len(t) = (Len(Tail(Buffered(s, t, n))) + Len(OnTheWay(t, n))) + 1

LEMMA OnePacketPerRead ==
  ASSUME NEW S, NEW s \in Seq(S), NEW t \in Seq(S), NEW n \in 0 .. Len(t),
         Buffered(s, t, n) # <<>>
  PROVE  TakesOne(S, s, t, n)
<1> DEFINE first == SubSeq(t, 1, n)
           rest == OnTheWay(t, n)
           input == Buffered(s, t, n)
<1>1. Len(t) \in Nat /\ Len(s) \in Nat /\ n \in Nat /\ n <= Len(t)
  BY LenProperties
<1>2. \A i \in 1 .. Len(t) : t[i] \in S
  BY ElementOfSeq
<1>3. first \in Seq(S) /\ Len(first) = n
  <2>1. \A i \in 1 .. n : t[i] \in S
    BY <1>1, <1>2
  <2> QED
    BY <1>1, <2>1, SubSeqProperties
<1>4. rest \in Seq(S) /\ Len(rest) = Len(t) - n
  <2>1. \A i \in n + 1 .. Len(t) : t[i] \in S
    BY <1>1, <1>2
  <2> QED
    BY <1>1, <2>1, SubSeqProperties DEF OnTheWay
<1>5. first \o rest = t
  <2>1. 1 \in 1 .. Len(t) + 1 /\ n \in 1 - 1 .. Len(t) /\ Len(t) \in n .. Len(t)
    BY <1>1
  <2>2. first \o rest = SubSeq(t, 1, Len(t))
    BY <2>1, ConcatAdjacentSubSeq, Zenon DEF OnTheWay
  <2>3. SubSeq(t, 1, Len(t)) = t
    BY SubSeqFull, Zenon
  <2> QED
    BY <2>2, <2>3, Zenon
<1> HIDE DEF first, rest, input
<1>6. input \in Seq(S) /\ Len(input) = Len(s) + n
  BY <1>1, <1>3, ConcatProperties DEF input, Buffered, first
<1>7. (s \o first) \o rest = s \o (first \o rest)
  <2>1. ASSUME NEW f \in Seq(S), NEW r \in Seq(S) PROVE (s \o f) \o r = s \o (f \o r)
    BY ConcatAssociative, SMTT(30)
  <2> QED
    BY <1>3, <1>4, <2>1, Zenon
<1>8. input \o rest = s \o t
  BY <1>5, <1>7 DEF input, Buffered, first
<1>9. input # <<>>
  BY DEF input
<1>10. Head(input) \in S /\ Tail(input) \in Seq(S) /\ Len(Tail(input)) = Len(s) + n - 1
  BY <1>6, <1>9, HeadTailProperties
<1>11. s \o t # <<>> /\ Head(s \o t) = Head(input) /\ Tail(s \o t) = Tail(input) \o rest
  <2>1. input \o rest # <<>> /\ Head(input \o rest) = Head(input)
        /\ Tail(input \o rest) = Tail(input) \o rest
    BY <1>4, <1>6, <1>9, TailOfConcat
  <2> QED
    BY <1>8, <2>1
<1>12. Len(s) + Len(t) = (Len(Tail(input)) + Len(rest)) + 1
  <2> DEFINE a == Len(Tail(input))
             b == Len(rest)
  <2>1. a = Len(s) + n - 1 /\ b = Len(t) - n
    BY <1>4, <1>10, Zenon
  <2> HIDE DEF a, b
  <2>2. Len(s) + Len(t) = (a + b) + 1
    BY <1>1, <2>1
  <2> QED
    BY <2>2 DEF a, b
<1> QED
  BY <1>4, <1>10, <1>11, <1>12 DEF rest, input, TakesOne

-----------------------------------------------------------------------------
(* What the reads and the answers do to a connection.                      *)

\* The answers a client has not taken yet, oldest first, and the numbers of packets
\* that go to the server and to the client.
Queued(p) == p.atClient \o p.down
Queue(c) == Queued(pipe[c])
Upward(p) == Len(p.atServer) + Len(p.up)
Downward(p) == Len(p.atClient) + Len(p.down)

LEMMA PipeType ==
  ASSUME NEW p \in Pipes
  PROVE  /\ p.up \in Seq(Timers) /\ p.atServer \in Seq(Timers)
         /\ p.down \in Seq(Answers) /\ p.atClient \in Seq(Answers)
         /\ Queued(p) \in Seq(Answers)
         /\ Upward(p) \in Nat /\ Downward(p) \in Nat
<1>1. /\ p.up \in Seq(Timers) /\ p.atServer \in Seq(Timers)
      /\ p.down \in Seq(Answers) /\ p.atClient \in Seq(Answers)
  BY DEF Pipes
<1>2. Queued(p) \in Seq(Answers)
  BY <1>1, ConcatProperties DEF Queued
<1> DEFINE a == Len(p.up)
           b == Len(p.atServer)
           d == Len(p.down)
           e == Len(p.atClient)
<1>3. a \in Nat /\ b \in Nat /\ d \in Nat /\ e \in Nat
  BY <1>1, LenProperties
<1> HIDE DEF a, b, d, e
<1>4. b + a \in Nat /\ e + d \in Nat
  BY <1>3
<1> QED
  BY <1>1, <1>2, <1>4 DEF Upward, Downward, a, b, d, e

LEMMA EmptyPipeFacts ==
  /\ EmptyPipe \in Pipes /\ Queued(EmptyPipe) = <<>>
  /\ Upward(EmptyPipe) = 0 /\ Downward(EmptyPipe) = 0
<1>1. <<>> \in Seq(Timers) /\ <<>> \in Seq(Answers) /\ Len(<<>>) = 0 /\ <<>> \o <<>> = <<>>
  BY EmptySeq, ConcatEmptySeq
<1>2. EmptyPipe \in Pipes
  BY <1>1 DEF EmptyPipe, Pipes
<1>3. Upward(EmptyPipe) = 0 /\ Downward(EmptyPipe) = 0
  BY <1>1 DEF EmptyPipe, Upward, Downward
<1>4. Queued(EmptyPipe) = <<>>
  BY <1>1 DEF EmptyPipe, Queued
<1> QED
  BY <1>2, <1>3, <1>4

\* A client's read takes the oldest answer.
LEMMA ReadDown ==
  ASSUME NEW p \in Pipes, NEW n \in 0 .. Len(p.down), NEW q,
         Buffered(p.atClient, p.down, n) # <<>>,
         q = [p EXCEPT !.down = OnTheWay(p.down, n),
                       !.atClient = Tail(Buffered(p.atClient, p.down, n))]
  PROVE  /\ q \in Pipes /\ Upward(q) = Upward(p) /\ Downward(p) = Downward(q) + 1
         /\ Queued(p) # <<>> /\ Queued(q) = Tail(Queued(p))
         /\ Head(Queued(p)) = Head(Buffered(p.atClient, p.down, n))
<1>1. PICK s \in Seq(Answers), t \in Seq(Answers) : s = p.atClient /\ t = p.down
  BY PipeType
<1> DEFINE input == Buffered(s, t, n)
           rest == OnTheWay(t, n)
<1>2. n \in 0 .. Len(t) /\ input # <<>>
  BY <1>1
<1>3. /\ Tail(input) \in Seq(Answers) /\ rest \in Seq(Answers)
      /\ s \o t # <<>> /\ Head(s \o t) = Head(input)
      /\ Tail(s \o t) = Tail(input) \o rest
      /\ Len(s) + Len(t) = (Len(Tail(input)) + Len(rest)) + 1
  <2>1. TakesOne(Answers, s, t, n)
    BY <1>2, OnePacketPerRead
  <2> QED
    BY <2>1, Zenon DEF TakesOne
<1> HIDE DEF input, rest
<1>4. q = [p EXCEPT !.down = rest, !.atClient = Tail(input)]
  BY <1>1 DEF input, rest
<1>5. /\ q \in Pipes /\ q.up = p.up /\ q.atServer = p.atServer
      /\ q.atClient = Tail(input) /\ q.down = rest
  BY <1>3, <1>4 DEF Pipes
<1>6. Upward(q) = Upward(p)
  BY <1>5, Zenon DEF Upward
<1>7. Downward(p) = Downward(q) + 1
  BY <1>1, <1>3, <1>5, Zenon DEF Downward
<1>8. Queued(p) = s \o t /\ Queued(q) = Tail(input) \o rest
  BY <1>1, <1>5, Zenon DEF Queued
<1>9. Head(input) = Head(Buffered(p.atClient, p.down, n))
  BY <1>1, Zenon DEF input
<1> QED
  BY <1>3, <1>5, <1>6, <1>7, <1>8, <1>9, Zenon

\* The server's read takes a packet, and leaves the other direction alone.
LEMMA ReadUp ==
  ASSUME NEW p \in Pipes, NEW n \in 0 .. Len(p.up), NEW q,
         Buffered(p.atServer, p.up, n) # <<>>,
         q = [p EXCEPT !.up = OnTheWay(p.up, n), !.atServer = Tail(Buffered(p.atServer, p.up, n))]
  PROVE  /\ q \in Pipes /\ Upward(p) = Upward(q) + 1 /\ Downward(q) = Downward(p)
         /\ Queued(q) = Queued(p)
<1>1. PICK s \in Seq(Timers), t \in Seq(Timers) : s = p.atServer /\ t = p.up
  BY PipeType
<1> DEFINE input == Buffered(s, t, n)
           rest == OnTheWay(t, n)
<1>2. n \in 0 .. Len(t) /\ input # <<>>
  BY <1>1
<1>3. /\ Tail(input) \in Seq(Timers) /\ rest \in Seq(Timers)
      /\ Len(s) + Len(t) = (Len(Tail(input)) + Len(rest)) + 1
  <2>1. TakesOne(Timers, s, t, n)
    BY <1>2, OnePacketPerRead
  <2> QED
    BY <2>1, Zenon DEF TakesOne
<1> HIDE DEF input, rest
<1>4. q = [p EXCEPT !.up = rest, !.atServer = Tail(input)]
  BY <1>1 DEF input, rest
<1>5. /\ q \in Pipes /\ q.down = p.down /\ q.atClient = p.atClient
      /\ q.atServer = Tail(input) /\ q.up = rest
  BY <1>3, <1>4 DEF Pipes
<1>6. Upward(p) = Upward(q) + 1
  BY <1>1, <1>3, <1>5, Zenon DEF Upward
<1> QED
  BY <1>5, <1>6, Zenon DEF Queued, Downward

\* An answer goes behind the ones on the way.
LEMMA AnsweredPipe ==
  ASSUME NEW p \in Pipes, NEW m \in Answers
  PROVE  /\ Answered(p, m) \in Pipes
         /\ Upward(Answered(p, m)) = Upward(p) /\ Downward(Answered(p, m)) = Downward(p) + 1
         /\ Queued(Answered(p, m)) = Append(Queued(p), m)
<1> DEFINE q == Answered(p, m)
<1>1. /\ Append(p.down, m) \in Seq(Answers) /\ Len(Append(p.down, m)) = Len(p.down) + 1
  BY PipeType, AppendProperties
<1>2. q = [p EXCEPT !.down = Append(p.down, m)]
  BY DEF Answered
<1> HIDE DEF q
<1>3. /\ q \in Pipes /\ q.up = p.up /\ q.atServer = p.atServer /\ q.atClient = p.atClient
      /\ q.down = Append(p.down, m)
  BY <1>1, <1>2 DEF Pipes
<1>4. p.atClient \o Append(p.down, m) = Append(p.atClient \o p.down, m)
  <2>1. Append(p.down, m) = p.down \o <<m>>
    BY PipeType, AppendIsConcat
  <2>2. Append(p.atClient \o p.down, m) = (p.atClient \o p.down) \o <<m>>
    BY PipeType, AppendIsConcat DEF Queued
  <2>3. <<m>> \in Seq(Answers)
    OBVIOUS
  <2>4. ASSUME NEW x \in Seq(Answers), NEW y \in Seq(Answers), NEW z \in Seq(Answers)
        PROVE  (x \o y) \o z = x \o (y \o z)
    BY ConcatAssociative
  <2>5. (p.atClient \o p.down) \o <<m>> = p.atClient \o (p.down \o <<m>>)
    BY <2>3, <2>4, PipeType, Zenon
  <2> QED
    BY <2>1, <2>2, <2>5
<1>5. Downward(q) = Downward(p) + 1
  <2> DEFINE a == Len(p.atClient)
             b == Len(p.down)
  <2>1. a \in Nat /\ b \in Nat
    BY PipeType, LenProperties
  <2>2. Downward(p) = a + b /\ Downward(q) = a + (b + 1)
    BY <1>1, <1>3, Zenon DEF Downward
  <2> HIDE DEF a, b
  <2> QED
    BY <2>1, <2>2
<1>6. Upward(q) = Upward(p)
  BY <1>3, Zenon DEF Upward
<1> QED
  BY <1>3, <1>4, <1>5, <1>6 DEF q, Queued

-----------------------------------------------------------------------------
(* Types.                                                                  *)

\* The reads and the answer, on the connections.
LEMMA ClientReadPipe ==
  ASSUME TypeOK, NEW c \in Clients, NEW n \in 0 .. Len(pipe[c].down), ClientRead(c, n)
  PROVE  /\ pipe' = [pipe EXCEPT ![c] = AfterClientRead(c, n)]
         /\ AfterClientRead(c, n) \in Pipes
         /\ Queue(c) # <<>> /\ Queued(AfterClientRead(c, n)) = Tail(Queue(c))
         /\ Upward(AfterClientRead(c, n)) = Upward(pipe[c])
         /\ Downward(pipe[c]) = Downward(AfterClientRead(c, n)) + 1
         /\ msg' = [msg EXCEPT ![c] = Head(Queue(c))] /\ Head(Queue(c)) \in Answers
         /\ proc' = [proc EXCEPT ![c] = IF Head(Queue(c)).type = "pong" THEN "loop" ELSE "clear"]
<1> DEFINE p == pipe[c]
           q == AfterClientRead(c, n)
<1>1. p \in Pipes
  BY DEF TypeOK
<1>2. ClientInput(c, n) = Buffered(p.atClient, p.down, n) /\ ClientInput(c, n) # <<>>
  BY DEF ClientInput, Buffered, ClientRead
<1>3. q = [p EXCEPT !.down = OnTheWay(p.down, n), !.atClient = Tail(ClientInput(c, n))]
  BY DEF AfterClientRead, OnTheWay, Taken
<1>4. q = [p EXCEPT !.down = OnTheWay(p.down, n),
                    !.atClient = Tail(Buffered(p.atClient, p.down, n))]
  BY <1>2, <1>3, Zenon
<1> HIDE DEF q
<1>5. /\ q \in Pipes /\ Upward(q) = Upward(p) /\ Downward(p) = Downward(q) + 1
      /\ Queued(p) # <<>> /\ Queued(q) = Tail(Queued(p))
      /\ Head(Queued(p)) = Head(ClientInput(c, n))
  BY <1>1, <1>2, <1>4, ReadDown
<1>6. Queued(p) \in Seq(Answers)
  BY <1>1, PipeType
<1>7. Head(Queued(p)) \in Answers
  BY <1>5, <1>6, HeadTailProperties
<1>8. msg' = [msg EXCEPT ![c] = Head(Queue(c))]
  BY <1>5 DEF ClientRead, Queue
<1>9. proc' = [proc EXCEPT ![c] = IF Head(Queue(c)).type = "pong" THEN "loop" ELSE "clear"]
  BY <1>8 DEF ClientRead, TypeOK
<1> QED
  BY <1>5, <1>7, <1>8, <1>9 DEF q, Queue, ClientRead

LEMMA ServerReadPipe ==
  ASSUME TypeOK, NEW c \in Clients, NEW n \in 0 .. Len(pipe[c].up), ServerRead(c, n)
  PROVE  LET q == AfterServerRead(c, n)
         IN  /\ q \in Pipes /\ Upward(pipe[c]) = Upward(q) + 1
             /\ Downward(q) = Downward(pipe[c]) /\ Queued(q) = Queue(c)
<1> DEFINE p == pipe[c]
           q == AfterServerRead(c, n)
<1>1. p \in Pipes
  BY DEF TypeOK
<1>2. ServerInput(c, n) = Buffered(p.atServer, p.up, n) /\ ServerInput(c, n) # <<>>
  BY DEF ServerInput, Buffered, ServerRead
<1>3. q = [p EXCEPT !.up = OnTheWay(p.up, n), !.atServer = Tail(ServerInput(c, n))]
  BY DEF AfterServerRead, OnTheWay, Taken
<1>4. q = [p EXCEPT !.up = OnTheWay(p.up, n), !.atServer = Tail(Buffered(p.atServer, p.up, n))]
  BY <1>2, <1>3, Zenon
<1> HIDE DEF q
<1>5. /\ q \in Pipes /\ Upward(p) = Upward(q) + 1 /\ Downward(q) = Downward(p)
      /\ Queued(q) = Queued(p)
  BY <1>1, <1>2, <1>4, ReadUp
<1> QED
  BY <1>5 DEF q, Queue

\* A timer's packet goes behind the ones on the way.
LEMMA SentPipe ==
  ASSUME NEW p \in Pipes, NEW t \in Timers
  PROVE  LET q == [p EXCEPT !.up = Append(p.up, t)]
         IN  /\ q \in Pipes /\ Upward(q) = Upward(p) + 1
             /\ Downward(q) = Downward(p) /\ Queued(q) = Queued(p)
<1> DEFINE q == [p EXCEPT !.up = Append(p.up, t)]
<1>1. Append(p.up, t) \in Seq(Timers) /\ Len(Append(p.up, t)) = Len(p.up) + 1
  BY PipeType, AppendProperties
<1>2. /\ q \in Pipes /\ q.down = p.down /\ q.atClient = p.atClient
      /\ q.atServer = p.atServer /\ q.up = Append(p.up, t)
  BY <1>1 DEF Pipes
<1> HIDE DEF q
<1>3. Upward(q) = Upward(p) + 1
  <2> DEFINE a == Len(p.atServer)
             b == Len(p.up)
  <2>1. a \in Nat /\ b \in Nat
    BY PipeType, LenProperties
  <2>2. Upward(p) = a + b /\ Upward(q) = a + (b + 1)
    BY <1>1, <1>2, Zenon DEF Upward
  <2> HIDE DEF a, b
  <2> QED
    BY <2>1, <2>2
<1>4. Downward(q) = Downward(p) /\ Queued(q) = Queued(p)
  BY <1>2, Zenon DEF Downward, Queued
<1> QED
  BY <1>2, <1>3, <1>4 DEF q

\* What is left of a connection when one of its ends dies.
LEMMA CutPipe ==
  ASSUME NEW p \in Pipes
  PROVE  /\ [p EXCEPT !.down = <<>>, !.atClient = <<>>] \in Pipes
         /\ Queued([p EXCEPT !.down = <<>>, !.atClient = <<>>]) = <<>>
         /\ [p EXCEPT !.up = <<>>, !.atServer = <<>>] \in Pipes
         /\ Queued([p EXCEPT !.up = <<>>, !.atServer = <<>>]) = Queued(p)
<1>1. <<>> \in Seq(Timers) /\ <<>> \in Seq(Answers) /\ <<>> \o <<>> = <<>>
  BY EmptySeq, ConcatEmptySeq
<1> DEFINE q == [p EXCEPT !.down = <<>>, !.atClient = <<>>]
           r == [p EXCEPT !.up = <<>>, !.atServer = <<>>]
<1>2. q \in Pipes /\ q.down = <<>> /\ q.atClient = <<>>
  BY <1>1 DEF Pipes
<1>3. r \in Pipes /\ r.down = p.down /\ r.atClient = p.atClient
  BY <1>1 DEF Pipes
<1> HIDE DEF q, r
<1>4. Queued(q) = <<>> /\ Queued(r) = Queued(p)
  BY <1>1, <1>2, <1>3, Zenon DEF Queued
<1> QED
  BY <1>2, <1>3, <1>4 DEF q, r

LEMMA AnswerTypes ==
  /\ Pong \in Answers /\ Refusal \in Answers
  /\ \A k \in Keys, e \in Expiries : Token(k, e) \in Answers
BY KeysAndExpiries DEF Pong, Refusal, Token, Answers

\* Storing into an item keeps the type of the segments, and leaves the others alone.
LEMMA StoreKeyType ==
  ASSUME store \in [Segments -> Items], NEW s \in Segments, NEW k \in Keys
  PROVE  /\ [store EXCEPT ![s].key = k] \in [Segments -> Items]
         /\ store[s] \in Items
         /\ [store EXCEPT ![s].key = k][s] = [store[s] EXCEPT !.key = k]
         /\ \A r \in Segments : r # s => [store EXCEPT ![s].key = k][r] = store[r]
BY DEF Items

LEMMA StoreExpiryType ==
  ASSUME store \in [Segments -> Items], NEW s \in Segments, NEW b \in BOOLEAN, NEW e \in Expiries
  PROVE  LET new == [store EXCEPT ![s] = [store[s] EXCEPT !.use = b, !.expires = e]]
         IN  /\ new \in [Segments -> Items]
             /\ new[s].key = store[s].key /\ new[s].use = b /\ new[s].expires = e
             /\ \A r \in Segments : r # s => new[r] = store[r]
<1> DEFINE i == [store[s] EXCEPT !.use = b, !.expires = e]
<1>1. i \in Items /\ i.key = store[s].key /\ i.use = b /\ i.expires = e
  BY DEF Items
<1> HIDE DEF i
<1>2. /\ [store EXCEPT ![s] = i] \in [Segments -> Items]
      /\ [store EXCEPT ![s] = i][s] = i
      /\ \A r \in Segments : r # s => [store EXCEPT ![s] = i][r] = store[r]
  BY <1>1
<1> QED
  BY <1>1, <1>2 DEF i

LEMMA ClearKeyType ==
  ASSUME TypeOK, NEW x \in Processes, NEW s \in Segments, ClearKey(x, s)
  PROVE  /\ store' = [store EXCEPT ![s].key = NoKey] /\ store' \in [Segments -> Items]
         /\ writing' = writing \cup {x}
         /\ writing' \subseteq Processes /\ clashed' \subseteq writing'
<1>1. store' = [store EXCEPT ![s].key = NoKey] /\ writing' = writing \cup {x}
  BY DEF ClearKey
<1>2. store' \in [Segments -> Items]
  BY <1>1, StoreKeyType, KeysAndExpiries DEF TypeOK
<1>3. clashed' \subseteq clashed \cup writing \cup {x}
  BY DEF ClearKey
<1> QED
  BY <1>1, <1>2, <1>3 DEF TypeOK

LEMMA FillKeyType ==
  ASSUME TypeOK, NEW x \in Processes, NEW s \in Segments, NEW k \in Keys, FillKey(x, s, k)
  PROVE  /\ \E w \in Keys : /\ store' = [store EXCEPT ![s].key = w]
                            /\ x \notin clashed => w = k
         /\ store' \in [Segments -> Items]
         /\ writing' = writing \ {x} /\ clashed' = clashed \ {x}
         /\ writing' \subseteq Processes /\ clashed' \subseteq writing'
<1>1. store[s].key \in Keys
  BY DEF TypeOK, Items
<1>2. PICK w : /\ w \in IF x \in clashed THEN {k, store[s].key, Mixed} ELSE {k}
               /\ store' = [store EXCEPT ![s].key = w]
  BY DEF FillKey
<1>3. w \in Keys /\ (x \notin clashed => w = k)
  BY <1>1, <1>2, KeysAndExpiries
<1>4. store' \in [Segments -> Items]
  BY <1>2, <1>3, StoreKeyType DEF TypeOK
<1>5. writing' = writing \ {x} /\ clashed' = clashed \ {x}
  BY DEF FillKey
<1> QED
  BY <1>2, <1>3, <1>4, <1>5 DEF TypeOK

-----------------------------------------------------------------------------
(* What the answers in a queue have in common.                             *)

\* All tokens of a queue have been granted to c; their expiry is at most, or at least,
\* e; it never falls; the last of them is m; there is none.
Granted(c, q, g) ==
  \A i \in 1 .. Len(q) : q[i].type = "ok" => <<c, q[i].key, q[i].expires>> \in g
UpTo(q, e) == \A i \in 1 .. Len(q) : q[i].type = "ok" => q[i].expires <= e
From(q, e) == \A i \in 1 .. Len(q) : q[i].type = "ok" => e <= q[i].expires
Rising(q) ==
  \A i, j \in 1 .. Len(q) :
    i < j /\ q[i].type = "ok" /\ q[j].type = "ok" => q[i].expires <= q[j].expires
EndsWith(q, m) ==
  /\ m.type = "ok"
  /\ \E i \in 1 .. Len(q) : q[i] = m /\ \A j \in i + 1 .. Len(q) : q[j].type # "ok"
NoToken(q) == \A i \in 1 .. Len(q) : q[i].type # "ok"

LEMMA TakenFacts ==
  ASSUME NEW q \in Seq(Answers), q # <<>>
  PROVE  /\ \A c, g : Granted(c, q, g) =>
              /\ Granted(c, Tail(q), g)
              /\ Head(q).type = "ok" => <<c, Head(q).key, Head(q).expires>> \in g
         /\ \A e : UpTo(q, e) => UpTo(Tail(q), e) /\ (Head(q).type = "ok" => Head(q).expires <= e)
         /\ \A e : From(q, e) => From(Tail(q), e) /\ (Head(q).type = "ok" => e <= Head(q).expires)
         /\ Rising(q) => Rising(Tail(q)) /\ (Head(q).type = "ok" => From(Tail(q), Head(q).expires))
         /\ \A m : EndsWith(q, m) => EndsWith(Tail(q), m) \/ (Head(q) = m /\ NoToken(Tail(q)))
         /\ NoToken(q) => NoToken(Tail(q)) /\ Head(q).type # "ok"
<1> DEFINE r == Tail(q)
           n == Len(q)
<1>1. n \in Nat /\ n > 0 /\ Len(r) = n - 1
  BY EmptySeq, LenProperties, HeadTailProperties
<1>2. \A i \in 1 .. n - 1 : r[i] = q[i + 1]
  BY <1>1, HeadTailProperties
<1>3. Head(q) = q[1]
  OBVIOUS
<1> HIDE DEF r, n
<1>4. \A i \in 1 .. n - 1 : i + 1 \in 1 .. n /\ 1 < i + 1
  BY <1>1
<1>5. 1 \in 1 .. n
  BY <1>1
<1>6. ASSUME NEW c, NEW g, Granted(c, q, g)
      PROVE  /\ Granted(c, r, g)
             /\ Head(q).type = "ok" => <<c, Head(q).key, Head(q).expires>> \in g
  BY <1>1, <1>2, <1>3, <1>4, <1>5, <1>6 DEF Granted, n
<1>7. ASSUME NEW e, UpTo(q, e)
      PROVE  UpTo(r, e) /\ (Head(q).type = "ok" => Head(q).expires <= e)
  BY <1>1, <1>2, <1>3, <1>4, <1>5, <1>7 DEF UpTo, n
<1>8. ASSUME NEW e, From(q, e)
      PROVE  From(r, e) /\ (Head(q).type = "ok" => e <= Head(q).expires)
  BY <1>1, <1>2, <1>3, <1>4, <1>5, <1>8 DEF From, n
<1>9. ASSUME Rising(q)
      PROVE  Rising(r) /\ (Head(q).type = "ok" => From(r, Head(q).expires))
  <2>1. Rising(r)
    <3>1. \A i, j \in 1 .. n - 1 : i < j => i + 1 < j + 1
      BY <1>1
    <3> QED
      BY <1>1, <1>2, <1>4, <1>9, <3>1 DEF Rising, n
  <2>2. ASSUME Head(q).type = "ok" PROVE From(r, Head(q).expires)
    BY <1>1, <1>2, <1>3, <1>4, <1>5, <1>9, <2>2 DEF Rising, From, n
  <2> QED
    BY <2>1, <2>2
<1>10. ASSUME NEW m, EndsWith(q, m)
       PROVE  EndsWith(r, m) \/ (Head(q) = m /\ NoToken(r))
  <2>1. PICK i \in 1 .. n : q[i] = m /\ \A j \in i + 1 .. n : q[j].type # "ok"
    BY <1>10 DEF EndsWith, n
  <2>2. CASE i = 1
    BY <1>1, <1>2, <1>3, <1>4, <2>1, <2>2 DEF NoToken
  <2>3. CASE i # 1
    <3>1. i - 1 \in 1 .. n - 1 /\ (i - 1) + 1 = i
      BY <1>1, <2>3
    <3>2. r[i - 1] = m
      BY <1>2, <2>1, <3>1
    <3>3. ASSUME NEW j \in (i - 1) + 1 .. n - 1 PROVE r[j].type # "ok"
      <4>1. j + 1 \in i + 1 .. n /\ j \in 1 .. n - 1
        BY <1>1, <3>1
      <4> QED
        BY <1>2, <2>1, <4>1
    <3> QED
      BY <1>1, <1>10, <3>1, <3>2, <3>3 DEF EndsWith
  <2> QED
    BY <2>2, <2>3
<1>11. ASSUME NoToken(q) PROVE NoToken(r) /\ Head(q).type # "ok"
  BY <1>1, <1>2, <1>3, <1>4, <1>5, <1>11 DEF NoToken, n
<1> QED
  BY <1>6, <1>7, <1>8, <1>9, <1>10, <1>11 DEF r

LEMMA AppendedFacts ==
  ASSUME NEW q \in Seq(Answers), NEW m \in Answers
  PROVE  /\ \A c, g : Granted(c, q, g) /\ (m.type = "ok" => <<c, m.key, m.expires>> \in g) =>
              Granted(c, Append(q, m), g)
         /\ \A e : UpTo(q, e) /\ (m.type = "ok" => m.expires <= e) => UpTo(Append(q, m), e)
         /\ \A e : From(q, e) /\ (m.type = "ok" => e <= m.expires) => From(Append(q, m), e)
         /\ Rising(q) /\ (m.type = "ok" => UpTo(q, m.expires)) => Rising(Append(q, m))
         /\ m.type = "ok" => EndsWith(Append(q, m), m)
         /\ m.type # "ok" => /\ \A k : EndsWith(q, k) => EndsWith(Append(q, m), k)
                             /\ NoToken(q) => NoToken(Append(q, m))
<1> DEFINE r == Append(q, m)
           n == Len(q)
<1>1. n \in Nat /\ Len(r) = n + 1 /\ r[n + 1] = m
  BY LenProperties, AppendProperties
<1>2. \A i \in 1 .. n : r[i] = q[i]
  BY AppendProperties
<1> HIDE DEF r, n
<1>3. \A i \in 1 .. n + 1 : i \in 1 .. n \/ (i = n + 1 /\ r[i] = m)
  BY <1>1
<1>4. ASSUME NEW c, NEW g, Granted(c, q, g), m.type = "ok" => <<c, m.key, m.expires>> \in g
      PROVE  Granted(c, r, g)
  BY <1>1, <1>2, <1>3, <1>4 DEF Granted, n
<1>5. ASSUME NEW e, UpTo(q, e), m.type = "ok" => m.expires <= e PROVE UpTo(r, e)
  BY <1>1, <1>2, <1>3, <1>5 DEF UpTo, n
<1>6. ASSUME NEW e, From(q, e), m.type = "ok" => e <= m.expires PROVE From(r, e)
  BY <1>1, <1>2, <1>3, <1>6 DEF From, n
<1>7. ASSUME Rising(q), m.type = "ok" => UpTo(q, m.expires) PROVE Rising(r)
  <2>1. \A i, j \in 1 .. n + 1 : i < j => i \in 1 .. n
    BY <1>1
  <2> QED
    BY <1>1, <1>2, <1>3, <1>7, <2>1 DEF Rising, UpTo, n
<1>8. ASSUME m.type = "ok" PROVE EndsWith(r, m)
  <2>1. n + 1 \in 1 .. n + 1 /\ (n + 1) + 1 .. n + 1 = {}
    BY <1>1
  <2> QED
    BY <1>1, <1>8, <2>1 DEF EndsWith
<1>9. ASSUME m.type # "ok", NEW k, EndsWith(q, k) PROVE EndsWith(r, k)
  <2>1. PICK i \in 1 .. n : q[i] = k /\ \A j \in i + 1 .. n : q[j].type # "ok"
    BY <1>9 DEF EndsWith, n
  <2>2. i \in 1 .. n + 1 /\ r[i] = k
    BY <1>1, <1>2, <2>1
  <2>3. ASSUME NEW j \in i + 1 .. n + 1 PROVE r[j].type # "ok"
    <3>1. j \in 1 .. n + 1 /\ (j \in 1 .. n => j \in i + 1 .. n)
      BY <1>1
    <3> QED
      BY <1>2, <1>3, <1>9, <2>1, <3>1
  <2> QED
    BY <1>1, <1>9, <2>2, <2>3 DEF EndsWith
<1>10. ASSUME m.type # "ok", NoToken(q) PROVE NoToken(r)
  BY <1>1, <1>2, <1>3, <1>10 DEF NoToken, n
<1> QED
  BY <1>4, <1>5, <1>6, <1>7, <1>8, <1>9, <1>10 DEF r

LEMMA EmptyFacts ==
  /\ \A c, g : Granted(c, <<>>, g)
  /\ \A e : UpTo(<<>>, e) /\ From(<<>>, e)
  /\ Rising(<<>>) /\ NoToken(<<>>) /\ \A m : ~EndsWith(<<>>, m)
<1>1. Len(<<>>) = 0 /\ 1 .. 0 = {}
  BY EmptySeq
<1> QED
  BY <1>1 DEF Granted, UpTo, From, Rising, NoToken, EndsWith

\* More grants, or a wider bound, keep them.
LEMMA WiderFacts ==
  ASSUME NEW q \in Seq(Answers)
  PROVE  /\ \A c, g, h : Granted(c, q, g) /\ g \subseteq h => Granted(c, q, h)
         /\ \A d, e \in Int : UpTo(q, d) /\ d <= e => UpTo(q, e)
         /\ \A e \in Int : e <= -1 => From(q, e)
<1>1. \A i \in 1 .. Len(q) : q[i].expires \in Int /\ q[i].expires >= -1
  <2>1. \A i \in 1 .. Len(q) : q[i] \in Answers
    BY ElementOfSeq
  <2>2. \A m \in Answers : m.expires \in Int /\ m.expires >= -1
    BY KeysAndExpiries DEF Answers
  <2> QED
    BY <2>1, <2>2
<1> DEFINE D == 1 .. Len(q)
<1> HIDE DEF D
<1>2. \A c, g, h : Granted(c, q, g) /\ g \subseteq h => Granted(c, q, h)
  BY DEF Granted
<1>3. \A d, e \in Int : UpTo(q, d) /\ d <= e => UpTo(q, e)
  BY <1>1 DEF UpTo
<1>4. \A e \in Int : e <= -1 => From(q, e)
  BY <1>1 DEF From
<1> QED
  BY <1>2, <1>3, <1>4

-----------------------------------------------------------------------------
(* The inductive invariants.                                               *)

Remote == Clients \ LocalClients
Storing(c) == proc[c] \in {"clear", "fill", "expire"}

\* The handler works for a client whose connection the server holds, or for nobody.
JobInv ==
  /\ job.pc \in {"clear", "fill", "copy"} => job.client \in Clients /\ peer[job.client]
  /\ job.pc \in {"idle", "down"} => job.client = Nobody

\* Conservation, with the packets of each direction together.
Balanced(c) ==
  conn[c] = "open" /\ peer[c] =>
    asked[c] = ((answered[c] + Upward(pipe[c])) + Downward(pipe[c]))
               + (IF job.client = c THEN 1 ELSE 0)

CountInv == \A c \in Clients : Balanced(c)

\* A grant on its way from the server to the item: in the queue, in the handler, and
\* with its key stored first.  No remote client's store meets another one.
GrantedTo(c) ==
  /\ Granted(c, Queue(c), grants)
  /\ msg[c].type = "ok" => <<c, msg[c].key, msg[c].expires>> \in grants
  /\ proc[c] = "fill" => msg[c].type = "ok"
  /\ proc[c] = "expire" /\ msg[c].type = "ok" => store[c].key = msg[c].key
  /\ store[c].use /\ c \notin torn /\ proc[c] \notin {"fill", "expire"} =>
       <<c, store[c].key, store[c].expires>> \in grants

GrantInv ==
  /\ clashed \subseteq LocalClients \cup {Srv}
  /\ \A c \in Remote : GrantedTo(c)

\* The expiries of one client stand in the order they were granted in: in its segment,
\* in its handler, in its queue, with the server's handler, and what the clock allows.
AtMost(c, e) ==
  /\ store[c].expires <= e
  /\ msg[c].type = "ok" => msg[c].expires <= e
  /\ UpTo(Queue(c), e)

InOrder(c) ==
  /\ AtMost(c, now + TokenExpires)
  /\ job.client = c => AtMost(c, job.expires)
  /\ Storing(c) /\ msg[c].type = "ok" =>
       store[c].expires <= msg[c].expires /\ From(Queue(c), msg[c].expires)
  /\ From(Queue(c), store[c].expires)
  /\ Rising(Queue(c))

MoveInv ==
  /\ job.pc \in {"clear", "fill", "copy"} => job.expires <= now + TokenExpires
  /\ \A c \in Remote : InOrder(c)

\* Without local clients the server is alone with its item: while its handler runs the
\* expiry in the item is the one it will answer, and when it is not at it, or has the
\* key, the expiry belongs to the key, as in every grant.
ExpiryInv ==
  /\ clashed = {}
  /\ Srv \in writing => job.pc = "fill"
  /\ job.pc \in {"clear", "fill", "copy"} => store[Srv].use /\ store[Srv].expires = job.expires
  /\ job.pc = "copy" => Srv \notin torn
  /\ job.pc \notin {"clear", "fill"} /\ Srv \notin torn /\ store[Srv].use =>
       store[Srv].expires <= store[Srv].key + TokenExpires
  /\ \A g \in grants : g[3] <= g[2] + TokenExpires

\* The last token granted is the one in the server's item, and is the last one on its
\* way to the client; or the client is storing it; or has stored it.
Arrived(c) ==
  /\ Storing(c) /\ msg[c].type = "ok" => msg[c] = Token(store[Srv].key, store[Srv].expires)
  /\ ~Storing(c) /\ c \notin torn /\ store[c].use => store[c] = store[Srv]

AgreeInv ==
  last # Nobody =>
    /\ last \in Clients /\ conn[last] = "open" /\ peer[last] /\ job.pc # "down"
    /\ job.pc = "idle" =>
         /\ store[Srv].use
         /\ \/ EndsWith(Queue(last), Token(store[Srv].key, store[Srv].expires))
            \/ NoToken(Queue(last)) /\ Arrived(last)

-----------------------------------------------------------------------------
(* Types, and for whom the handler works.                                  *)

Base == TypeOK /\ JobInv

LEMMA TypeInit == Init => Base
<1> SUFFICES ASSUME Init PROVE Base
  OBVIOUS
<1> USE Constants, KeysAndExpiries, AnswerTypes, EmptyPipeFacts
<1>1. Blank \in Items
  BY DEF Blank, Items
<1>2. store \in [Segments -> Items]
  BY <1>1 DEF Init
<1>3. pipe \in [Clients -> Pipes]
  BY DEF Init
<1>4. JobInv
  BY DEF Init, JobInv, NoJob
<1> QED
  BY <1>2, <1>3, <1>4 DEF Init, TypeOK, Base, NoJob

LEMMA HandlerType ==
  ASSUME TypeOK
  PROVE  /\ NoJob \in [pc : {"down", "idle", "clear", "fill", "copy"},
                        client : Clients \cup {Nobody}, expires : Expiries]
         /\ job.expires \in Expiries /\ job.client \in Clients \cup {Nobody}
         /\ job.pc \in {"down", "idle", "clear", "fill", "copy"}
BY KeysAndExpiries DEF TypeOK, NoJob

LEMMA TypeNext == Base /\ [Next]_vars => Base'
<1> SUFFICES ASSUME Base, [Next]_vars PROVE Base'
  OBVIOUS
<1> USE Constants
<1>0. TypeOK /\ JobInv
  BY DEF Base
<1>1. CASE Tick
  <2>1. due' \in [Clients -> SUBSET Timers]
    BY <1>0, <1>1 DEF Tick, TypeOK
  <2>2. now' \in 0 .. MaxTime
    BY <1>0, <1>1 DEF Tick, TypeOK
  <2> QED
    BY <1>0, <1>1, <2>1, <2>2 DEF Tick, TypeOK, JobInv, Base, memory, ends, counts, history
<1>2. ASSUME NEW c \in Clients, ClientStart(c) PROVE Base'
  <2>1. JobInv'
    BY <1>0, <1>2 DEF ClientStart, TypeOK, JobInv
  <2> QED
    BY <1>0, <1>2, <2>1, EmptyPipeFacts DEF ClientStart, TypeOK, Base, memory, history
<1>3. ASSUME NEW c \in Clients, NEW t \in Timers, SendOnTimer(c, t) PROVE Base'
  <2>1. pipe[c] \in Pipes /\ [pipe[c] EXCEPT !.up = Append(pipe[c].up, t)] \in Pipes
    BY <1>0, SentPipe DEF TypeOK
  <2> DEFINE p == IF peer[c] THEN [pipe[c] EXCEPT !.up = Append(pipe[c].up, t)] ELSE pipe[c]
  <2>4. pipe' = [pipe EXCEPT ![c] = p]
    BY <1>0, <1>3 DEF SendOnTimer, TypeOK, Pipes
  <2>5. p \in Pipes
    BY <2>1
  <2> HIDE DEF p
  <2>2. pipe' \in [Clients -> Pipes]
    BY <1>0, <2>4, <2>5 DEF TypeOK
  <2>3. due' \in [Clients -> SUBSET Timers] /\ asked' \in [Clients -> Nat]
    BY <1>0, <1>3 DEF SendOnTimer, TypeOK
  <2> QED
    BY <1>0, <1>3, <2>2, <2>3 DEF SendOnTimer, TypeOK, JobInv, Base, memory, ends, history
<1>4. ASSUME NEW c \in Clients, NEW t \in Timers, SendOnDeleted(c, t) PROVE Base'
  BY <1>0, <1>4 DEF SendOnDeleted, TypeOK, JobInv, Base, memory, ends, counts, history
<1>5. ASSUME NEW c \in Clients, NEW n \in 0 .. Len(pipe[c].down), ClientRead(c, n) PROVE Base'
  <2>1. /\ pipe' = [pipe EXCEPT ![c] = AfterClientRead(c, n)]
        /\ AfterClientRead(c, n) \in Pipes
        /\ msg' = [msg EXCEPT ![c] = Head(Queue(c))] /\ Head(Queue(c)) \in Answers
        /\ proc' = [proc EXCEPT ![c] = IF Head(Queue(c)).type = "pong" THEN "loop" ELSE "clear"]
    BY <1>0, <1>5, ClientReadPipe
  <2>2. /\ answered' = [answered EXCEPT ![c] = @ + 1]
        /\ UNCHANGED <<now, memory, job, ends, due, deaths, asked, history>>
    BY <1>5 DEF ClientRead
  <2> QED
    BY <1>0, <2>1, <2>2 DEF TypeOK, JobInv, Base, memory, ends, history
<1>6. ASSUME NEW c \in Clients, ClientClear(c) PROVE Base'
  <2>1. store' \in [Segments -> Items] /\ writing' \subseteq Processes /\ clashed' \subseteq writing'
    <3>1. CASE msg[c].type = "ok"
      BY <1>0, <1>6, <3>1, ClearKeyType DEF ClientClear, Processes
    <3>2. CASE msg[c].type # "ok"
      BY <1>0, <1>6, <3>2, StoreKeyType, KeysAndExpiries DEF ClientClear, TypeOK
    <3> QED
      BY <3>1, <3>2
  <2>2. proc' = [proc EXCEPT ![c] = IF msg[c].type = "ok" THEN "fill" ELSE "expire"]
    BY <1>6 DEF ClientClear
  <2>3. UNCHANGED <<now, job, ends, pipe, due, msg, deaths, counts, history, torn>>
    BY <1>6 DEF ClientClear
  <2> QED
    BY <1>0, <2>1, <2>2, <2>3 DEF TypeOK, JobInv, Base, ends, counts, history
<1>7. ASSUME NEW c \in Clients, ClientFill(c) PROVE Base'
  <2>1. msg[c].key \in Keys
    BY <1>0 DEF TypeOK, Answers
  <2>2. store' \in [Segments -> Items] /\ writing' \subseteq Processes /\ clashed' \subseteq writing'
    BY <1>0, <1>7, <2>1, FillKeyType DEF ClientFill, Processes
  <2>3. /\ proc' = [proc EXCEPT ![c] = "expire"]
        /\ UNCHANGED <<now, job, ends, pipe, due, msg, deaths, counts, history, torn>>
    BY <1>7 DEF ClientFill
  <2> QED
    BY <1>0, <2>2, <2>3 DEF TypeOK, JobInv, Base, ends, counts, history
<1>8. ASSUME NEW c \in Clients, ClientExpire(c) PROVE Base'
  <2>1. msg[c].expires \in Expiries
    BY <1>0 DEF TypeOK, Answers
  <2>5. PICK s \in Segments, b \in BOOLEAN, e \in Expiries :
          store' = [store EXCEPT ![s] = [store[s] EXCEPT !.use = b, !.expires = e]]
    <3> DEFINE ok == msg[c].type = "ok"
               e == IF ok THEN msg[c].expires ELSE -1
    <3>1. store' = [store EXCEPT ![SegmentOf(c)] = [store[SegmentOf(c)] EXCEPT !.use = ok, !.expires = e]]
      BY <1>0, <1>8 DEF ClientExpire, TypeOK
    <3>2. ok \in BOOLEAN /\ e \in Expiries
      BY <2>1, KeysAndExpiries
    <3> QED
      BY <3>1, <3>2
  <2>2. store' \in [Segments -> Items]
    BY <1>0, <2>5, StoreExpiryType DEF TypeOK
  <2>3. torn' \subseteq Segments
    BY <1>0, <1>8 DEF ClientExpire, TypeOK
  <2>4. /\ proc' = [proc EXCEPT ![c] = "loop"]
        /\ UNCHANGED <<now, writing, clashed, job, ends, pipe, due, msg, deaths, counts, history>>
    BY <1>8 DEF ClientExpire
  <2> QED
    BY <1>0, <2>2, <2>3, <2>4 DEF TypeOK, JobInv, Base, ends, counts, history
<1>9. ASSUME NEW c \in Clients, ClientEof(c) PROVE Base'
  BY <1>0, <1>9, EmptyPipeFacts DEF ClientEof, TypeOK, JobInv, Base, memory, counts, history
<1>10. ASSUME NEW c \in Clients, ClientDies(c) PROVE Base'
  <2>1. pipe[c] \in Pipes /\ [pipe[c] EXCEPT !.down = <<>>, !.atClient = <<>>] \in Pipes
    BY <1>0, CutPipe DEF TypeOK
  <2>2. pipe' = [pipe EXCEPT ![c] = [pipe[c] EXCEPT !.down = <<>>, !.atClient = <<>>]]
    BY <1>0, <1>10 DEF ClientDies, TypeOK
  <2>3. pipe' \in [Clients -> Pipes]
    BY <1>0, <2>1, <2>2 DEF TypeOK
  <2>4. deaths' \in 0 .. MaxDeaths
    BY <1>0, <1>10 DEF ClientDies, TypeOK
  <2>5. torn' \subseteq Segments /\ writing' \subseteq Processes /\ clashed' \subseteq writing'
    BY <1>0, <1>10 DEF ClientDies, TypeOK
  <2>6. last' \in Clients \cup {Nobody} /\ due' \in [Clients -> SUBSET Timers]
    BY <1>0, <1>10 DEF ClientDies, TypeOK
  <2> QED
    BY <1>0, <1>10, <2>3, <2>4, <2>5, <2>6 DEF ClientDies, TypeOK, JobInv, Base, counts
<1>11. ASSUME NEW c \in Clients, NEW n \in 0 .. Len(pipe[c].up), ServerRead(c, n) PROVE Base'
  <2> DEFINE q == AfterServerRead(c, n)
  <2>1. q \in Pipes /\ Answered(q, Pong) \in Pipes /\ Answered(q, Refusal) \in Pipes
    BY <1>0, <1>11, ServerReadPipe, AnsweredPipe, AnswerTypes
  <2>2. /\ pipe' \in {[pipe EXCEPT ![c] = q], [pipe EXCEPT ![c] = Answered(q, Pong)],
                      [pipe EXCEPT ![c] = Answered(q, Refusal)]}
        /\ UNCHANGED <<now, writing, clashed, torn, proc, ends, due, msg, deaths, counts, history>>
        /\ peer[c] /\ job.pc = "idle"
    BY <1>11 DEF ServerRead
  <2> HIDE DEF q
  <2>3. pipe' \in [Clients -> Pipes]
    BY ZenonT(60), <1>0, <2>1, <2>2 DEF TypeOK
  <2>4. now + TokenExpires \in Expiries
    BY <1>0, KeysAndExpiries DEF TypeOK
  <2>5. \/ UNCHANGED <<store, job>>
        \/ /\ store' = [store EXCEPT ![Srv] = [@ EXCEPT !.use = TRUE, !.expires = now + TokenExpires]]
           /\ job' = [pc |-> "clear", client |-> c, expires |-> now + TokenExpires]
    BY <1>11 DEF ServerRead
  <2>8. \/ store' = store
        \/ store' = [store EXCEPT ![Srv] = [store[Srv] EXCEPT !.use = TRUE, !.expires = now + TokenExpires]]
    BY <1>0, <2>5 DEF TypeOK
  <2>6. store' \in [Segments -> Items]
    <3>1. PICK e \in Expiries : e = now + TokenExpires
      BY <2>4
    <3>2. PICK b \in BOOLEAN : b = TRUE
      OBVIOUS
    <3>3. store' = store \/ store' = [store EXCEPT ![Srv] = [store[Srv] EXCEPT !.use = b, !.expires = e]]
      BY <2>8, <3>1, <3>2
    <3>4. CASE store' = store
      BY <1>0, <3>4 DEF TypeOK
    <3>5. CASE store' = [store EXCEPT ![Srv] = [store[Srv] EXCEPT !.use = b, !.expires = e]]
      BY <1>0, <3>5, StoreExpiryType DEF TypeOK
    <3> QED
      BY <3>3, <3>4, <3>5
  <2>7. /\ job' \in [pc : {"down", "idle", "clear", "fill", "copy"},
                      client : Clients \cup {Nobody}, expires : Expiries]
        /\ JobInv'
    BY <1>0, <2>2, <2>4, <2>5 DEF TypeOK, JobInv, ends
  <2> QED
    BY <1>0, <2>2, <2>3, <2>6, <2>7 DEF TypeOK, Base, ends, counts, history
<1>12. ASSUME NEW c \in Clients, ServerEof(c) PROVE Base'
  <2>1. JobInv'
    BY <1>0, <1>12 DEF ServerEof, JobInv
  <2> QED
    BY <1>0, <1>12, <2>1, EmptyPipeFacts DEF ServerEof, TypeOK, Base, memory, counts, history
<1>13. CASE ServerClear
  <2>1. store' \in [Segments -> Items] /\ writing' \subseteq Processes /\ clashed' \subseteq writing'
    BY <1>0, <1>13, ClearKeyType DEF ServerClear, Processes
  <2>2. /\ job.pc = "clear" /\ job' = [job EXCEPT !.pc = "fill"]
        /\ UNCHANGED <<now, proc, ends, pipe, due, msg, deaths, counts, history, torn>>
    BY <1>13 DEF ServerClear
  <2> QED
    BY <1>0, <2>1, <2>2 DEF TypeOK, JobInv, Base, ends, counts, history
<1>14. CASE ServerFill
  <2>1. now \in Keys
    BY <1>0, KeysAndExpiries DEF TypeOK
  <2>2. store' \in [Segments -> Items] /\ writing' \subseteq Processes /\ clashed' \subseteq writing'
    BY <1>0, <1>14, <2>1, FillKeyType DEF ServerFill, Processes
  <2>3. /\ job.pc = "fill" /\ job' = [job EXCEPT !.pc = "copy"] /\ torn' = torn \ {Srv}
        /\ UNCHANGED <<now, proc, ends, pipe, due, msg, deaths, counts, history>>
    BY <1>14 DEF ServerFill
  <2> QED
    BY <1>0, <2>2, <2>3 DEF TypeOK, JobInv, Base, ends, counts, history
<1>15. CASE ServerCopy
  <2> DEFINE k == store[Srv].key
             c == job.client
  <2>1. k \in Keys /\ c \in Clients /\ job.expires \in Expiries
    BY <1>0, <1>15, HandlerType DEF ServerCopy, JobInv, TypeOK, Items
  <2>2. pipe[c] \in Pipes /\ Token(k, job.expires) \in Answers
    BY <1>0, <2>1, AnswerTypes DEF TypeOK
  <2>3. Answered(pipe[c], Token(k, job.expires)) \in Pipes
    BY <2>2, AnsweredPipe
  <2>4. pipe' = [pipe EXCEPT ![c] = Answered(pipe[c], Token(k, job.expires))]
    BY <1>0, <1>15, <2>1 DEF ServerCopy, TypeOK
  <2>5. pipe' \in [Clients -> Pipes]
    BY <1>0, <2>3, <2>4 DEF TypeOK
  <2>6. grants' \subseteq Clients \X Keys \X Expiries
    BY <1>0, <1>15, <2>1 DEF ServerCopy, TypeOK
  <2>7. /\ last' \in Clients \cup {Nobody} /\ job' = NoJob
        /\ UNCHANGED <<now, memory, proc, ends, due, msg, deaths, counts>>
    BY <1>15, <2>1 DEF ServerCopy
  <2>8. JobInv'
    BY <2>7 DEF JobInv, NoJob
  <2> QED
    BY <1>0, <2>5, <2>6, <2>7, <2>8, HandlerType DEF TypeOK, Base, memory, ends, counts
<1>16. CASE ServerDies
  <2>5. deaths' \in 0 .. MaxDeaths
    <3>1. deaths < MaxDeaths /\ deaths' = deaths + 1 /\ deaths \in 0 .. MaxDeaths
      BY <1>0, <1>16 DEF ServerDies, TypeOK
    <3> QED
      BY <3>1
  <2>6. writing' \subseteq Processes /\ clashed' \subseteq writing'
    BY <1>0, <1>16 DEF ServerDies, TypeOK
  <2>7. torn' \subseteq Segments
    BY <1>0, <1>16 DEF ServerDies, TypeOK
  <2>1. /\ deaths' \in 0 .. MaxDeaths /\ writing' \subseteq Processes /\ clashed' \subseteq writing'
        /\ torn' \subseteq Segments
    BY <2>5, <2>6, <2>7
  <2>2. \A c \in Clients : pipe[c] \in Pipes /\ [pipe[c] EXCEPT !.up = <<>>, !.atServer = <<>>] \in Pipes
    BY <1>0, CutPipe DEF TypeOK
  <2>3. pipe' \in [Clients -> Pipes]
    BY <1>16, <2>2 DEF ServerDies
  <2>4. /\ job' \in [pc : {"down", "idle", "clear", "fill", "copy"},
                      client : Clients \cup {Nobody}, expires : Expiries]
        /\ JobInv'
    BY <1>0, <1>16, KeysAndExpiries DEF ServerDies, JobInv, NoJob
  <2> QED
    BY <1>0, <1>16, <2>1, <2>3, <2>4 DEF ServerDies, TypeOK, Base, counts
<1>17. CASE ServerStart
  <2>1. JobInv'
    BY <1>17 DEF ServerStart, JobInv, NoJob
  <2> QED
    BY <1>0, <1>17, <2>1, HandlerType DEF ServerStart, TypeOK, Base, memory, ends, counts, history
<1>18. CASE UNCHANGED vars
  BY <1>0, <1>18 DEF vars, memory, ends, counts, history, TypeOK, JobInv, Base
<1> QED
  BY <1>1, <1>2, <1>3, <1>4, <1>5, <1>6, <1>7, <1>8, <1>9, <1>10, <1>11, <1>12, <1>13, <1>14,
     <1>15, <1>16, <1>17, <1>18
     DEF Next, ClientStep, ClientReads, ServerReads, HandlerStep

\* Items, packets, connections and handlers keep their types in every behaviour.
THEOREM TypeCorrect == Spec => []TypeOK
<1>1. Base => TypeOK
  BY DEF Base
<1> QED
  BY <1>1, TypeInit, TypeNext, PTL DEF Spec

-----------------------------------------------------------------------------
(* What a step leaves alone.                                               *)

\* The steps of client d, and of the server on its connection.
ActsFor(d) ==
  \/ ClientStart(d) \/ ClientStep(d) \/ ClientReads(d) \/ ClientDies(d)
  \/ ServerReads(d) \/ ServerEof(d)

Undisturbed(c) ==
  /\ proc'[c] = proc[c] /\ msg'[c] = msg[c]
  /\ conn'[c] = conn[c] /\ peer'[c] = peer[c] /\ pipe'[c] = pipe[c]
  /\ asked'[c] = asked[c] /\ answered'[c] = answered[c]
  /\ c \in Remote => store'[c] = store[c] /\ (c \in torn' <=> c \in torn)

LEMMA OthersUndisturbed ==
  ASSUME TypeOK, NEW d \in Clients, ActsFor(d), NEW c \in Clients, c # d
  PROVE  Undisturbed(c)
<1> USE Constants
<1>1. c \in Remote => c \in Segments /\ c # Srv /\ c # SegmentOf(d)
  BY DEF Remote, SegmentOf, Segments
<1>2. CASE ClientStart(d)
  BY <1>2 DEF ClientStart, Undisturbed, TypeOK, memory
<1>3. ASSUME NEW t \in Timers, SendOnTimer(d, t) PROVE Undisturbed(c)
  BY <1>3 DEF SendOnTimer, Undisturbed, TypeOK, memory, ends
<1>4. ASSUME NEW t \in Timers, SendOnDeleted(d, t) PROVE Undisturbed(c)
  BY <1>4 DEF SendOnDeleted, Undisturbed, TypeOK, memory, ends, counts
<1>5. ASSUME NEW n \in 0 .. Len(pipe[d].down), ClientRead(d, n) PROVE Undisturbed(c)
  <2>1. /\ pipe' = [pipe EXCEPT ![d] = AfterClientRead(d, n)]
        /\ msg' = [msg EXCEPT ![d] = Head(Queue(d))]
        /\ proc' = [proc EXCEPT ![d] = IF Head(Queue(d)).type = "pong" THEN "loop" ELSE "clear"]
    BY <1>5, ClientReadPipe
  <2>2. /\ answered' = [answered EXCEPT ![d] = @ + 1]
        /\ UNCHANGED <<memory, ends, asked>>
    BY <1>5 DEF ClientRead
  <2> QED
    BY <2>1, <2>2 DEF Undisturbed, TypeOK, memory, ends
<1>6. CASE ClientClear(d)
  <2>1. store' = [store EXCEPT ![SegmentOf(d)].key = NoKey]
    BY <1>6 DEF ClientClear, ClearKey
  <2>2. c \in Remote => store'[c] = store[c]
    BY <1>1, <2>1 DEF TypeOK
  <2>3. /\ proc'[c] = proc[c]
        /\ UNCHANGED <<ends, pipe, msg, counts, torn>>
    BY <1>6 DEF ClientClear, TypeOK
  <2> QED
    BY <2>2, <2>3 DEF Undisturbed, ends, counts
<1>7. CASE ClientFill(d)
  <2>1. \E w : store' = [store EXCEPT ![SegmentOf(d)].key = w]
    BY <1>7 DEF ClientFill, FillKey
  <2>2. c \in Remote => store'[c] = store[c]
    BY <1>1, <2>1 DEF TypeOK
  <2>3. /\ proc'[c] = proc[c]
        /\ UNCHANGED <<ends, pipe, msg, counts, torn>>
    BY <1>7 DEF ClientFill, TypeOK
  <2> QED
    BY <2>2, <2>3 DEF Undisturbed, ends, counts
<1>8. CASE ClientExpire(d)
  <2>1. \E i : store' = [store EXCEPT ![SegmentOf(d)] = i]
    BY <1>8 DEF ClientExpire
  <2>2. c \in Remote => store'[c] = store[c]
    BY <1>1, <2>1 DEF TypeOK
  <2>3. /\ proc'[c] = proc[c] /\ torn' = torn \ {SegmentOf(d)}
        /\ UNCHANGED <<ends, pipe, msg, counts>>
    BY <1>8 DEF ClientExpire, TypeOK
  <2> QED
    BY <1>1, <2>2, <2>3 DEF Undisturbed, ends, counts
<1>9. CASE ClientEof(d)
  BY <1>9 DEF ClientEof, Undisturbed, TypeOK, memory, counts
<1>10. CASE ClientDies(d)
  BY <1>1, <1>10 DEF ClientDies, Undisturbed, TypeOK, counts
<1>11. ASSUME NEW n \in 0 .. Len(pipe[d].up), ServerRead(d, n) PROVE Undisturbed(c)
  <2>1. \E q : pipe' = [pipe EXCEPT ![d] = q]
    BY <1>11 DEF ServerRead
  <2>2. store' = store \/ \E i : store' = [store EXCEPT ![Srv] = i]
    BY <1>11 DEF ServerRead
  <2>3. c \in Remote => store'[c] = store[c]
    BY <1>1, <2>2 DEF TypeOK
  <2>4. pipe'[c] = pipe[c]
    BY <2>1 DEF TypeOK
  <2>5. UNCHANGED <<torn, proc, ends, msg, counts>>
    BY <1>11 DEF ServerRead
  <2> QED
    BY <2>3, <2>4, <2>5 DEF Undisturbed, ends, counts
<1>12. CASE ServerEof(d)
  BY <1>12 DEF ServerEof, Undisturbed, TypeOK, memory, counts
<1> QED
  BY <1>2, <1>3, <1>4, <1>5, <1>6, <1>7, <1>8, <1>9, <1>10, <1>11, <1>12
     DEF ActsFor, ClientStep, ClientReads, ServerReads

\* The server's own steps with its item, its start and the clock.
LEMMA NobodyDisturbed ==
  ASSUME TypeOK, Tick \/ ServerClear \/ ServerFill \/ ServerStart \/ UNCHANGED vars,
         NEW c \in Clients
  PROVE  Undisturbed(c)
<1> USE Constants
<1>1. c \in Remote => c \in Segments /\ c # Srv
  BY DEF Remote
<1>2. UNCHANGED <<proc, ends, pipe, msg, counts>>
  BY DEF Tick, ServerClear, ServerFill, ServerStart, vars
<1>3. store' = store \/ \E k : store' = [store EXCEPT ![Srv].key = k]
  BY DEF Tick, ServerClear, ServerFill, ServerStart, vars, memory, ClearKey, FillKey
<1>4. c \in Remote => store'[c] = store[c]
  BY <1>1, <1>3 DEF TypeOK
<1>5. torn' = torn \/ torn' = torn \ {Srv}
  BY DEF Tick, ServerClear, ServerFill, ServerStart, vars, memory
<1> QED
  BY <1>1, <1>2, <1>4, <1>5 DEF Undisturbed, ends, counts

\* The answer of the handler concerns the client it works for.
LEMMA CopyDisturbsOne ==
  ASSUME TypeOK, JobInv, ServerCopy
  PROVE  LET c == job.client
             m == Token(store[Srv].key, job.expires)
         IN  /\ c \in Clients /\ m \in Answers /\ m.type = "ok"
             /\ m.key = store[Srv].key /\ m.expires = job.expires
             /\ Answered(pipe[c], m) \in Pipes /\ pipe'[c] = Answered(pipe[c], m)
             /\ grants' = grants \cup {<<c, m.key, m.expires>>}
             /\ job' = NoJob /\ UNCHANGED <<now, memory, proc, ends, due, msg, deaths, counts>>
             /\ \A d \in Clients : d # c => Undisturbed(d)
<1> DEFINE c == job.client
           m == Token(store[Srv].key, job.expires)
<1>1. c \in Clients
  BY DEF ServerCopy, JobInv
<1>2. store[Srv].key \in Keys /\ job.expires \in Expiries
  BY Constants, HandlerType DEF TypeOK, Items
<1>3. m \in Answers /\ m.type = "ok" /\ m.key = store[Srv].key /\ m.expires = job.expires
  BY <1>2, AnswerTypes DEF Token
<1>4. Answered(pipe[c], m) \in Pipes
  BY <1>1, <1>3, AnsweredPipe DEF TypeOK
<1>5. pipe' = [pipe EXCEPT ![c] = Answered(pipe[c], m)]
  BY <1>1 DEF ServerCopy, TypeOK
<1>6. UNCHANGED <<now, memory, proc, ends, due, msg, deaths, counts>> /\ job' = NoJob
  BY DEF ServerCopy
<1>7. grants' = grants \cup {<<c, m.key, m.expires>>}
  BY <1>3 DEF ServerCopy
<1> HIDE DEF m
<1>8. pipe'[c] = Answered(pipe[c], m)
  BY <1>1, <1>5 DEF TypeOK
<1>9. \A d \in Clients : d # c => Undisturbed(d)
  BY <1>1, <1>5, <1>6 DEF Undisturbed, TypeOK, memory, ends, counts
<1> QED
  BY <1>1, <1>3, <1>4, <1>6, <1>7, <1>8, <1>9 DEF m

\* A death of the server leaves the clients what is on its way to them.
LEMMA DeathOfServer ==
  ASSUME TypeOK, ServerDies, NEW c \in Clients
  PROVE  /\ Queue(c)' = Queue(c) /\ ~peer'[c]
         /\ c \in Remote => store'[c] = store[c] /\ (c \in torn' <=> c \in torn)
         /\ proc' = proc /\ msg' = msg /\ conn' = conn /\ now' = now /\ grants' = grants
<1>1. pipe'[c] = [pipe[c] EXCEPT !.up = <<>>, !.atServer = <<>>] /\ pipe[c] \in Pipes
  BY DEF ServerDies, TypeOK
<1>2. Queue(c)' = Queue(c)
  BY <1>1, CutPipe DEF Queue
<1>3. c \in Remote => (c \in torn' <=> c \in torn)
  BY Constants DEF ServerDies, Remote
<1> QED
  BY <1>2, <1>3 DEF ServerDies

\* Every step is one of these.
LEMMA Steps ==
  ASSUME [Next]_vars
  PROVE  \/ Tick \/ ServerClear \/ ServerFill \/ ServerStart \/ UNCHANGED vars
         \/ \E d \in Clients : ActsFor(d)
         \/ ServerCopy \/ ServerDies
BY DEF Next, HandlerStep, ActsFor

LEMMA JobOfOthers ==
  ASSUME JobInv, NEW d \in Clients, ActsFor(d)
  PROVE  /\ now' = now /\ grants' = grants
         /\ job' = job \/ (job.pc = "idle" /\ job.client = Nobody /\ job'.pc = "clear" /\ job'.client = d)
<1>1. now' = now /\ grants' = grants
  BY DEF ActsFor, ClientStep, ClientReads, ServerReads, ClientStart, SendOnTimer, SendOnDeleted,
         ClientRead, ClientClear, ClientFill, ClientExpire, ClientEof, ClientDies, ServerRead,
         ServerEof, history
<1>2. job' = job \/ ServerReads(d)
  BY DEF ActsFor, ClientStep, ClientReads, ClientStart, SendOnTimer, SendOnDeleted,
         ClientRead, ClientClear, ClientFill, ClientExpire, ClientEof, ClientDies, ServerEof
<1>3. ASSUME NEW n, ServerRead(d, n)
      PROVE  job' = job \/ (job.pc = "idle" /\ job.client = Nobody /\ job'.pc = "clear" /\ job'.client = d)
  BY <1>3 DEF ServerRead, JobInv
<1> QED
  BY <1>1, <1>2, <1>3 DEF ServerReads

-----------------------------------------------------------------------------
(* No packet is lost or answered twice.                                    *)

LEMMA CountInit == Init => CountInv
BY EmptyPipeFacts, Constants DEF Init, CountInv, Balanced

LEMMA BalancedTypes ==
  ASSUME TypeOK, NEW c \in Clients
  PROVE  /\ pipe[c] \in Pipes /\ asked[c] \in Nat /\ answered[c] \in Nat
         /\ Upward(pipe[c]) \in Nat /\ Downward(pipe[c]) \in Nat
BY PipeType DEF TypeOK

\* The steps for a client, on its own connection.
LEMMA CountStep ==
  ASSUME Base, NEW c \in Clients, Balanced(c), ActsFor(c)
  PROVE  Balanced(c)'
<1> USE Constants
<1>0. TypeOK /\ JobInv
  BY DEF Base
<1> DEFINE p == pipe[c]
           up == Upward(pipe[c])
           down == Downward(pipe[c])
           busy == IF job.client = c THEN 1 ELSE 0
<1>1. p \in Pipes /\ asked[c] \in Nat /\ answered[c] \in Nat /\ up \in Nat /\ down \in Nat
  BY <1>0, BalancedTypes
<1> HIDE DEF p, up, down
<1>2. conn[c] = "open" /\ peer[c] => asked[c] = ((answered[c] + up) + down) + busy
  BY DEF Balanced, up, down
<1>3. CASE ClientStart(c)
  <2>1. /\ pipe'[c] = EmptyPipe /\ asked'[c] = 0 /\ answered'[c] = 0
        /\ peer'[c] = (job.pc # "down") /\ job' = job
    BY <1>0, <1>3 DEF ClientStart, TypeOK
  <2>2. ~peer[c]
    BY <1>3 DEF ClientStart
  <2>3. job.client # c
    BY <1>0, <2>2, HandlerType DEF JobInv
  <2> QED
    BY <2>1, <2>3, EmptyPipeFacts DEF Balanced
<1>4. ASSUME NEW t \in Timers, SendOnTimer(c, t) PROVE Balanced(c)'
  <2>1. UNCHANGED <<job, ends, answered>>
    BY <1>4 DEF SendOnTimer
  <2>2. CASE peer[c]
    <3> DEFINE q == [p EXCEPT !.up = Append(p.up, t)]
    <3>1. q \in Pipes /\ Upward(q) = Upward(p) + 1 /\ Downward(q) = Downward(p)
      BY <1>1, SentPipe
    <3>2. pipe' = [pipe EXCEPT ![c] = q]
      BY <1>4, <2>2 DEF SendOnTimer, p
    <3> HIDE DEF q
    <3>3. pipe'[c] = q /\ asked'[c] = asked[c] + 1
      BY <1>0, <1>4, <2>2, <3>2 DEF SendOnTimer, TypeOK
    <3>4. Upward(pipe'[c]) = up + 1 /\ Downward(pipe'[c]) = down
      BY <3>1, <3>3 DEF up, down, p
    <3> QED
      BY <1>1, <1>2, <2>1, <3>3, <3>4 DEF Balanced, ends
  <2>3. CASE ~peer[c]
    BY <2>1, <2>3 DEF Balanced, ends
  <2> QED
    BY <2>2, <2>3
<1>5. ASSUME NEW n \in 0 .. Len(pipe[c].down), ClientRead(c, n) PROVE Balanced(c)'
  <2> DEFINE q == AfterClientRead(c, n)
  <2>1. pipe' = [pipe EXCEPT ![c] = q] /\ Upward(q) = up /\ down = Downward(q) + 1 /\ q \in Pipes
    BY <1>0, <1>5, ClientReadPipe DEF up, down
  <2> HIDE DEF q
  <2>2. Downward(q) \in Nat
    BY <2>1, PipeType
  <2>3. pipe'[c] = q /\ answered'[c] = answered[c] + 1 /\ UNCHANGED <<job, ends, asked>>
    BY <1>0, <1>5, <2>1 DEF ClientRead, TypeOK
  <2>4. Upward(pipe'[c]) = up /\ Downward(pipe'[c]) + 1 = down /\ Downward(pipe'[c]) \in Nat
    BY <2>1, <2>2, <2>3
  <2> QED
    BY SMTT(60), <1>1, <1>2, <2>3, <2>4 DEF Balanced, ends
<1>6. ASSUME NEW n \in 0 .. Len(pipe[c].up), ServerRead(c, n) PROVE Balanced(c)'
  <2> DEFINE q == AfterServerRead(c, n)
  <2>1. q \in Pipes /\ up = Upward(q) + 1 /\ Downward(q) = down
    BY <1>0, <1>6, ServerReadPipe DEF up, down
  <2>2. \A m \in {Pong, Refusal} : Upward(Answered(q, m)) = Upward(q) /\ Downward(Answered(q, m)) = down + 1
    BY <2>1, AnsweredPipe, AnswerTypes
  <2>3. \/ job' = job /\ \E m \in {Pong, Refusal} : pipe' = [pipe EXCEPT ![c] = Answered(q, m)]
        \/ job'.client = c /\ pipe' = [pipe EXCEPT ![c] = q]
    BY <1>6 DEF ServerRead
  <2>4. job.client # c /\ UNCHANGED <<ends, counts>>
    BY <1>0, <1>6 DEF ServerRead, JobInv
  <2> HIDE DEF q
  <2>5. Upward(q) \in Nat
    BY <2>1, PipeType
  <2>6. CASE job' = job /\ \E m \in {Pong, Refusal} : pipe' = [pipe EXCEPT ![c] = Answered(q, m)]
    <3>1. Upward(pipe'[c]) = Upward(q) /\ Downward(pipe'[c]) = down + 1
      BY <1>0, <2>2, <2>6 DEF TypeOK
    <3> QED
      BY SMTT(60), <1>1, <1>2, <2>1, <2>4, <2>5, <2>6, <3>1 DEF Balanced, ends, counts
  <2>7. CASE job'.client = c /\ pipe' = [pipe EXCEPT ![c] = q]
    <3>1. Upward(pipe'[c]) = Upward(q) /\ Downward(pipe'[c]) = down
      BY <1>0, <2>1, <2>7 DEF TypeOK
    <3> QED
      BY SMTT(60), <1>1, <1>2, <2>1, <2>4, <2>5, <2>7, <3>1 DEF Balanced, ends, counts
  <2> QED
    BY <2>3, <2>6, <2>7
<1>7. CASE ClientEof(c) \/ ClientDies(c) \/ ServerEof(c)
  <2>1. ~(conn'[c] = "open" /\ peer'[c])
    BY <1>0, <1>7 DEF ClientEof, ClientDies, ServerEof, TypeOK
  <2> QED
    BY <2>1 DEF Balanced
<1>8. ASSUME NEW t \in Timers, SendOnDeleted(c, t) PROVE Balanced(c)'
  BY <1>8 DEF SendOnDeleted, Balanced, ends, counts
<1>9. CASE ClientClear(c) \/ ClientFill(c) \/ ClientExpire(c)
  <2>1. UNCHANGED <<job, ends, pipe, counts>>
    BY <1>9 DEF ClientClear, ClientFill, ClientExpire
  <2> QED
    BY <2>1 DEF Balanced, ends, counts
<1> QED
  BY <1>3, <1>4, <1>5, <1>6, <1>7, <1>8, <1>9 DEF ActsFor, ClientStep, ClientReads, ServerReads

LEMMA CountNext == Base /\ CountInv /\ [Next]_vars => CountInv'
<1> SUFFICES ASSUME Base, CountInv, [Next]_vars, NEW c \in Clients PROVE Balanced(c)'
  BY DEF CountInv
<1>0. TypeOK /\ JobInv /\ Balanced(c)
  BY DEF Base, CountInv
<1>1. CASE Tick \/ ServerClear \/ ServerFill \/ ServerStart \/ UNCHANGED vars
  <2>1. Undisturbed(c)
    BY <1>0, <1>1, NobodyDisturbed
  <2>2. job'.client = job.client
    BY <1>0, <1>1, HandlerType DEF Tick, ServerClear, ServerFill, ServerStart, vars, JobInv, NoJob, TypeOK
  <2> QED
    BY <1>0, <2>1, <2>2 DEF Balanced, Undisturbed
<1>2. ASSUME NEW d \in Clients, ActsFor(d) PROVE Balanced(c)'
  <2>1. CASE c = d
    BY <1>0, <1>2, <2>1, CountStep DEF Base
  <2>2. CASE c # d
    <3>1. Undisturbed(c)
      BY <1>0, <1>2, <2>2, OthersUndisturbed
    <3>2. job'.client = c <=> job.client = c
      BY <1>0, <1>2, <2>2, JobOfOthers, Constants
    <3> QED
      BY <1>0, <3>1, <3>2 DEF Balanced, Undisturbed
  <2> QED
    BY <2>1, <2>2
<1>3. CASE ServerCopy
  <2> DEFINE m == Token(store[Srv].key, job.expires)
  <2>1. CASE c = job.client
    <3>1. /\ m \in Answers /\ pipe'[c] = Answered(pipe[c], m)
          /\ job'.client # c /\ UNCHANGED <<ends, counts>>
      BY <1>0, <1>3, <2>1, CopyDisturbsOne, Constants DEF NoJob
    <3>2. /\ pipe[c] \in Pipes /\ asked[c] \in Nat /\ answered[c] \in Nat
          /\ Upward(pipe[c]) \in Nat /\ Downward(pipe[c]) \in Nat
      BY <1>0, BalancedTypes
    <3>3. Upward(pipe'[c]) = Upward(pipe[c]) /\ Downward(pipe'[c]) = Downward(pipe[c]) + 1
      BY <3>1, <3>2, AnsweredPipe
    <3> QED
      BY <1>0, <2>1, <3>1, <3>2, <3>3 DEF Balanced, ends, counts
  <2>2. CASE c # job.client
    <3>1. Undisturbed(c) /\ job'.client # c
      BY <1>0, <1>3, <2>2, CopyDisturbsOne, Constants DEF NoJob
    <3> QED
      BY <1>0, <2>2, <3>1 DEF Balanced, Undisturbed
  <2> QED
    BY <2>1, <2>2
<1>4. CASE ServerDies
  BY <1>0, <1>4, DeathOfServer DEF Balanced
<1> QED
  BY <1>1, <1>2, <1>3, <1>4, Steps

\* While both ends of a connection hold it, every packet sent on it is on its way, in an
\* input buffer, with the handler, or answered: no read event drops or repeats one, with
\* any backlog, and however often either process has died before.
THEOREM NothingIsLost == Spec => []Conservation
<1>1. Base /\ CountInv => Conservation
  <2> SUFFICES ASSUME Base, CountInv, NEW c \in Clients, conn[c] = "open" /\ peer[c]
               PROVE  asked[c] = answered[c]
                        + Len(pipe[c].up) + Len(pipe[c].atServer)
                        + Len(pipe[c].down) + Len(pipe[c].atClient)
                        + (IF job.client = c THEN 1 ELSE 0)
    BY DEF Conservation
  <2> DEFINE a == Len(pipe[c].up)
             b == Len(pipe[c].atServer)
             d == Len(pipe[c].down)
             e == Len(pipe[c].atClient)
             busy == IF job.client = c THEN 1 ELSE 0
  <2>1. pipe[c] \in Pipes /\ answered[c] \in Nat
    BY BalancedTypes DEF Base
  <2>2. a \in Nat /\ b \in Nat /\ d \in Nat /\ e \in Nat
    BY <2>1, PipeType, LenProperties
  <2>3. Upward(pipe[c]) = b + a /\ Downward(pipe[c]) = e + d
    BY DEF Upward, Downward
  <2> HIDE DEF a, b, d, e
  <2>4. asked[c] = ((answered[c] + (b + a)) + (e + d)) + busy
    BY <2>3 DEF CountInv, Balanced
  <2>5. asked[c] = answered[c] + a + b + d + e + busy
    BY <2>1, <2>2, <2>4
  <2> QED
    BY <2>5 DEF a, b, d, e
<1>2. Init => Base /\ CountInv
  BY TypeInit, CountInit
<1>3. (Base /\ CountInv) /\ [Next]_vars => (Base /\ CountInv)'
  BY TypeNext, CountNext
<1> QED
  BY <1>1, <1>2, <1>3, PTL DEF Spec

-----------------------------------------------------------------------------
(* A remote client stores what has been granted to it.                     *)

\* Its segment is its own, so nobody else stores into it.
LEMMA SettledRemote ==
  ASSUME TypeOK, NEW c \in Remote
  PROVE  Settled(c) <=> c \notin torn /\ ~Storing(c)
BY Constants DEF Settled, Remote, Storing, SegmentOf

\* Only those who store into the server's segment meet in it.
LEMMA ClashesAreLocal ==
  ASSUME TypeOK, clashed \subseteq LocalClients \cup {Srv},
         NEW x \in Processes, NEW s,
         s = IF x = Srv THEN Srv ELSE SegmentOf(x),
         ClearKey(x, s)
  PROVE  clashed' \subseteq LocalClients \cup {Srv}
<1> DEFINE others == {y \in writing : y = Srv \/ SegmentOf(y) = s}
<1>1. CASE s = Srv
  <2>1. x \in LocalClients \cup {Srv}
    BY <1>1, Constants DEF SegmentOf, Processes
  <2>2. others \subseteq LocalClients \cup {Srv}
    BY <1>1, Constants DEF SegmentOf, Processes, TypeOK
  <2> QED
    BY <1>1, <2>1, <2>2 DEF ClearKey
<1>2. CASE s # Srv
  BY <1>2 DEF ClearKey
<1> QED
  BY <1>1, <1>2

LEMMA ClashNext ==
  ASSUME Base, clashed \subseteq LocalClients \cup {Srv}, [Next]_vars
  PROVE  clashed' \subseteq LocalClients \cup {Srv}
<1>0. TypeOK
  BY DEF Base
<1>1. ASSUME NEW c \in Clients, ClientClear(c) PROVE clashed' \subseteq LocalClients \cup {Srv}
  <2>1. clashed' = clashed \/ ClearKey(c, SegmentOf(c))
    BY <1>1 DEF ClientClear
  <2> QED
    BY <1>0, <2>1, ClashesAreLocal, Constants DEF Processes
<1>2. CASE ServerClear
  BY <1>0, <1>2, ClashesAreLocal DEF ServerClear, Processes
<1>3. ASSUME NEW c \in Clients, ActsFor(c), ~ClientClear(c)
      PROVE  clashed' \subseteq clashed
  BY <1>3 DEF ActsFor, ClientStep, ClientReads, ServerReads, ClientStart, SendOnTimer, SendOnDeleted,
         ClientRead, ClientFill, FillKey, ClientExpire, ClientEof, ClientDies, ServerRead,
         ServerEof, memory
<1>4. CASE Tick \/ ServerFill \/ ServerStart \/ UNCHANGED vars \/ ServerCopy \/ ServerDies
  BY <1>4 DEF Tick, ServerFill, FillKey, ServerStart, vars, ServerCopy, ServerDies, memory
<1> QED
  BY <1>1, <1>2, <1>3, <1>4, Steps

-----------------------------------------------------------------------------
(* What a step does for a remote client: to its answers, its handler and   *)
(* its item.                                                               *)

Emptied(c) ==
  /\ ClientStart(c) \/ ClientEof(c) \/ ServerEof(c) \/ ClientDies(c)
  /\ Queue(c)' = <<>> /\ msg'[c] = msg[c] /\ store'[c] = store[c]
  /\ \/ proc'[c] = proc[c] /\ (c \in torn' <=> c \in torn)
     \/ /\ proc'[c] \in {"down", "loop"}
        /\ c \in torn' <=> c \in torn \/ proc[c] \in {"fill", "expire"}

Kept(c) ==
  /\ \/ Queue(c)' = Queue(c)
     \/ \E m \in Answers : m.type # "ok" /\ Queue(c)' = Append(Queue(c), m)
  /\ msg'[c] = msg[c] /\ store'[c] = store[c] /\ (c \in torn' <=> c \in torn)
  /\ proc'[c] = proc[c] \/ (proc[c] = "loop" /\ proc'[c] = "crashed")

Took(c) ==
  /\ Queue(c) # <<>> /\ Queue(c)' = Tail(Queue(c)) /\ msg'[c] = Head(Queue(c))
  /\ store'[c] = store[c] /\ (c \in torn' <=> c \in torn)
  /\ proc[c] = "loop" /\ proc'[c] = IF Head(Queue(c)).type = "pong" THEN "loop" ELSE "clear"

Cleared(c) ==
  /\ proc[c] = "clear" /\ proc'[c] = IF msg[c].type = "ok" THEN "fill" ELSE "expire"
  /\ Queue(c)' = Queue(c) /\ msg'[c] = msg[c]
  /\ store'[c].expires = store[c].expires

Filled(c) ==
  /\ proc[c] = "fill" /\ proc'[c] = "expire"
  /\ Queue(c)' = Queue(c) /\ msg'[c] = msg[c]
  /\ store'[c].key = msg[c].key /\ store'[c].expires = store[c].expires

Expired(c) ==
  /\ proc[c] = "expire" /\ proc'[c] = "loop"
  /\ Queue(c)' = Queue(c) /\ msg'[c] = msg[c]
  /\ store'[c].key = store[c].key /\ c \notin torn'
  /\ store'[c].use <=> msg[c].type = "ok"
  /\ store'[c].expires = IF msg[c].type = "ok" THEN msg[c].expires ELSE -1

LEMMA ForRemote ==
  ASSUME TypeOK, NEW c \in Remote, c \notin clashed, ActsFor(c)
  PROVE  Emptied(c) \/ Kept(c) \/ Took(c) \/ Cleared(c) \/ Filled(c) \/ Expired(c)
<1> USE Constants
<1>0. c \in Clients /\ c \in Segments /\ SegmentOf(c) = c /\ c # Srv
  BY DEF Remote
<1>a. pipe[c] \in Pipes /\ store[c] \in Items
  BY <1>0 DEF TypeOK
<1>1. CASE ClientStart(c)
  <2>1. Queue(c)' = <<>>
    BY <1>0, <1>1, EmptyPipeFacts DEF ClientStart, Queue, TypeOK
  <2>2. /\ proc'[c] = "loop" /\ proc[c] \in {"down", "crashed"}
        /\ UNCHANGED <<memory, msg>>
    BY <1>0, <1>1 DEF ClientStart, TypeOK
  <2> QED
    BY <1>1, <2>1, <2>2 DEF Emptied, memory
<1>2. ASSUME NEW t \in Timers, SendOnTimer(c, t) PROVE Kept(c)
  <2>1. CASE peer[c]
    <3>1. pipe' = [pipe EXCEPT ![c].up = Append(@, t)]
      BY <1>2, <2>1 DEF SendOnTimer
    <3>2. pipe'[c] = [pipe[c] EXCEPT !.up = Append(pipe[c].up, t)]
      BY <1>0, <3>1 DEF TypeOK
    <3>3. Queue(c)' = Queue(c)
      BY <1>a, <3>2, SentPipe DEF Queue
    <3> QED
      BY <1>2, <3>3 DEF SendOnTimer, Kept, memory
  <2>2. CASE ~peer[c]
    <3>1. pipe' = [pipe EXCEPT ![c].up = @]
      BY <1>2, <2>2 DEF SendOnTimer
    <3>2. pipe'[c] = pipe[c]
      BY <1>0, <3>1 DEF TypeOK, Pipes
    <3> QED
      BY <1>2, <3>2 DEF SendOnTimer, Kept, Queue, memory
  <2> QED
    BY <2>1, <2>2
<1>3. ASSUME NEW t \in Timers, SendOnDeleted(c, t) PROVE Kept(c)
  <2>1. /\ proc[c] = "loop" /\ proc'[c] \in {"loop", "crashed"}
        /\ UNCHANGED <<memory, pipe, msg>>
    BY <1>0, <1>3 DEF SendOnDeleted, TypeOK
  <2> QED
    BY <2>1 DEF Kept, Queue, memory
<1>4. ASSUME NEW n \in 0 .. Len(pipe[c].down), ClientRead(c, n) PROVE Took(c)
  <2> DEFINE m == Head(Queue(c))
  <2>1. /\ pipe' = [pipe EXCEPT ![c] = AfterClientRead(c, n)]
        /\ Queue(c) # <<>> /\ Queued(AfterClientRead(c, n)) = Tail(Queue(c))
        /\ msg' = [msg EXCEPT ![c] = m]
        /\ proc' = [proc EXCEPT ![c] = IF m.type = "pong" THEN "loop" ELSE "clear"]
    BY <1>0, <1>4, ClientReadPipe
  <2> HIDE DEF m
  <2>2. /\ Queue(c)' = Tail(Queue(c)) /\ msg'[c] = m
        /\ proc'[c] = IF m.type = "pong" THEN "loop" ELSE "clear"
    BY <1>0, <2>1 DEF Queue, TypeOK
  <2>3. proc[c] = "loop" /\ UNCHANGED memory
    BY <1>4 DEF ClientRead
  <2> QED
    BY <2>1, <2>2, <2>3 DEF Took, m, memory
<1>5. CASE ClientClear(c)
  <2>1. proc'[c] = IF msg[c].type = "ok" THEN "fill" ELSE "expire"
    BY <1>0, <1>5 DEF ClientClear, TypeOK
  <2>2. proc[c] = "clear" /\ UNCHANGED <<pipe, msg>>
    BY <1>5 DEF ClientClear
  <2>3. store' = [store EXCEPT ![c].key = NoKey]
    BY <1>0, <1>5 DEF ClientClear, ClearKey
  <2>4. store'[c].expires = store[c].expires
    BY <1>0, <1>a, <2>3 DEF TypeOK, Items
  <2> QED
    BY <2>1, <2>2, <2>4 DEF Cleared, Queue
<1>6. CASE ClientFill(c)
  <2>1. msg[c].key \in Keys
    BY <1>0 DEF TypeOK, Answers
  <2>2. store' = [store EXCEPT ![c].key = msg[c].key]
    BY <1>0, <1>6, <2>1, FillKeyType DEF ClientFill, Processes
  <2>3. store'[c].key = msg[c].key /\ store'[c].expires = store[c].expires
    BY <1>0, <1>a, <2>2 DEF TypeOK, Items
  <2>4. proc[c] = "fill" /\ proc'[c] = "expire" /\ UNCHANGED <<pipe, msg>>
    BY <1>0, <1>6 DEF ClientFill, TypeOK
  <2> QED
    BY <2>3, <2>4 DEF Filled, Queue
<1>7. CASE ClientExpire(c)
  <2>1. proc[c] = "expire" /\ proc'[c] = "loop" /\ c \notin torn' /\ UNCHANGED <<pipe, msg>>
    BY <1>0, <1>7 DEF ClientExpire, TypeOK
  <2>2. store'[c] = [store[c] EXCEPT !.use = (msg[c].type = "ok"),
                                     !.expires = IF msg[c].type = "ok" THEN msg[c].expires ELSE -1]
    BY <1>0, <1>7 DEF ClientExpire, TypeOK
  <2>3. /\ store'[c].key = store[c].key /\ (store'[c].use <=> msg[c].type = "ok")
        /\ store'[c].expires = IF msg[c].type = "ok" THEN msg[c].expires ELSE -1
    BY <1>a, <2>2 DEF Items
  <2> QED
    BY <2>1, <2>3 DEF Expired, Queue
<1>8. CASE ClientEof(c) \/ ServerEof(c)
  <2>1. Queue(c)' = <<>>
    BY <1>0, <1>8, EmptyPipeFacts DEF ClientEof, ServerEof, Queue, TypeOK
  <2>2. UNCHANGED <<memory, proc, msg>>
    BY <1>8 DEF ClientEof, ServerEof
  <2> QED
    BY <1>8, <2>1, <2>2 DEF Emptied, memory
<1>9. CASE ClientDies(c)
  <2>1. Queue(c)' = <<>>
    <3>1. pipe'[c] = [pipe[c] EXCEPT !.down = <<>>, !.atClient = <<>>]
      BY <1>0, <1>9 DEF ClientDies, TypeOK
    <3> QED
      BY <1>a, <3>1, CutPipe DEF Queue
  <2>2. /\ proc'[c] = "down" /\ UNCHANGED <<store, msg>>
        /\ c \in torn' <=> c \in torn \/ proc[c] \in {"fill", "expire"}
    BY <1>0, <1>9 DEF ClientDies, TypeOK
  <2> QED
    BY <1>9, <2>1, <2>2 DEF Emptied
<1>10. ASSUME NEW n \in 0 .. Len(pipe[c].up), ServerRead(c, n) PROVE Kept(c)
  <2> DEFINE q == AfterServerRead(c, n)
  <2>1. q \in Pipes /\ Queued(q) = Queue(c)
    BY <1>0, <1>10, ServerReadPipe
  <2>2. \/ pipe' = [pipe EXCEPT ![c] = q]
        \/ pipe' = [pipe EXCEPT ![c] = Answered(q, Pong)]
        \/ pipe' = [pipe EXCEPT ![c] = Answered(q, Refusal)]
    BY <1>10 DEF ServerRead
  <2> HIDE DEF q
  <2>3. pipe'[c] = q \/ pipe'[c] = Answered(q, Pong) \/ pipe'[c] = Answered(q, Refusal)
    BY <1>0, <2>2 DEF TypeOK
  <2>4. /\ Pong \in Answers /\ Refusal \in Answers
        /\ Pong.type # "ok" /\ Refusal.type # "ok"
        /\ Queued(Answered(q, Pong)) = Append(Queue(c), Pong)
        /\ Queued(Answered(q, Refusal)) = Append(Queue(c), Refusal)
    BY <2>1, AnsweredPipe, AnswerTypes DEF Pong, Refusal
  <2>5. \/ Queue(c)' = Queue(c)
        \/ \E m \in Answers : m.type # "ok" /\ Queue(c)' = Append(Queue(c), m)
    BY <2>1, <2>3, <2>4 DEF Queue
  <2>6. store' = store \/ \E i : store' = [store EXCEPT ![Srv] = i]
    BY <1>10 DEF ServerRead
  <2>7. store'[c] = store[c]
    BY <1>0, <2>6 DEF TypeOK
  <2> QED
    BY <1>10, <2>5, <2>7 DEF ServerRead, Kept
<1> QED
  BY <1>1, <1>2, <1>3, <1>4, <1>5, <1>6, <1>7, <1>8, <1>9, <1>10
     DEF ActsFor, ClientStep, ClientReads, ServerReads

LEMMA UndisturbedIsKept ==
  ASSUME NEW c \in Remote, Undisturbed(c)
  PROVE  Kept(c)
BY DEF Undisturbed, Kept, Queue

LEMMA RemoteSteps ==
  ASSUME Base, clashed \subseteq LocalClients \cup {Srv}, NEW c \in Remote, [Next]_vars
  PROVE  \/ Emptied(c) \/ Kept(c) \/ Took(c) \/ Cleared(c) \/ Filled(c) \/ Expired(c)
         \/ ServerCopy /\ job.client = c
<1>0. TypeOK /\ JobInv /\ c \in Clients /\ c \notin clashed
  BY Constants DEF Base, Remote
<1>1. CASE Tick \/ ServerClear \/ ServerFill \/ ServerStart \/ UNCHANGED vars
  BY <1>0, <1>1, NobodyDisturbed, UndisturbedIsKept
<1>2. ASSUME NEW d \in Clients, ActsFor(d), d # c PROVE Kept(c)
  BY <1>0, <1>2, OthersUndisturbed, UndisturbedIsKept
<1>3. CASE ServerCopy /\ job.client # c
  BY <1>0, <1>3, CopyDisturbsOne, UndisturbedIsKept
<1>4. CASE ServerDies
  BY <1>0, <1>4, DeathOfServer DEF Kept
<1> QED
  BY <1>0, <1>1, <1>2, <1>3, <1>4, Steps, ForRemote

LEMMA GrantInit == Init => GrantInv
<1> SUFFICES ASSUME Init, NEW c \in Remote PROVE GrantedTo(c)
  BY DEF GrantInv, Init
<1>1. Queue(c) = <<>>
  BY EmptyPipeFacts DEF Init, Queue, Remote
<1>2. ~store[c].use /\ msg[c].type # "ok" /\ proc[c] = "down"
  BY Constants DEF Init, Blank, Pong, Remote
<1> QED
  BY <1>1, <1>2, EmptyFacts DEF GrantedTo

LEMMA GrantsGrow ==
  ASSUME Base, [Next]_vars
  PROVE  grants \subseteq grants' /\ (~ServerCopy => grants' = grants)
<1>1. CASE Tick \/ ServerClear \/ ServerFill \/ ServerStart \/ UNCHANGED vars \/ ServerCopy \/ ServerDies
  BY <1>1 DEF Tick, ServerClear, ServerFill, ServerStart, vars, history, ServerCopy, ServerDies
<1>2. ASSUME NEW d \in Clients, ActsFor(d) PROVE grants' = grants
  BY <1>2, JobOfOthers DEF Base
<1> QED
  BY <1>1, <1>2, Steps

LEMMA QueueType ==
  ASSUME TypeOK, NEW c \in Clients
  PROVE  Queue(c) \in Seq(Answers)
BY PipeType DEF TypeOK, Queue

LEMMA GrantNext == Base /\ GrantInv /\ [Next]_vars => GrantInv'
<1> SUFFICES ASSUME Base, GrantInv, [Next]_vars PROVE GrantInv'
  OBVIOUS
<1>1. clashed \subseteq LocalClients \cup {Srv} /\ clashed' \subseteq LocalClients \cup {Srv}
  BY ClashNext DEF GrantInv
<1>2. ASSUME NEW c \in Remote PROVE GrantedTo(c)'
  <2> DEFINE q == Queue(c)
             r == Queue(c)'
  <2>0. TypeOK /\ JobInv /\ c \in Clients /\ GrantedTo(c)
    BY <1>2 DEF Base, Remote, GrantInv
  <2>1. q \in Seq(Answers) /\ Granted(c, q, grants)
    BY <2>0, QueueType DEF GrantedTo
  <2>2. Granted(c, q, grants') /\ grants \subseteq grants'
    BY <2>1, GrantsGrow, WiderFacts
  <2> HIDE DEF q, r
  <2>3. CASE Emptied(c)
    BY <2>0, <2>2, <2>3, EmptyFacts DEF GrantedTo, Emptied
  <2>4. CASE Kept(c)
    <3>2. ASSUME NEW m \in Answers, m.type # "ok" PROVE Granted(c, Append(q, m), grants')
      BY <2>1, <2>2, <3>2, AppendedFacts
    <3>1. Granted(c, r, grants')
      BY <2>2, <2>4, <3>2 DEF Kept, q, r
    <3> QED
      BY <2>0, <2>2, <2>4, <3>1 DEF GrantedTo, Kept, r
  <2>5. CASE Took(c)
    <3>1. /\ Granted(c, Tail(q), grants')
          /\ Head(q).type = "ok" => <<c, Head(q).key, Head(q).expires>> \in grants'
      BY <2>1, <2>2, <2>5, TakenFacts DEF Took, q
    <3> QED
      BY <2>0, <2>2, <2>5, <3>1 DEF GrantedTo, Took, q
  <2>6. CASE Cleared(c)
    BY <2>0, <2>2, <2>6 DEF GrantedTo, Cleared, q
  <2>7. CASE Filled(c)
    BY <2>0, <2>2, <2>7 DEF GrantedTo, Filled, q
  <2>8. CASE Expired(c)
    BY <2>0, <2>2, <2>8 DEF GrantedTo, Expired, q
  <2>9. CASE ServerCopy /\ job.client = c
    <3> DEFINE m == Token(store[Srv].key, job.expires)
    <3>1. /\ m \in Answers /\ <<c, m.key, m.expires>> \in grants'
          /\ pipe'[c] = Answered(pipe[c], m) /\ UNCHANGED <<memory, proc, msg>>
      BY <2>0, <2>9, CopyDisturbsOne
    <3> HIDE DEF m
    <3>2. r = Append(q, m)
      BY <2>0, <3>1, AnsweredPipe DEF TypeOK, Queue, q, r
    <3>3. Granted(c, r, grants')
      BY <2>1, <2>2, <3>1, <3>2, AppendedFacts
    <3> QED
      BY <2>0, <2>2, <3>1, <3>3 DEF GrantedTo, memory, r
  <2> QED
    BY <1>1, <1>2, <2>3, <2>4, <2>5, <2>6, <2>7, <2>8, <2>9, RemoteSteps
<1> QED
  BY <1>1, <1>2 DEF GrantInv

\* A remote client's item in use holds what the server has answered this client: key and
\* expiry of one answer, never a mixture of two, through every backlog and every death.
THEOREM StoredIsGranted == Spec => []TokenWasGranted
<1>1. Base /\ GrantInv => TokenWasGranted
  <2> SUFFICES ASSUME Base, GrantInv, NEW c \in Remote, store[c].use, Settled(c)
               PROVE  <<c, store[c].key, store[c].expires>> \in grants
    BY DEF TokenWasGranted, Remote
  <2>1. c \notin torn /\ ~Storing(c)
    BY SettledRemote DEF Base
  <2> QED
    BY <2>1 DEF GrantInv, GrantedTo, Storing
<1>2. Init => Base /\ GrantInv
  BY TypeInit, GrantInit
<1>3. (Base /\ GrantInv) /\ [Next]_vars => (Base /\ GrantInv)'
  BY TypeNext, GrantNext
<1> QED
  BY <1>1, <1>2, <1>3, PTL DEF Spec

-----------------------------------------------------------------------------
(* A late answer never replaces a newer one.                               *)

LEMMA MoveInit == Init => MoveInv
<1> SUFFICES ASSUME Init PROVE MoveInv
  OBVIOUS
<1>1. job.pc = "idle" /\ job.client = Nobody /\ now = 0
  BY DEF Init, NoJob
<1>2. ASSUME NEW c \in Remote PROVE InOrder(c)
  <2>1. Queue(c) = <<>> /\ store[c].expires = 0 /\ ~Storing(c) /\ msg[c].type # "ok"
    BY <1>2, EmptyPipeFacts, Constants DEF Init, Queue, Remote, Blank, Pong, Storing
  <2> QED
    BY <1>1, <1>2, <2>1, EmptyFacts, Constants DEF InOrder, AtMost, Remote
<1> QED
  BY <1>1, <1>2 DEF MoveInv

\* The clock goes forward, and what the handler will answer expires no later than the
\* clock allows.
LEMMA HandlerClock ==
  ASSUME Base, [Next]_vars, NEW c \in Clients
  PROVE  /\ now \in Nat /\ now' \in Nat /\ now <= now'
         /\ \/ job'.client # c
            \/ job'.client = c /\ job.client = c /\ job'.expires = job.expires
            \/ job'.client = c /\ job'.expires = now + TokenExpires /\ now' = now
         /\ \/ job'.pc \notin {"clear", "fill", "copy"}
            \/ job.pc \in {"clear", "fill", "copy"} /\ job'.expires = job.expires
            \/ job'.expires = now + TokenExpires /\ now' = now
<1>0. TypeOK /\ JobInv /\ c # Nobody
  BY Constants DEF Base
<1>1. now \in Nat
  BY <1>0, Constants DEF TypeOK
<1>2. CASE Tick
  BY <1>0, <1>1, <1>2 DEF Tick
<1>3. CASE ServerClear \/ ServerFill
  BY <1>0, <1>1, <1>3 DEF ServerClear, ServerFill, TypeOK
<1>4. CASE ServerStart \/ ServerCopy \/ ServerDies
  <2>1. now' = now /\ (job' = NoJob \/ job' = [NoJob EXCEPT !.pc = "down"])
    BY <1>4 DEF ServerStart, ServerCopy, ServerDies
  <2>2. job'.client = Nobody /\ job'.pc \notin {"clear", "fill", "copy"}
    BY <2>1 DEF NoJob
  <2> QED
    BY <1>0, <1>1, <2>1, <2>2
<1>5. CASE UNCHANGED vars
  BY <1>1, <1>5 DEF vars
<1>6. ASSUME NEW d \in Clients, ActsFor(d), job' = job PROVE now' = now
  BY <1>0, <1>6, JobOfOthers
<1>7. ASSUME NEW d \in Clients, ActsFor(d), job' # job
      PROVE  job'.expires = now + TokenExpires /\ now' = now
  <2>1. now' = now /\ job.pc = "idle" /\ job'.pc = "clear"
    BY <1>0, <1>7, JobOfOthers
  <2>2. ASSUME NEW n, ServerRead(d, n) PROVE job'.expires = now + TokenExpires
    BY <1>7, <2>2 DEF ServerRead
  <2>3. ServerReads(d)
    BY <1>7 DEF ActsFor, ClientStep, ClientReads, ClientStart, SendOnTimer, SendOnDeleted,
           ClientRead, ClientClear, ClientFill, ClientExpire, ClientEof, ClientDies, ServerEof
  <2> QED
    BY <2>1, <2>2, <2>3 DEF ServerReads
<1> QED
  BY <1>1, <1>2, <1>3, <1>4, <1>5, <1>6, <1>7, Steps

\* A bound on all that a remote client has and awaits is one after the step, too.
LEMMA AtMostNext ==
  ASSUME Base, GrantInv, [Next]_vars, NEW c \in Remote, NEW e \in Int, e >= -1, AtMost(c, e),
         ServerCopy /\ job.client = c => job.expires <= e
  PROVE  AtMost(c, e)'
<1>0. TypeOK /\ JobInv /\ c \in Clients /\ clashed \subseteq LocalClients \cup {Srv}
  BY DEF Base, Remote, GrantInv
<1>1. Queue(c) \in Seq(Answers) /\ UpTo(Queue(c), e)
  BY <1>0, QueueType DEF AtMost
<1>2. CASE Emptied(c)
  BY <1>2, EmptyFacts DEF AtMost, Emptied
<1>3. CASE Kept(c)
  <2>1. UpTo(Queue(c), e)'
    BY <1>1, <1>3, AppendedFacts DEF Kept
  <2> QED
    BY <1>3, <2>1 DEF AtMost, Kept
<1>4. CASE Took(c)
  <2>1. UpTo(Tail(Queue(c)), e) /\ (Head(Queue(c)).type = "ok" => Head(Queue(c)).expires <= e)
    BY <1>1, <1>4, TakenFacts DEF Took
  <2> QED
    BY <1>4, <2>1 DEF AtMost, Took
<1>5. CASE Cleared(c)
  BY <1>5 DEF AtMost, Cleared
<1>6. CASE Filled(c)
  BY <1>6 DEF AtMost, Filled
<1>7. CASE Expired(c)
  BY <1>7 DEF AtMost, Expired
<1>8. CASE ServerCopy /\ job.client = c
  <2> DEFINE m == Token(store[Srv].key, job.expires)
  <2>1. /\ m \in Answers /\ m.expires = job.expires /\ pipe[c] \in Pipes
        /\ pipe'[c] = Answered(pipe[c], m) /\ UNCHANGED <<memory, proc, msg>>
    BY <1>0, <1>8, CopyDisturbsOne DEF TypeOK
  <2> HIDE DEF m
  <2>2. Queue(c)' = Append(Queue(c), m)
    BY <2>1, AnsweredPipe DEF Queue
  <2>3. UpTo(Queue(c), e)'
    BY <1>1, <1>8, <2>1, <2>2, AppendedFacts
  <2> QED
    BY <2>1, <2>3 DEF AtMost, memory
<1> QED
  BY <1>0, <1>2, <1>3, <1>4, <1>5, <1>6, <1>7, <1>8, RemoteSteps

LEMMA ExpiryTypes ==
  ASSUME TypeOK, NEW c \in Remote
  PROVE  /\ store[c].expires \in Int /\ msg[c].expires \in Int
         /\ store[c].expires >= -1 /\ job.expires \in Int /\ job.expires >= -1
<1>1. store[c] \in Items /\ msg[c] \in Answers
  BY Constants DEF TypeOK, Remote
<1>2. store[c].expires \in Expiries /\ msg[c].expires \in Expiries /\ job.expires \in Expiries
  BY <1>1, HandlerType DEF Items, Answers
<1> QED
  BY <1>2, KeysAndExpiries

LEMMA AtMostWider ==
  ASSUME TypeOK, NEW c \in Remote, NEW d \in Int, NEW e \in Int, d <= e, AtMost(c, d)
  PROVE  AtMost(c, e)
<1>1. store[c].expires \in Int /\ msg[c].expires \in Int
  BY ExpiryTypes
<1>2. UpTo(Queue(c), e)
  BY QueueType, WiderFacts DEF AtMost, Remote
<1> QED
  BY <1>1, <1>2 DEF AtMost

LEMMA LaterBound ==
  ASSUME NEW a \in Nat, NEW b \in Nat, NEW t \in Nat, a <= b
  PROVE  \E d \in Int, e \in Int : d = b + t /\ e = a + t /\ e <= d /\ e >= -1 /\ d >= -1
<1>1. b + t \in Int /\ a + t \in Int /\ a + t <= b + t /\ a + t >= -1 /\ b + t >= -1
  OBVIOUS
<1> QED
  BY <1>1

LEMMA MoveNext == Base /\ GrantInv /\ MoveInv /\ [Next]_vars => MoveInv'
<1> SUFFICES ASSUME Base, GrantInv, MoveInv, [Next]_vars PROVE MoveInv'
  OBVIOUS
<1>0. TypeOK /\ JobInv /\ clashed \subseteq LocalClients \cup {Srv} /\ TypeOK'
  BY TypeNext DEF Base, GrantInv
<1>1. job'.pc \in {"clear", "fill", "copy"} => job'.expires <= now' + TokenExpires
  <2>1. CASE Clients = {}
    <3>1. job.pc \notin {"clear", "fill", "copy"}
      BY <1>0, <2>1 DEF JobInv
    <3>2. job'.pc \notin {"clear", "fill", "copy"}
      BY TypeNext, <2>1 DEF Base, JobInv
    <3> QED
      BY <3>2
  <2>2. ASSUME NEW c \in Clients
        PROVE  job'.pc \in {"clear", "fill", "copy"} => job'.expires <= now' + TokenExpires
    <3>1. now \in Nat /\ now' \in Nat /\ now <= now' /\ TokenExpires \in Nat /\ job.expires \in Int
      BY <1>0, HandlerClock, HandlerType, KeysAndExpiries, Constants
    <3>2. \/ job'.pc \notin {"clear", "fill", "copy"}
          \/ job.pc \in {"clear", "fill", "copy"} /\ job'.expires = job.expires
          \/ job'.expires = now + TokenExpires /\ now' = now
      BY HandlerClock
    <3>3. job.pc \in {"clear", "fill", "copy"} => job.expires <= now + TokenExpires
      BY DEF MoveInv
    <3> QED
      BY <3>1, <3>2, <3>3
  <2> QED
    BY <2>1, <2>2
<1>2. ASSUME NEW c \in Remote PROVE InOrder(c)'
  <2> DEFINE q == Queue(c)
             r == Queue(c)'
             m == Token(store[Srv].key, job.expires)
  <2>0. c \in Clients /\ InOrder(c)
    BY <1>2 DEF Remote, MoveInv
  <2>11. q \in Seq(Answers) /\ r \in Seq(Answers)
    <3>1. pipe'[c] \in Pipes
      BY <1>0, <2>0 DEF TypeOK
    <3>2. Queue(c)' \in Seq(Answers)
      BY <3>1, PipeType DEF Queue
    <3> QED
      BY <1>0, <2>0, <3>2, QueueType
  <2>12. /\ store[c].expires \in Int /\ msg[c].expires \in Int
        /\ store[c].expires >= -1 /\ job.expires \in Int /\ job.expires >= -1
    BY <1>0, <1>2, ExpiryTypes
  <2> HIDE DEF q, r, m
  <2>13. now \in Nat /\ now' \in Nat /\ now <= now' /\ TokenExpires \in Nat
    BY <2>0, HandlerClock, Constants
  <2>16. PICK d \in Int, e \in Int :
          /\ d = now' + TokenExpires /\ e = now + TokenExpires
          /\ e <= d /\ e >= -1 /\ d >= -1
    <3>1. PICK a \in Nat, b \in Nat, t \in Nat : a = now /\ b = now' /\ t = TokenExpires
      BY <2>13
    <3>2. a <= b
      BY <2>13, <3>1
    <3>3. PICK d \in Int, e \in Int : d = b + t /\ e = a + t /\ e <= d /\ e >= -1 /\ d >= -1
      BY <3>2, LaterBound
    <3>4. d = now' + TokenExpires /\ e = now + TokenExpires
      BY <3>1, <3>3
    <3> QED
      BY <3>3, <3>4
  <2>14. ServerCopy => job.expires <= e
    BY <2>16 DEF ServerCopy, MoveInv
  <2>15. ServerCopy /\ job.client = c =>
          /\ m \in Answers /\ m.type = "ok" /\ m.expires = job.expires
          /\ r = Append(q, m) /\ UNCHANGED <<memory, proc, msg>>
    <3>1. SUFFICES ASSUME ServerCopy, job.client = c
                   PROVE  /\ m \in Answers /\ m.type = "ok" /\ m.expires = job.expires
                          /\ r = Append(q, m) /\ UNCHANGED <<memory, proc, msg>>
      OBVIOUS
    <3>2. /\ m \in Answers /\ m.type = "ok" /\ m.expires = job.expires /\ pipe[c] \in Pipes
          /\ pipe'[c] = Answered(pipe[c], m) /\ UNCHANGED <<memory, proc, msg>>
      BY <1>0, <2>0, <3>1, CopyDisturbsOne DEF TypeOK, m
    <3>3. Queue(c)' = Append(Queue(c), m)
      BY <3>2, AnsweredPipe DEF Queue
    <3> QED
      BY <3>2, <3>3 DEF q, r
  <2>1. AtMost(c, now + TokenExpires)'
    <3>1. AtMost(c, e)
      BY <2>0, <2>16 DEF InOrder
    <3>2. AtMost(c, d)
      BY <1>0, <1>2, <2>16, <3>1, AtMostWider
    <3>3. ServerCopy => job.expires <= d
      BY <2>12, <2>14, <2>16
    <3>4. AtMost(c, d)'
      BY <1>2, <2>16, <3>2, <3>3, AtMostNext
    <3> QED
      BY <2>16, <3>4 DEF AtMost
  <2>2. job'.client = c => AtMost(c, job.expires)'
    <3>1. CASE job.client = c /\ job'.expires = job.expires
      <4>1. PICK f \in Int : f = job.expires
        BY <2>12
      <4>3. AtMost(c, f) /\ f >= -1 /\ job.expires <= f
        BY <2>0, <2>12, <3>1, <4>1 DEF InOrder
      <4>2. AtMost(c, f)'
        BY <1>2, <4>3, AtMostNext
      <4> QED
        BY <3>1, <4>1, <4>2 DEF AtMost
    <3>2. CASE job'.expires = now + TokenExpires
      <4>2. AtMost(c, e)
        BY <2>0, <2>16 DEF InOrder
      <4>1. AtMost(c, e)'
        BY <1>2, <2>14, <2>16, <4>2, AtMostNext
      <4> QED
        BY <2>16, <3>2, <4>1 DEF AtMost
    <3> QED
      BY <2>0, <3>1, <3>2, HandlerClock
  <2>3. /\ Storing(c)' /\ msg'[c].type = "ok" =>
              store'[c].expires <= msg'[c].expires /\ From(r, msg'[c].expires)
        /\ From(r, store'[c].expires)
        /\ Rising(r)
    <3>0. /\ Storing(c) /\ msg[c].type = "ok" =>
               store[c].expires <= msg[c].expires /\ From(q, msg[c].expires)
          /\ From(q, store[c].expires) /\ Rising(q)
      BY <2>0 DEF InOrder, q
    <3>1. CASE Emptied(c)
      BY <3>0, <3>1, EmptyFacts DEF Emptied, Storing, r
    <3>2. CASE Kept(c)
      <4>1. \/ r = q
            \/ /\ \A x : From(q, x) => From(r, x)
               /\ Rising(r)
        <5>1. ASSUME NEW a \in Answers, a.type # "ok"
              PROVE  Rising(Append(q, a)) /\ \A x : From(q, x) => From(Append(q, a), x)
          BY <2>11, <3>0, <5>1, AppendedFacts
        <5> QED
          BY <3>2, <5>1 DEF Kept, q, r
      <4> QED
        BY <3>0, <3>2, <4>1 DEF Kept, Storing
    <3>3. CASE Took(c)
      <4>1. q # <<>> /\ r = Tail(q) /\ msg'[c] = Head(q)
            /\ store'[c] = store[c]
        BY <3>3 DEF Took, q, r
      <4>2. /\ From(r, store[c].expires) /\ Rising(r)
            /\ Head(q).type = "ok" => store[c].expires <= Head(q).expires /\ From(r, Head(q).expires)
        BY <2>11, <3>0, <4>1, TakenFacts
      <4> QED
        BY <4>1, <4>2
    <3>4. CASE Cleared(c)
      BY <3>0, <3>4 DEF Cleared, Storing, q, r
    <3>5. CASE Filled(c)
      BY <3>0, <3>5 DEF Filled, Storing, q, r
    <3>6. CASE Expired(c)
      <4>1. From(q, -1)
        BY <2>11, WiderFacts
      <4> QED
        BY <3>0, <3>6, <4>1 DEF Expired, Storing, q, r
    <3>7. CASE ServerCopy /\ job.client = c
      <4>1. /\ m \in Answers /\ m.type = "ok" /\ m.expires = job.expires
            /\ r = Append(q, m) /\ UNCHANGED <<memory, proc, msg>>
        BY <2>15, <3>7
      <4>2. /\ store[c].expires <= job.expires /\ UpTo(q, job.expires)
            /\ msg[c].type = "ok" => msg[c].expires <= job.expires
        BY <2>0, <3>7 DEF InOrder, AtMost, q
      <4>3. Rising(r) /\ From(r, store[c].expires)
        BY <2>11, <3>0, <4>1, <4>2, AppendedFacts
      <4>4. Storing(c) /\ msg[c].type = "ok" => From(r, msg[c].expires)
        BY <2>11, <3>0, <4>1, <4>2, AppendedFacts
      <4> QED
        BY <3>0, <4>1, <4>3, <4>4 DEF Storing, memory
    <3> QED
      BY <1>0, <1>2, <3>1, <3>2, <3>3, <3>4, <3>5, <3>6, <3>7, RemoteSteps
  <2> QED
    BY <2>1, <2>2, <2>3 DEF InOrder, r
<1> QED
  BY <1>1, <1>2 DEF MoveInv

\* A late answer never replaces a newer one: whatever the backlog and whoever dies, the
\* expiry in a remote client's item goes forward, but for the -1 of a refusal.
THEOREM ExpiryMovesForward == Spec => TokensMoveForward
<1>1. Base /\ GrantInv /\ MoveInv /\ [Next]_vars =>
        [\A c \in Clients \ LocalClients :
           store'[c].expires >= store[c].expires \/ store'[c].expires = -1]_vars
  <2> SUFFICES ASSUME Base, GrantInv, MoveInv, [Next]_vars, NEW c \in Remote
               PROVE  store'[c].expires >= store[c].expires \/ store'[c].expires = -1
    BY DEF Remote
  <2>0. TypeOK /\ JobInv /\ clashed \subseteq LocalClients \cup {Srv} /\ InOrder(c)
    BY DEF Base, GrantInv, MoveInv
  <2>1. store[c].expires \in Int /\ msg[c].expires \in Int
    BY <2>0, ExpiryTypes
  <2>2. CASE Expired(c)
    BY <2>0, <2>1, <2>2 DEF Expired, InOrder, Storing
  <2>3. CASE ServerCopy
    BY <2>1, <2>3 DEF ServerCopy, memory
  <2>4. CASE Emptied(c) \/ Kept(c) \/ Took(c) \/ Cleared(c) \/ Filled(c)
    BY <2>1, <2>4 DEF Emptied, Kept, Took, Cleared, Filled
  <2> QED
    BY <2>0, <2>2, <2>3, <2>4, RemoteSteps
<1>2. Init => Base /\ GrantInv /\ MoveInv
  BY TypeInit, GrantInit, MoveInit
<1>3. (Base /\ GrantInv /\ MoveInv) /\ [Next]_vars => (Base /\ GrantInv /\ MoveInv)'
  BY TypeNext, GrantNext, MoveNext
<1> QED
  BY <1>1, <1>2, <1>3, PTL DEF Spec, TokensMoveForward

-----------------------------------------------------------------------------
(* Where no client shares the server's segment, its expiry belongs to its  *)
(* key.                                                                    *)

\* A client's steps leave the server's item alone, but for a request the server takes.
LEMMA ServerItem ==
  ASSUME LocalClients = {}, Base, clashed = {}, NEW d \in Clients, ActsFor(d)
  PROVE  /\ clashed' = {} /\ (Srv \in writing' <=> Srv \in writing)
         /\ Srv \in torn' <=> Srv \in torn
         /\ \/ job' = job /\ store'[Srv] = store[Srv]
            \/ /\ job.pc = "idle" /\ job'.pc = "clear"
               /\ store'[Srv].use /\ store'[Srv].expires = job'.expires
<1> USE Constants
<1>0. /\ TypeOK /\ SegmentOf(d) = d /\ d \in Segments /\ Srv \in Segments /\ d # Srv
      /\ store[Srv] \in Items
  BY DEF Base, SegmentOf, Segments, TypeOK
<1>1. CASE ClientStart(d) \/ ClientEof(d) \/ ServerEof(d)
  BY <1>1 DEF ClientStart, ClientEof, ServerEof, memory
<1>2. ASSUME NEW t \in Timers, SendOnTimer(d, t) \/ SendOnDeleted(d, t)
      PROVE  UNCHANGED <<job, memory>>
  BY <1>2 DEF SendOnTimer, SendOnDeleted
<1>3. ASSUME NEW n, ClientRead(d, n) PROVE UNCHANGED <<job, memory>>
  BY <1>3 DEF ClientRead
<1>4. CASE ClientClear(d)
  <2>1. store' = [store EXCEPT ![d].key = NoKey] /\ job' = job /\ torn' = torn
    BY <1>0, <1>4 DEF ClientClear, ClearKey
  <2>2. clashed' = clashed /\ (writing' = writing \/ writing' = writing \cup {d})
    BY <1>0, <1>4 DEF ClientClear, ClearKey
  <2>3. store'[Srv] = store[Srv]
    BY <1>0, <2>1 DEF TypeOK
  <2> QED
    BY <1>0, <2>1, <2>2, <2>3
<1>5. CASE ClientFill(d)
  <2>1. /\ \E w : store' = [store EXCEPT ![d].key = w]
        /\ job' = job /\ torn' = torn /\ clashed' = clashed \ {d} /\ writing' = writing \ {d}
    BY <1>0, <1>5 DEF ClientFill, FillKey
  <2>2. store'[Srv] = store[Srv]
    BY <1>0, <2>1 DEF TypeOK
  <2> QED
    BY <1>0, <2>1, <2>2
<1>6. CASE ClientExpire(d)
  <2>1. /\ \E i : store' = [store EXCEPT ![d] = i]
        /\ job' = job /\ torn' = torn \ {d} /\ clashed' = clashed /\ writing' = writing
    BY <1>0, <1>6 DEF ClientExpire
  <2>2. store'[Srv] = store[Srv]
    BY <1>0, <2>1 DEF TypeOK
  <2> QED
    BY <1>0, <2>1, <2>2
<1>7. CASE ClientDies(d)
  <2>1. /\ store' = store /\ job' = job /\ clashed' = clashed \ {d} /\ writing' = writing \ {d}
        /\ torn' = torn \/ torn' = torn \cup {d}
    BY <1>0, <1>7 DEF ClientDies
  <2> QED
    BY <1>0, <2>1
<1>8. ASSUME NEW n, ServerRead(d, n)
      PROVE  /\ UNCHANGED <<writing, clashed, torn>>
             /\ \/ job' = job /\ store'[Srv] = store[Srv]
                \/ /\ job.pc = "idle" /\ job'.pc = "clear"
                   /\ store'[Srv].use /\ store'[Srv].expires = job'.expires
  <2>1. /\ UNCHANGED <<writing, clashed, torn>> /\ job.pc = "idle"
        /\ \/ UNCHANGED <<store, job>>
           \/ /\ store' = [store EXCEPT ![Srv] = [@ EXCEPT !.use = TRUE, !.expires = now + TokenExpires]]
              /\ job' = [pc |-> "clear", client |-> d, expires |-> now + TokenExpires]
    BY <1>8 DEF ServerRead
  <2>2. CASE UNCHANGED <<store, job>>
    BY <2>1, <2>2
  <2>3. CASE /\ store' = [store EXCEPT ![Srv] = [@ EXCEPT !.use = TRUE, !.expires = now + TokenExpires]]
             /\ job' = [pc |-> "clear", client |-> d, expires |-> now + TokenExpires]
    <3>1. store'[Srv] = [store[Srv] EXCEPT !.use = TRUE, !.expires = now + TokenExpires]
      BY <1>0, <2>3 DEF TypeOK
    <3>2. store'[Srv].use /\ store'[Srv].expires = now + TokenExpires
      BY <1>0, <3>1 DEF Items
    <3> QED
      BY <2>1, <2>3, <3>2
  <2> QED
    BY <2>1, <2>2, <2>3
<1> QED
  BY <1>1, <1>2, <1>3, <1>4, <1>5, <1>6, <1>7, <1>8
     DEF ActsFor, ClientStep, ClientReads, ServerReads, memory

LEMMA ExpiryInit == Init => ExpiryInv
BY Constants DEF Init, ExpiryInv, NoJob, Blank

LEMMA ExpiryNext == LocalClients = {} /\ Base /\ MoveInv /\ ExpiryInv /\ [Next]_vars => ExpiryInv'
<1> SUFFICES ASSUME LocalClients = {}, Base, MoveInv, ExpiryInv, [Next]_vars PROVE ExpiryInv'
  OBVIOUS
<1> USE Constants
<1>0. /\ TypeOK /\ JobInv /\ store[Srv] \in Items /\ Srv \in Segments
      /\ \A c \in Clients : SegmentOf(c) # Srv
  BY DEF Base, TypeOK, SegmentOf
<1>1. CASE Tick \/ UNCHANGED vars
  BY <1>1 DEF Tick, vars, ExpiryInv, memory, history
<1>2. ASSUME NEW d \in Clients, ActsFor(d) PROVE ExpiryInv'
  <2>1. grants' = grants
    BY <1>0, <1>2, JobOfOthers
  <2>2. /\ clashed' = {} /\ (Srv \in writing' <=> Srv \in writing)
        /\ Srv \in torn' <=> Srv \in torn
        /\ \/ job' = job /\ store'[Srv] = store[Srv]
           \/ /\ job.pc = "idle" /\ job'.pc = "clear"
              /\ store'[Srv].use /\ store'[Srv].expires = job'.expires
    BY <1>2, ServerItem DEF ExpiryInv
  <2> QED
    BY <2>1, <2>2 DEF ExpiryInv
<1>3. CASE ServerClear
  <2>1. /\ store' = [store EXCEPT ![Srv].key = NoKey] /\ job.pc = "clear"
        /\ UNCHANGED <<torn, grants>>
    BY <1>3 DEF ServerClear, ClearKey, history
  <2>2. job'.pc = "fill" /\ job'.expires = job.expires
    BY <1>0, <1>3 DEF ServerClear, TypeOK
  <2>3. store'[Srv].use = store[Srv].use /\ store'[Srv].expires = store[Srv].expires
    BY <1>0, <2>1 DEF TypeOK, Items
  <2>4. {y \in writing : y = Srv \/ SegmentOf(y) = Srv} = {}
    BY <1>0, <2>1 DEF ExpiryInv, TypeOK, Processes
  <2>5. clashed' = clashed
    BY <1>3, <2>4 DEF ServerClear, ClearKey
  <2> QED
    BY <2>1, <2>2, <2>3, <2>5 DEF ExpiryInv
<1>4. CASE ServerFill
  <2>1. /\ store' = [store EXCEPT ![Srv].key = now] /\ job.pc = "fill" /\ grants' = grants
        /\ torn' = torn \ {Srv} /\ writing' = writing \ {Srv} /\ clashed' = clashed \ {Srv}
    BY <1>4 DEF ServerFill, FillKey, history, ExpiryInv
  <2>2. job'.pc = "copy" /\ job'.expires = job.expires
    BY <1>0, <1>4 DEF ServerFill, TypeOK
  <2>3. /\ store'[Srv].use = store[Srv].use /\ store'[Srv].expires = store[Srv].expires
        /\ store'[Srv].key = now
    BY <1>0, <2>1 DEF TypeOK, Items
  <2>4. store'[Srv].expires <= store'[Srv].key + TokenExpires
    BY <2>1, <2>3 DEF ExpiryInv, MoveInv
  <2> QED
    BY <2>1, <2>2, <2>3, <2>4 DEF ExpiryInv
<1>5. CASE ServerCopy
  <2>1. /\ job.pc = "copy" /\ job' = NoJob /\ UNCHANGED memory
        /\ grants' = grants \cup {<<job.client, store[Srv].key, job.expires>>}
    BY <1>5 DEF ServerCopy
  <2>2. job.expires <= store[Srv].key + TokenExpires
    BY <2>1 DEF ExpiryInv
  <2>3. \A g \in grants' : g[3] <= g[2] + TokenExpires
    BY <2>1, <2>2 DEF ExpiryInv
  <2> QED
    BY <2>1, <2>3 DEF ExpiryInv, memory, NoJob
<1>6. CASE ServerDies
  <2>1. /\ job'.pc = "down" /\ clashed' = clashed \ {Srv} /\ UNCHANGED <<store, grants>>
        /\ Srv \notin writing'
        /\ Srv \notin torn' => Srv \notin torn /\ job.pc \notin {"clear", "fill"}
    BY <1>6 DEF ServerDies, NoJob
  <2> QED
    BY <2>1 DEF ExpiryInv
<1>7. CASE ServerStart
  <2>1. job.pc = "down" /\ job'.pc = "idle" /\ UNCHANGED <<memory, grants>>
    BY <1>7 DEF ServerStart, NoJob, history
  <2> QED
    BY <2>1 DEF ExpiryInv, memory
<1> QED
  BY <1>1, <1>2, <1>3, <1>4, <1>5, <1>6, <1>7, Steps

\* On a host without clients of its own, no item claims to be valid longer than
\* TokenExpires behind the second its key was drawn in, on the server or on a client.
THEOREM ExpiryBelongsToKey ==
  ASSUME LocalClients = {}
  PROVE  Spec => []ExpiryOfItsKey
<1>1. Base /\ GrantInv /\ ExpiryInv => ExpiryOfItsKey
  <2> SUFFICES ASSUME Base, GrantInv, ExpiryInv, NEW s \in Segments, store[s].use, Settled(s)
               PROVE  store[s].expires <= store[s].key + TokenExpires
    BY DEF ExpiryOfItsKey
  <2>1. CASE s = Srv
    BY <2>1 DEF ExpiryInv, Settled
  <2>2. CASE s # Srv
    <3>1. s \in Remote
      BY <2>2 DEF Segments, Remote
    <3>2. s \notin torn /\ ~Storing(s)
      BY <3>1, SettledRemote DEF Base
    <3>3. <<s, store[s].key, store[s].expires>> \in grants
      BY <3>1, <3>2 DEF GrantInv, GrantedTo, Storing
    <3> QED
      BY <3>3 DEF ExpiryInv
  <2> QED
    BY <2>1, <2>2
<1>2. Init => Base /\ GrantInv /\ MoveInv /\ ExpiryInv
  BY TypeInit, GrantInit, MoveInit, ExpiryInit
<1>3. Base /\ GrantInv /\ MoveInv /\ ExpiryInv /\ [Next]_vars => (Base /\ GrantInv /\ MoveInv /\ ExpiryInv)'
  BY TypeNext, GrantNext, MoveNext, ExpiryNext
<1> QED
  BY <1>1, <1>2, <1>3, PTL DEF Spec

-----------------------------------------------------------------------------
(* Where no client shares the server's segment, the last client agrees     *)
(* with the server.                                                        *)

LEMMA AgreeInit == Init => AgreeInv
BY DEF Init, AgreeInv

\* A client's other steps leave the connection as it is.
LEMMA ConnectionKept ==
  ASSUME NEW d \in Clients, ActsFor(d),
         ~ClientStart(d), ~ClientEof(d), ~ServerEof(d), ~ClientDies(d)
  PROVE  UNCHANGED <<ends, last>>
BY DEF ActsFor, ClientStep, ClientReads, ServerReads, SendOnTimer, SendOnDeleted, ClientRead,
       ClientClear, ClientFill, ClientExpire, ServerRead, history

\* A step for the client that was granted the last token, while nothing is done on the
\* server's item: the token stays the last of those that are on their way, or arrives.
LEMMA ArrivesOrWaits ==
  ASSUME LocalClients = {}, Base, GrantInv, NEW c \in Clients,
         Kept(c) \/ Took(c) \/ Cleared(c) \/ Filled(c) \/ Expired(c),
         store[Srv] \in Items, store'[c] \in Items, store'[Srv] = store[Srv], store[Srv].use,
         NEW m, m = Token(store[Srv].key, store[Srv].expires),
         EndsWith(Queue(c), m) \/ (NoToken(Queue(c)) /\ Arrived(c))
  PROVE  EndsWith(Queue(c), m)' \/ (NoToken(Queue(c)) /\ Arrived(c))'
<1> DEFINE q == Queue(c)
           r == Queue(c)'
<1>0. TypeOK /\ c \in Remote /\ q \in Seq(Answers) /\ m.type = "ok"
  BY QueueType DEF Base, Remote, Token
<1>1. Token(store'[Srv].key, store'[Srv].expires) = m
  OBVIOUS
<1> HIDE DEF q, r
<1>2. CASE Kept(c)
  <2>1. \/ r = q
        \/ (EndsWith(q, m) => EndsWith(r, m)) /\ (NoToken(q) => NoToken(r))
    <3>1. ASSUME NEW a \in Answers, a.type # "ok"
          PROVE  /\ EndsWith(q, m) => EndsWith(Append(q, a), m)
                 /\ NoToken(q) => NoToken(Append(q, a))
      BY <1>0, <3>1, AppendedFacts
    <3> QED
      BY <1>2, <3>1 DEF Kept, q, r
  <2>2. Arrived(c) => Arrived(c)'
    BY <1>1, <1>2 DEF Kept, Arrived, Storing
  <2>3. EndsWith(r, m) \/ (NoToken(r) /\ Arrived(c)')
    BY <2>1, <2>2 DEF q
  <2> QED
    BY <2>3 DEF r, EndsWith
<1>3. CASE Took(c)
  <2> DEFINE h == Head(q)
  <2>1. /\ q # <<>> /\ r = Tail(q) /\ msg'[c] = h /\ store'[c] = store[c]
        /\ (c \in torn' <=> c \in torn) /\ proc[c] = "loop"
        /\ proc'[c] = IF h.type = "pong" THEN "loop" ELSE "clear"
    BY <1>3 DEF Took, q, r
  <2>2. /\ EndsWith(q, m) => EndsWith(r, m) \/ (h = m /\ NoToken(r))
        /\ NoToken(q) => NoToken(r) /\ h.type # "ok"
    BY <1>0, <2>1, TakenFacts
  <2> HIDE DEF h
  <2>3. h = m => Arrived(c)'
    BY <1>0, <1>1, <2>1 DEF Arrived, Storing
  <2>4. Arrived(c) /\ h.type # "ok" => Arrived(c)'
    BY <1>1, <2>1 DEF Arrived, Storing
  <2>5. EndsWith(r, m) \/ (NoToken(r) /\ Arrived(c)')
    BY <2>2, <2>3, <2>4 DEF q
  <2> QED
    BY <2>5 DEF r, EndsWith
<1>4. CASE Cleared(c) \/ Filled(c)
  <2>1. r = q /\ (Arrived(c) => Arrived(c)')
    BY <1>1, <1>4 DEF Cleared, Filled, Arrived, Storing, q, r
  <2>2. EndsWith(r, m) \/ (NoToken(r) /\ Arrived(c)')
    BY <2>1 DEF q
  <2> QED
    BY <2>2 DEF r, EndsWith
<1>5. CASE Expired(c)
  <2>1. /\ r = q /\ msg'[c] = msg[c] /\ proc[c] = "expire" /\ proc'[c] = "loop"
        /\ store'[c].key = store[c].key /\ (store'[c].use <=> msg[c].type = "ok")
        /\ store'[c].expires = IF msg[c].type = "ok" THEN msg[c].expires ELSE -1
    BY <1>5 DEF Expired, q, r
  <2>2. msg[c].type = "ok" => store'[c].key = msg[c].key
    BY <1>0, <2>1 DEF GrantInv, GrantedTo
  <2>3. ASSUME msg[c] = m, msg[c].type = "ok" PROVE store'[c] = store'[Srv]
    <3>1. store'[c].key = store[Srv].key /\ store'[c].expires = store[Srv].expires
      BY <2>1, <2>2, <2>3 DEF Token
    <3> QED
      BY <2>1, <2>3, <3>1 DEF Items
  <2>4. Arrived(c) => Arrived(c)'
    BY <2>1, <2>3 DEF Arrived, Storing
  <2>5. EndsWith(r, m) \/ (NoToken(r) /\ Arrived(c)')
    BY <2>1, <2>4 DEF q
  <2> QED
    BY <2>5 DEF r, EndsWith
<1> QED
  BY <1>2, <1>3, <1>4, <1>5

LEMMA AgreeNext ==
  LocalClients = {} /\ Base /\ GrantInv /\ ExpiryInv /\ AgreeInv /\ [Next]_vars => AgreeInv'
<1> SUFFICES ASSUME LocalClients = {}, Base, GrantInv, ExpiryInv, AgreeInv, [Next]_vars,
                    last' # Nobody
             PROVE  AgreeInv'
  BY DEF AgreeInv
<1> USE Constants
<1>0. /\ TypeOK /\ JobInv /\ TypeOK' /\ clashed \subseteq LocalClients \cup {Srv}
      /\ store[Srv] \in Items /\ Srv \in Segments /\ Clients \subseteq Segments
  BY TypeNext DEF Base, GrantInv, TypeOK, Segments
<1>1. CASE Tick \/ UNCHANGED vars
  BY <1>1 DEF Tick, vars, AgreeInv, Arrived, Storing, Queue, memory, history, ends
<1>2. ASSUME NEW d \in Clients, ActsFor(d) PROVE AgreeInv'
  <2>1. /\ clashed' = {}
        /\ \/ job' = job /\ store'[Srv] = store[Srv]
           \/ job.pc = "idle" /\ job'.pc = "clear"
    BY <1>2, ServerItem DEF ExpiryInv
  <2>2. last' = last
    BY <1>2, ConnectionKept DEF ClientStart, ClientEof, ServerEof, ClientDies, history
  <2>3. PICK c \in Clients : c = last /\ conn[c] = "open" /\ peer[c] /\ job.pc # "down"
    BY <2>2 DEF AgreeInv
  <2>4. conn'[c] = conn[c] /\ peer'[c] = peer[c]
    <3>1. CASE c = d
      <4>1. ~ClientStart(d) /\ ~ClientEof(d) /\ ~ServerEof(d)
        BY <2>3, <3>1 DEF ClientStart, ClientEof, ServerEof
      <4>2. ~ClientDies(d)
        BY <2>2, <2>3, <3>1 DEF ClientDies
      <4> QED
        BY <1>2, <4>1, <4>2, ConnectionKept DEF ends
    <3>2. CASE c # d
      BY <1>0, <1>2, <2>3, <3>2, OthersUndisturbed DEF Undisturbed
    <3> QED
      BY <3>1, <3>2
  <2>5. ASSUME job'.pc = "idle"
        PROVE  /\ store'[Srv].use
               /\ \/ EndsWith(Queue(last), Token(store[Srv].key, store[Srv].expires))'
                  \/ (NoToken(Queue(last)) /\ Arrived(last))'
    <3> DEFINE m == Token(store[Srv].key, store[Srv].expires)
    <3>1. /\ job.pc = "idle" /\ store'[Srv] = store[Srv] /\ store[Srv].use
          /\ EndsWith(Queue(c), m) \/ (NoToken(Queue(c)) /\ Arrived(c))
      BY <2>1, <2>2, <2>3, <2>5 DEF AgreeInv
    <3>2. c \in Remote /\ c \notin clashed
      BY <1>0, <2>3 DEF Remote
    <3>3. Kept(c) \/ Took(c) \/ Cleared(c) \/ Filled(c) \/ Expired(c)
      <4>1. CASE c # d
        BY <1>0, <1>2, <2>3, <3>2, <4>1, OthersUndisturbed, UndisturbedIsKept
      <4>2. CASE c = d
        <5>1. ~Emptied(c)
          BY <2>2, <2>3 DEF Emptied, ClientStart, ClientEof, ServerEof, ClientDies
        <5> QED
          BY <1>0, <1>2, <3>2, <4>2, <5>1, ForRemote
      <4> QED
        BY <4>1, <4>2
    <3>4. store'[c] \in Items
      BY <1>0 DEF TypeOK
    <3>5. PICK k : k = m
      OBVIOUS
    <3>6. EndsWith(Queue(c), k)' \/ (NoToken(Queue(c)) /\ Arrived(c))'
      BY <1>0, <3>1, <3>3, <3>4, <3>5, ArrivesOrWaits
    <3>7. Token(store'[Srv].key, store'[Srv].expires) = k /\ last' = c
      BY <2>2, <2>3, <3>1, <3>5
    <3> HIDE DEF m
    <3>8. EndsWith(Queue(last)', k) \/ (NoToken(Queue(last)') /\ Arrived(last)')
      <4>1. Queue(last)' = Queue(c)'
        BY <3>7 DEF Queue
      <4>2. Arrived(last)' = Arrived(c)'
        BY <3>7 DEF Arrived, Storing
      <4> QED
        BY <3>6, <4>1, <4>2 DEF EndsWith, NoToken
    <3> QED
      BY <3>1, <3>7, <3>8
  <2>6. last' \in Clients /\ conn'[last'] = "open" /\ peer'[last'] /\ job'.pc # "down"
    BY <2>1, <2>2, <2>3, <2>4
  <2> QED
    BY <2>5, <2>6 DEF AgreeInv
<1>3. CASE ServerClear \/ ServerFill
  <2>1. job'.pc \in {"fill", "copy"} /\ UNCHANGED <<ends, last>>
    BY <1>0, <1>3 DEF ServerClear, ServerFill, history, TypeOK
  <2> QED
    BY <2>1 DEF AgreeInv, ends
<1>4. CASE ServerCopy
  <2> DEFINE m == Token(store[Srv].key, job.expires)
  <2>1. PICK c \in Clients : c = job.client
    BY <1>0, <1>4, CopyDisturbsOne
  <2>2. /\ m \in Answers /\ m.type = "ok" /\ pipe[c] \in Pipes
        /\ pipe'[c] = Answered(pipe[c], m) /\ job' = NoJob /\ UNCHANGED <<memory, ends>>
    BY <1>0, <1>4, <2>1, CopyDisturbsOne DEF TypeOK
  <2>3. last' = c /\ conn[c] = "open" /\ peer[c] /\ job.pc = "copy"
    BY <1>0, <1>4, <2>1 DEF ServerCopy, JobInv
  <2>4. store[Srv].use /\ store[Srv].expires = job.expires /\ store' = store
    BY <2>2, <2>3 DEF ExpiryInv, memory
  <2> HIDE DEF m
  <2>5. Queue(c)' = Append(Queue(c), m)
    BY <2>2, AnsweredPipe DEF Queue
  <2>6. EndsWith(Append(Queue(c), m), m)
    BY <1>0, <2>2, QueueType, AppendedFacts
  <2>7. m = Token(store'[Srv].key, store'[Srv].expires)
    BY <2>4 DEF m
  <2>8. Queue(last)' = Append(Queue(c), m)
    BY <2>3, <2>5 DEF Queue
  <2>9. EndsWith(Queue(last)', Token(store'[Srv].key, store'[Srv].expires))
    BY <2>6, <2>7, <2>8
  <2> QED
    BY <2>2, <2>3, <2>4, <2>9 DEF AgreeInv, NoJob, ends
<1>5. CASE ServerDies
  BY <1>5 DEF ServerDies
<1>6. CASE ServerStart
  BY <1>6 DEF ServerStart, history, AgreeInv
<1> QED
  BY <1>1, <1>2, <1>3, <1>4, <1>5, <1>6, Steps

\* When everything has come to rest, the client that was granted the last token holds
\* what the server's segment holds, in spite of stored and lost halves, backlog and deaths.
THEOREM LastClientAgrees == Spec => []AgreementAtRest
<1>1. CASE LocalClients = {}
  <2>1. LocalClients = {} /\ Base /\ AgreeInv => AgreementAtRest
    <3> SUFFICES ASSUME LocalClients = {}, Base, AgreeInv, NEW c \in Clients \ LocalClients,
                        last = c, pipe[c] = EmptyPipe, Settled(c), Settled(Srv), store[c].use
                 PROVE  store[c] = store[Srv]
      BY DEF AgreementAtRest
    <3>1. c \in Remote /\ c # Nobody /\ TypeOK
      BY Constants DEF Remote, Base
    <3>2. Queue(c) = <<>>
      BY EmptyPipeFacts DEF Queue
    <3>3. job.pc = "idle"
      BY <3>1 DEF AgreeInv, Settled
    <3>4. Arrived(c)
      BY <3>1, <3>2, <3>3, EmptyFacts DEF AgreeInv
    <3> QED
      BY <3>1, <3>4, SettledRemote DEF Arrived
  <2>2. Init => Base /\ GrantInv /\ MoveInv /\ ExpiryInv /\ AgreeInv
    BY TypeInit, GrantInit, MoveInit, ExpiryInit, AgreeInit
  <2>3. Base /\ GrantInv /\ MoveInv /\ ExpiryInv /\ AgreeInv /\ [Next]_vars =>
          (Base /\ GrantInv /\ MoveInv /\ ExpiryInv /\ AgreeInv)'
    BY <1>1, TypeNext, GrantNext, MoveNext, ExpiryNext, AgreeNext
  <2>4. Base /\ AgreeInv => AgreementAtRest
    BY <1>1, <2>1
  <2> QED
    BY <2>2, <2>3, <2>4, PTL DEF Spec
<1>2. CASE LocalClients # {}
  <2>1. AgreementAtRest
    BY <1>2 DEF AgreementAtRest
  <2> QED
    BY <2>1, PTL
<1> QED
  BY <1>1, <1>2

-----------------------------------------------------------------------------
(* The system delivers tokens as TokenDelivery says.                       *)

\* A response in the handler stands before the ones in the queue.
LEMMA InFront ==
  ASSUME NEW q \in Seq(Answers), NEW m \in Answers
  PROVE  LET r == <<m>> \o q
         IN  /\ r \in Seq(Answers) /\ r # <<>> /\ Head(r) = m /\ Tail(r) = q
             /\ \A a \in Answers : <<m>> \o Append(q, a) = Append(r, a)
             /\ \A e : UpTo(q, e) /\ (m.type = "ok" => m.expires <= e) => UpTo(r, e)
<1> DEFINE s == <<m>>
           r == s \o q
<1>1. s \in Seq(Answers) /\ s # <<>> /\ Head(s) = m /\ Tail(s) = <<>>
  OBVIOUS
<1> HIDE DEF s
<1>2. r \in Seq(Answers)
  BY <1>1, ConcatProperties
<1>3. r # <<>> /\ Head(r) = m /\ Tail(r) = Tail(s) \o q
  BY <1>1, TailOfConcat
<1>4. Tail(r) = q
  BY <1>1, <1>3, ConcatEmptySeq
<1>5. ASSUME NEW a \in Answers PROVE s \o Append(q, a) = Append(r, a)
  <2> DEFINE t == <<a>>
  <2>1. t \in Seq(Answers)
    OBVIOUS
  <2>2. Append(q, a) = q \o t /\ Append(r, a) = r \o t
    BY <1>2, AppendIsConcat
  <2> HIDE DEF t
  <2>3. (s \o q) \o t = s \o (q \o t)
    BY <1>1, <2>1, ConcatAssociative
  <2> QED
    BY <2>2, <2>3
<1> HIDE DEF r
<1>6. ASSUME NEW e, UpTo(q, e), m.type = "ok" => m.expires <= e PROVE UpTo(r, e)
  <2> DEFINE n == Len(r)
  <2>1. /\ n \in Nat /\ Len(q) = n - 1
        /\ \A i \in 1 .. Len(q) : q[i] = r[i + 1]
    BY <1>2, <1>3, <1>4, EmptySeq, LenProperties, HeadTailProperties
  <2>2. r[1] = m
    BY <1>3
  <2> HIDE DEF n
  <2>3. ASSUME NEW i \in 1 .. n, i # 1 PROVE i - 1 \in 1 .. n - 1 /\ (i - 1) + 1 = i
    BY <2>1, <2>3
  <2>4. ASSUME NEW i \in 1 .. n, i # 1 PROVE r[i] = q[i - 1] /\ i - 1 \in 1 .. Len(q)
    BY <2>1, <2>3, <2>4
  <2> QED
    BY <1>6, <2>2, <2>4 DEF UpTo, n
<1> QED
  BY <1>2, <1>3, <1>4, <1>5, <1>6 DEF r, s

LEMMA HeadInFront ==
  ASSUME NEW q \in Seq(Answers), q # <<>>
  PROVE  <<Head(q)>> \o Tail(q) = q
<1>1. Len(q) \in Nat /\ Len(q) > 0
  BY EmptySeq, LenProperties
<1>2. 1 \in 1 .. Len(q) /\ Len(q) \in 1 .. Len(q)
  BY <1>1
<1>3. SubSeq(q, 1, Len(q)) = <<q[1]>> \o SubSeq(q, 1 + 1, Len(q))
  BY <1>2, SubSeqRecursiveFirst
<1>4. SubSeq(q, 1, Len(q)) = q /\ Tail(q) = SubSeq(q, 2, Len(q))
  BY SubSeqFull, TailIsSubSeq
<1>5. Head(q) = q[1] /\ 1 + 1 = 2
  OBVIOUS
<1> QED
  BY <1>3, <1>4, <1>5

\* Whoever is storing a response is connected, and has more than a pong.
BusyInv == \A c \in Clients : Storing(c) => conn[c] = "open" /\ msg[c].type # "pong"

LEMMA BusyInit == Init => BusyInv
BY DEF Init, BusyInv, Storing

LEMMA BusyNext == Base /\ BusyInv /\ [Next]_vars => BusyInv'
<1> SUFFICES ASSUME Base, BusyInv, [Next]_vars, NEW c \in Clients, Storing(c)'
             PROVE  conn'[c] = "open" /\ msg'[c].type # "pong"
  BY DEF BusyInv
<1>0. TypeOK /\ JobInv /\ (Storing(c) => conn[c] = "open" /\ msg[c].type # "pong")
  BY DEF Base, BusyInv
<1>1. CASE Tick \/ ServerClear \/ ServerFill \/ ServerStart \/ UNCHANGED vars
  BY <1>0, <1>1, NobodyDisturbed DEF Undisturbed, Storing
<1>2. ASSUME NEW d \in Clients, ActsFor(d), d # c PROVE conn'[c] = "open" /\ msg'[c].type # "pong"
  BY <1>0, <1>2, OthersUndisturbed DEF Undisturbed, Storing
<1>3. CASE ServerCopy \/ ServerDies
  BY <1>0, <1>3 DEF ServerCopy, ServerDies, ends, Storing
<1>4. CASE ActsFor(c)
  <2>1. CASE ClientStart(c) \/ ClientDies(c) \/ ClientEof(c)
    BY <1>0, <2>1 DEF ClientStart, ClientDies, ClientEof, TypeOK, Storing
  <2>2. ASSUME NEW t \in Timers, SendOnTimer(c, t) \/ SendOnDeleted(c, t) PROVE ~Storing(c)'
    BY <1>0, <2>2 DEF SendOnTimer, SendOnDeleted, TypeOK, Storing
  <2>3. ASSUME NEW n \in 0 .. Len(pipe[c].down), ClientRead(c, n)
        PROVE  conn'[c] = "open" /\ msg'[c].type # "pong"
    BY <1>0, <2>3 DEF ClientRead, ends, TypeOK, Storing
  <2>4. CASE ClientClear(c) \/ ClientFill(c)
    BY <1>0, <2>4 DEF ClientClear, ClientFill, ends, Storing
  <2>5. CASE ClientExpire(c)
    BY <1>0, <2>5 DEF ClientExpire, TypeOK, Storing
  <2>6. ASSUME NEW n \in 0 .. Len(pipe[c].up), ServerRead(c, n)
        PROVE  conn'[c] = "open" /\ msg'[c].type # "pong"
    BY <1>0, <2>6 DEF ServerRead, ends, Storing
  <2>7. CASE ServerEof(c)
    BY <1>0, <2>7 DEF ServerEof, Storing
  <2> QED
    BY <1>4, <2>1, <2>2, <2>3, <2>4, <2>5, <2>6, <2>7
       DEF ActsFor, ClientStep, ClientReads, ServerReads
<1> QED
  BY <1>1, <1>2, <1>3, <1>4, Steps

\* What one step of TokenDelivery may do for client c, and that a step which does it
\* for one client and leaves the others alone is one of its steps.
Advances(c) ==
  \/ Pending(c)' = Pending(c) /\ Holds(c)' = Holds(c)
  \/ /\ Holds(c)' = Holds(c)
     /\ \E a \in Answers :
          /\ a.type = "ok" =>
               UpTo(Pending(c), a.expires) /\ \A t \in Holds(c) : t.expires <= a.expires
          /\ Pending(c)' = Append(Pending(c), a)
  \/ /\ Pending(c) # <<>> /\ Head(Pending(c)).type = "pong"
     /\ Pending(c)' = Tail(Pending(c)) /\ Holds(c)' = Holds(c)
  \/ /\ Pending(c) # <<>> /\ Head(Pending(c)).type # "pong"
     /\ Pending(c)' = Pending(c) /\ Holds(c)' = {}
  \/ /\ Pending(c) # <<>> /\ Head(Pending(c)).type # "pong" /\ Holds(c) = {}
     /\ Pending(c)' = Tail(Pending(c))
     /\ Holds(c)' = {m \in {Head(Pending(c))} : m.type = "ok"}
  \/ Pending(c)' = <<>> /\ Holds(c)' = Holds(c)

Lines == [c \in Clients \ LocalClients |-> Pending(c)]
Tokens == [c \in Clients \ LocalClients |-> Holds(c)]

LEMMA DeliveryStep ==
  ASSUME NEW c \in Remote, Advances(c),
         \A d \in Remote : d # c => Pending(d)' = Pending(d) /\ Holds(d)' = Holds(d)
  PROVE  [Delivery!Next]_<<Lines, Tokens>>
<1>1. /\ Lines' = [Lines EXCEPT ![c] = Pending(c)'] /\ Tokens' = [Tokens EXCEPT ![c] = Holds(c)']
      /\ Lines[c] = Pending(c) /\ Tokens[c] = Holds(c)
  BY DEF Lines, Tokens, Remote
<1>2. /\ Pending(c)' = Pending(c) => Lines' = Lines
      /\ Holds(c)' = Holds(c) => Tokens' = Tokens
  BY DEF Lines, Tokens, Remote
<1>3. c \in Clients \ LocalClients
  BY DEF Remote
<1>4. CASE Pending(c)' = Pending(c) /\ Holds(c)' = Holds(c)
  BY <1>2, <1>4
<1>5. ASSUME NEW a \in Answers, Holds(c)' = Holds(c), Pending(c)' = Append(Pending(c), a),
             a.type = "ok" =>
               UpTo(Pending(c), a.expires) /\ \A t \in Holds(c) : t.expires <= a.expires
      PROVE  Delivery!Next
  <2>1. a.type = "ok" => Delivery!NoOlder(c, a)
    BY <1>1, <1>5 DEF Delivery!NoOlder, UpTo, Lines, Tokens
  <2>2. Lines' = [Lines EXCEPT ![c] = Append(@, a)] /\ Tokens' = Tokens
    BY <1>1, <1>2, <1>5
  <2>3. Delivery!Answer(c, a)
    BY <2>1, <2>2 DEF Delivery!Answer, Lines, Tokens
  <2> QED
    BY <1>3, <2>3 DEF Delivery!Next
<1>6. ASSUME Pending(c) # <<>>, Head(Pending(c)).type = "pong",
             Pending(c)' = Tail(Pending(c)), Holds(c)' = Holds(c)
      PROVE  Delivery!Next
  <2>1. /\ Lines[c] # <<>> /\ Head(Lines[c]).type = "pong"
        /\ Lines' = [Lines EXCEPT ![c] = Tail(@)] /\ Tokens' = Tokens
    BY <1>1, <1>2, <1>6
  <2>2. Delivery!Pass(c)
    BY <2>1 DEF Delivery!Pass, Lines, Tokens
  <2> QED
    BY <1>3, <2>2 DEF Delivery!Next
<1>7. ASSUME Pending(c) # <<>>, Head(Pending(c)).type # "pong",
             Pending(c)' = Pending(c), Holds(c)' = {}
      PROVE  Delivery!Next
  <2>1. /\ Lines[c] # <<>> /\ Head(Lines[c]).type # "pong"
        /\ Tokens' = [Tokens EXCEPT ![c] = {}] /\ Lines' = Lines
    BY <1>1, <1>2, <1>7
  <2>2. Delivery!Clear(c)
    BY <2>1 DEF Delivery!Clear, Lines, Tokens
  <2> QED
    BY <1>3, <2>2 DEF Delivery!Next
<1>8. ASSUME Pending(c) # <<>>, Head(Pending(c)).type # "pong", Holds(c) = {},
             Pending(c)' = Tail(Pending(c)),
             Holds(c)' = {m \in {Head(Pending(c))} : m.type = "ok"}
      PROVE  Delivery!Next
  <2>1. /\ Lines[c] # <<>> /\ Head(Lines[c]).type # "pong" /\ Tokens[c] = {}
        /\ Lines' = [Lines EXCEPT ![c] = Tail(@)]
        /\ Tokens' = [Tokens EXCEPT ![c] = {m \in {Head(Lines[c])} : m.type = "ok"}]
    BY <1>1, <1>8
  <2>2. Delivery!Store(c)
    BY <2>1 DEF Delivery!Store, Lines, Tokens
  <2> QED
    BY <1>3, <2>2 DEF Delivery!Next
<1>9. ASSUME Pending(c)' = <<>>, Holds(c)' = Holds(c) PROVE Delivery!Next
  <2>1. Lines' = [Lines EXCEPT ![c] = <<>>] /\ Tokens' = Tokens
    BY <1>1, <1>2, <1>9
  <2>2. Delivery!Lose(c)
    BY <2>1 DEF Delivery!Lose, Lines, Tokens
  <2> QED
    BY <1>3, <2>2 DEF Delivery!Next
<1> QED
  BY <1>4, <1>5, <1>6, <1>7, <1>8, <1>9 DEF Advances

LEMMA LineOf ==
  ASSUME TypeOK, NEW c \in Clients
  PROVE  /\ Queue(c) \in Seq(Answers) /\ msg[c] \in Answers
         /\ Storing(c) => Pending(c) = <<msg[c]>> \o Queue(c)
         /\ ~Storing(c) => Pending(c) = Queue(c)
<1>1. Queue(c) \in Seq(Answers) /\ msg[c] \in Answers
  BY QueueType DEF TypeOK
<1>2. Pending(c) = (IF Storing(c) THEN <<msg[c]>> ELSE <<>>) \o Queue(c)
  BY DEF Pending, Storing, Queue, Queued
<1> QED
  BY <1>1, <1>2, ConcatEmptySeq

LEMMA NextLineOf ==
  ASSUME TypeOK', NEW c \in Clients
  PROVE  /\ Queue(c)' \in Seq(Answers) /\ msg'[c] \in Answers
         /\ Storing(c)' => Pending(c)' = <<msg'[c]>> \o Queue(c)'
         /\ ~Storing(c)' => Pending(c)' = Queue(c)'
<1>1. pipe'[c] \in Pipes /\ msg'[c] \in Answers
  BY DEF TypeOK
<1>2. Queue(c)' \in Seq(Answers)
  BY <1>1, PipeType DEF Queue
<1>3. Pending(c)' = (IF Storing(c)' THEN <<msg'[c]>> ELSE <<>>) \o Queue(c)'
  BY DEF Pending, Storing, Queue, Queued
<1> QED
  BY <1>1, <1>2, <1>3, ConcatEmptySeq

LEMMA SameLine ==
  ASSUME NEW c \in Remote, Queue(c)' = Queue(c),
         proc'[c] = proc[c], msg'[c] = msg[c], store'[c] = store[c], c \in torn' <=> c \in torn
  PROVE  Pending(c)' = Pending(c) /\ Holds(c)' = Holds(c)
<1>1. Pending(c) = (IF Storing(c) THEN <<msg[c]>> ELSE <<>>) \o Queue(c)
  BY DEF Pending, Storing, Queue, Queued
<1>2. Pending(c)' = (IF Storing(c)' THEN <<msg'[c]>> ELSE <<>>) \o Queue(c)'
  BY DEF Pending, Storing, Queue, Queued
<1>3. Storing(c)' <=> Storing(c)
  BY DEF Storing
<1> QED
  BY <1>1, <1>2, <1>3 DEF Holds

\* Each effect on a remote client is a step of TokenDelivery for it, or none.
LEMMA EffectAdvances ==
  ASSUME TypeOK, TypeOK', BusyInv, BusyInv', GrantInv, NEW c \in Remote,
         Emptied(c) \/ Kept(c) \/ Took(c) \/ Cleared(c) \/ Filled(c) \/ Expired(c)
  PROVE  Advances(c)
<1> DEFINE q == Queue(c)
           r == Queue(c)'
           m == msg[c]
           k == msg'[c]
           line == Pending(c)
           next == Pending(c)'
<1>0. c \in Clients /\ GrantedTo(c)
  BY DEF Remote, GrantInv
<1>1. /\ q \in Seq(Answers) /\ m \in Answers
      /\ Storing(c) => line = <<m>> \o q
      /\ ~Storing(c) => line = q
  BY <1>0, LineOf
<1>2. /\ r \in Seq(Answers) /\ k \in Answers
      /\ Storing(c)' => next = <<k>> \o r
      /\ ~Storing(c)' => next = r
  BY <1>0, NextLineOf
<1>3. Storing(c) => conn[c] = "open" /\ m.type # "pong"
  BY <1>0 DEF BusyInv
<1>4. Storing(c) => line # <<>> /\ Head(line) = m /\ Tail(line) = q
  BY <1>1, InFront
<1>5. CASE Emptied(c)
  <2>1. ~Storing(c)'
    <3>1. CASE ClientStart(c) \/ ClientDies(c)
      BY <1>0, <3>1 DEF ClientStart, ClientDies, TypeOK, Storing
    <3>2. CASE ClientEof(c)
      BY <3>2 DEF ClientEof, Storing
    <3>3. CASE ServerEof(c)
      BY <1>3, <3>3 DEF ServerEof, Storing
    <3> QED
      BY <1>5, <3>1, <3>2, <3>3 DEF Emptied
  <2>2. next = <<>>
    BY <1>2, <1>5, <2>1 DEF Emptied
  <2>3. Holds(c)' = Holds(c)
    BY <1>5 DEF Emptied, Holds
  <2> QED
    BY <2>2, <2>3 DEF Advances
<1>6. CASE Kept(c)
  <2>1. Storing(c)' <=> Storing(c)
    BY <1>6 DEF Kept, Storing
  <2>2. Holds(c)' = Holds(c)
    BY <1>6 DEF Kept, Holds
  <2>3. k = m
    BY <1>6 DEF Kept
  <2>4. CASE r = q
    BY <1>1, <1>2, <2>1, <2>2, <2>3, <2>4 DEF Advances
  <2>5. ASSUME NEW a \in Answers, a.type # "ok", r = Append(q, a) PROVE Advances(c)
    <3>1. Storing(c) => <<m>> \o Append(q, a) = Append(line, a)
      BY <1>1, InFront
    <3>2. next = Append(line, a)
      BY <1>1, <1>2, <2>1, <2>3, <2>5, <3>1
    <3> QED
      BY <2>2, <2>5, <3>2 DEF Advances
  <2> QED
    BY <1>6, <2>4, <2>5 DEF Kept
<1>7. CASE Took(c)
  <2>1. q # <<>> /\ r = Tail(q) /\ k = Head(q) /\ proc[c] = "loop"
    BY <1>7 DEF Took
  <2>2. line = q
    BY <1>1, <2>1 DEF Storing
  <2>3. Holds(c)' = Holds(c)
    BY <1>7 DEF Took, Holds
  <2>4. CASE k.type = "pong"
    <3>1. ~Storing(c)'
      BY <1>7, <2>1, <2>4 DEF Took, Storing
    <3> QED
      BY <1>2, <2>1, <2>2, <2>3, <2>4, <3>1 DEF Advances
  <2>5. CASE k.type # "pong"
    <3>1. Storing(c)'
      BY <1>7, <2>1, <2>5 DEF Took, Storing
    <3>2. next = q
      BY <1>1, <1>2, <2>1, <3>1, HeadInFront
    <3> QED
      BY <2>2, <2>3, <3>2 DEF Advances
  <2> QED
    BY <2>4, <2>5
<1>8. CASE Cleared(c)
  <2>1. Storing(c) /\ Storing(c)' /\ r = q /\ k = m /\ Holds(c)' = {}
    BY <1>8 DEF Cleared, Storing, Holds
  <2>2. next = line
    BY <1>1, <1>2, <2>1
  <2> QED
    BY <1>3, <1>4, <2>1, <2>2 DEF Advances
<1>9. CASE Filled(c)
  <2>1. Storing(c) /\ Storing(c)' /\ r = q /\ k = m /\ Holds(c)' = Holds(c)
    BY <1>9 DEF Filled, Storing, Holds
  <2> QED
    BY <1>1, <1>2, <2>1 DEF Advances
<1>10. CASE Expired(c)
  <2>1. Storing(c) /\ ~Storing(c)' /\ r = q /\ Holds(c) = {}
    BY <1>10 DEF Expired, Storing, Holds
  <2>2. next = Tail(line)
    BY <1>2, <1>4, <2>1
  <2>3. CASE m.type = "ok"
    <3>1. /\ store'[c].use /\ c \notin torn' /\ proc'[c] = "loop"
          /\ store'[c].key = m.key /\ store'[c].expires = m.expires
      BY <1>0, <1>10, <2>3 DEF Expired, GrantedTo
    <3>2. m = Token(m.key, m.expires)
      BY <1>1, <2>3 DEF Answers, Token
    <3>3. Holds(c)' = {m}
      BY <3>1, <3>2 DEF Holds
    <3> QED
      BY <1>3, <1>4, <2>1, <2>2, <2>3, <3>3 DEF Advances
  <2>4. CASE m.type # "ok"
    <3>1. Holds(c)' = {}
      BY <1>10, <2>4 DEF Expired, Holds
    <3> QED
      BY <1>3, <1>4, <2>1, <2>2, <2>4, <3>1 DEF Advances
  <2> QED
    BY <2>3, <2>4
<1> QED
  BY <1>5, <1>6, <1>7, <1>8, <1>9, <1>10

\* The server's token is no older than any the client has before it.
LEMMA CopyAdvances ==
  ASSUME Base, TypeOK', MoveInv, ServerCopy, NEW c \in Remote, job.client = c
  PROVE  Advances(c)
<1> DEFINE a == Token(store[Srv].key, job.expires)
<1>1. TypeOK /\ JobInv /\ c \in Clients
  BY DEF Base, Remote
<1>2. /\ a \in Answers /\ a.type = "ok" /\ a.expires = job.expires
      /\ pipe'[c] = Answered(pipe[c], a) /\ UNCHANGED <<memory, proc, msg>>
  BY <1>1, CopyDisturbsOne
<1> HIDE DEF a
<1>3. Queue(c)' = Append(Queue(c), a)
  BY ZenonT(60), <1>1, <1>2, AnsweredPipe DEF TypeOK, Queue
<1>4. Storing(c)' <=> Storing(c)
  BY <1>2 DEF Storing
<1>5. Holds(c)' = Holds(c)
  BY <1>2 DEF Holds, memory
<1>6. AtMost(c, a.expires)
  BY <1>2 DEF MoveInv, InOrder
<1>7. \A t \in Holds(c) : t.expires <= a.expires
  BY <1>6 DEF Holds, Token, AtMost
<1>8. UpTo(Pending(c), a.expires)
  <2>1. UpTo(Queue(c), a.expires) /\ (msg[c].type = "ok" => msg[c].expires <= a.expires)
    BY <1>6 DEF AtMost
  <2>2. CASE Storing(c)
    <3> PICK q \in Seq(Answers), m \in Answers : q = Queue(c) /\ m = msg[c]
      BY <1>1, LineOf
    <3>1. UpTo(<<m>> \o q, a.expires)
      BY <2>1, InFront
    <3> QED
      BY <1>1, <2>2, <3>1, LineOf
  <2>3. CASE ~Storing(c)
    BY <1>1, <2>1, <2>3, LineOf
  <2> QED
    BY <2>2, <2>3
<1>9. Pending(c)' = Append(Pending(c), a)
  <2>1. Storing(c) => <<msg[c]>> \o Append(Queue(c), a) = Append(Pending(c), a)
    BY <1>1, <1>2, LineOf, InFront
  <2>2. msg'[c] = msg[c]
    BY <1>2
  <2> QED
    BY <1>1, <1>3, <1>4, <2>1, <2>2, LineOf, NextLineOf
<1> QED
  BY <1>2, <1>5, <1>7, <1>8, <1>9 DEF Advances

LEMMA DeliveryNext ==
  Base /\ GrantInv /\ MoveInv /\ BusyInv /\ [Next]_vars /\ Base' /\ BusyInv'
    => [Delivery!Next]_<<Lines, Tokens>>
<1> SUFFICES ASSUME Base, GrantInv, MoveInv, BusyInv, [Next]_vars, Base', BusyInv'
             PROVE  [Delivery!Next]_<<Lines, Tokens>>
  OBVIOUS
<1>0. TypeOK /\ TypeOK' /\ JobInv /\ clashed \subseteq LocalClients \cup {Srv}
  BY DEF Base, GrantInv
<1>1. ASSUME NEW c \in Remote, Undisturbed(c)
      PROVE  Pending(c)' = Pending(c) /\ Holds(c)' = Holds(c)
  BY <1>1, SameLine DEF Undisturbed, Queue
<1>2. ASSUME \A c \in Remote : Pending(c)' = Pending(c) /\ Holds(c)' = Holds(c)
      PROVE  [Delivery!Next]_<<Lines, Tokens>>
  BY <1>2 DEF Lines, Tokens, Remote
<1>3. CASE Tick \/ ServerClear \/ ServerFill \/ ServerStart \/ UNCHANGED vars
  BY <1>0, <1>1, <1>2, <1>3, NobodyDisturbed DEF Remote
<1>4. ASSUME NEW d \in Clients, ActsFor(d) PROVE [Delivery!Next]_<<Lines, Tokens>>
  <2>1. \A c \in Remote : c # d => Pending(c)' = Pending(c) /\ Holds(c)' = Holds(c)
    BY <1>0, <1>1, <1>4, OthersUndisturbed DEF Remote
  <2>2. CASE d \in Remote
    <3>1. d \notin clashed
      BY <1>0, <2>2, Constants DEF Remote
    <3>2. Advances(d)
      BY <1>0, <1>4, <2>2, <3>1, ForRemote, EffectAdvances
    <3> QED
      BY <2>1, <2>2, <3>2, DeliveryStep
  <2>3. CASE d \notin Remote
    BY <1>2, <2>1, <2>3
  <2> QED
    BY <2>2, <2>3
<1>5. CASE ServerCopy
  <2>1. \A c \in Remote : c # job.client => Pending(c)' = Pending(c) /\ Holds(c)' = Holds(c)
    BY <1>0, <1>1, <1>5, CopyDisturbsOne DEF Remote
  <2>2. ASSUME NEW c \in Remote, job.client = c PROVE [Delivery!Next]_<<Lines, Tokens>>
    BY <1>0, <1>5, <2>1, <2>2, CopyAdvances, DeliveryStep
  <2>3. CASE job.client \notin Remote
    BY <1>2, <2>1, <2>3
  <2> QED
    BY <2>2, <2>3
<1>6. CASE ServerDies
  BY <1>0, <1>2, <1>6, DeathOfServer, SameLine DEF Remote
<1> QED
  BY <1>3, <1>4, <1>5, <1>6, Steps

\* Server, connections and handlers implement the delivery of tokens: every step is one
\* of TokenDelivery for one remote client, or changes nothing it can see.
THEOREM TokensAreDelivered == Spec => DeliversTokens
<1> DEFINE Inv == Base /\ GrantInv /\ MoveInv /\ BusyInv
<1>1. Init => Inv
  BY TypeInit, GrantInit, MoveInit, BusyInit
<1>2. Inv /\ [Next]_vars => Inv'
  BY TypeNext, GrantNext, MoveNext, BusyNext
<1>3. Init => Delivery!Init
  <2> SUFFICES ASSUME Init PROVE Delivery!Init
    OBVIOUS
  <2>1. ASSUME NEW c \in Remote PROVE Pending(c) = <<>> /\ Holds(c) = {}
    <3>1. ~Storing(c) /\ Queue(c) = <<>>
      BY <2>1, EmptyPipeFacts DEF Init, Storing, Queue, Remote
    <3>2. Pending(c) = <<>>
      BY <2>1, <3>1, TypeInit, LineOf DEF Base, Remote
    <3>3. ~store[c].use
      BY <2>1, Constants DEF Init, Blank, Remote
    <3> QED
      BY <3>2, <3>3 DEF Holds
  <2> QED
    BY <2>1 DEF Delivery!Init, Remote
<1>4. Inv /\ [Next]_vars /\ Inv' => [Delivery!Next]_<<Lines, Tokens>>
  BY DeliveryNext
<1> HIDE DEF Inv
<1> QED
  BY <1>1, <1>2, <1>3, <1>4, PTL DEF Spec, DeliversTokens, Delivery!Spec, Lines, Tokens

=============================================================================
