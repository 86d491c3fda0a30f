------------------------------ MODULE StpSystem ------------------------------
(***************************************************************************)
(* Server and clients together: the clients' timers, both directions of    *)
(* every connection with its one packet per read event, the server's       *)
(* handler and the clients' response handlers down to their stores into    *)
(* shared memory, connections that end under their users, and processes    *)
(* that die and are started again.                                         *)
(*                                                                         *)
(* A request of this client carries no token, so every client negotiates   *)
(* index 0 of the server's segment.  A client on the server's host has     *)
(* attached that very segment (same path, group 0) and stores what it is   *)
(* answered into the same item.                                            *)
(*                                                                         *)
(* StpServer has the handler's database and start in detail, NetConnection *)
(* the bytes of a packet.  A name that ends in Mutant is a plausible bug;  *)
(* no behaviour uses it.                                                   *)
(***************************************************************************)
EXTENDS Integers, Sequences

CONSTANTS
  Clients,
  LocalClients,    \* those on the server's host
  Srv,             \* the server process, and its segment
  Nobody,
  NegotiatePeriod, \* 10 seconds in the client's main
  PingPeriod,      \* 30 seconds
  TokenExpires,    \* config token_expires of the server
  MaxTime,         \* bound on the clock
  MaxDeaths        \* bound on the processes that die or are killed

ASSUME SystemAssumption ==
  /\ LocalClients \subseteq Clients
  /\ Srv \notin Clients
  /\ Nobody \notin Clients
  /\ NegotiatePeriod \in Nat \ {0}
  /\ PingPeriod \in Nat \ {0}
  /\ TokenExpires \in Nat
  /\ MaxTime \in Nat
  /\ MaxDeaths \in Nat

Processes == Clients \cup {Srv}
Segments == (Clients \ LocalClients) \cup {Srv}
SegmentOf(c) == IF c \in LocalClients THEN Srv ELSE c

\* A key is the second it was drawn in.  NoKey is a zeroed one; a mixed one has
\* been written by two processes at once.
NoKey == -1
Mixed == -2
Keys == {NoKey, Mixed} \cup 0 .. MaxTime

\* The item at index 0: key, use_crypto and expires.
Blank == [key |-> NoKey, use |-> FALSE, expires |-> 0]
Expiries == {-1, 0} \cup 0 .. MaxTime + TokenExpires
Items == [key : Keys, use : BOOLEAN, expires : Expiries]

Timers == {"negotiate", "ping"}

\* What the server answers: a pong, an error, or SR_OK with a token.
Pong == [type |-> "pong", key |-> NoKey, expires |-> 0]
Refusal == [type |-> "refused", key |-> NoKey, expires |-> 0]
Token(k, e) == [type |-> "ok", key |-> k, expires |-> e]
Answers == [type : {"pong", "refused", "ok"}, key : Keys, expires : Expiries]

\* The packets of a connection: on their way, and in the input buffers.
Pipes == [up : Seq(Timers), atServer : Seq(Timers), down : Seq(Answers), atClient : Seq(Answers)]

NoJob == [pc |-> "idle", client |-> Nobody, expires |-> 0]
EmptyPipe == [up |-> <<>>, atServer |-> <<>>, down |-> <<>>, atClient |-> <<>>]

VARIABLES
  now,      \* time(NULL) of every host
  store,    \* the item in each segment
  job,      \* the server: "down", or where its handler is, and for whom
  proc,     \* each client: "down", "crashed", or where its handler is
  conn,     \* what conn_ of the client is: nothing, a connection, a deleted one
  peer,     \* whether the server holds the other end of the connection
  pipe,     \* packets on the way and in the input buffers
  due,      \* timers of each client that have run out
  msg,      \* the response in the client's handler
  writing,  \* processes that have zeroed a key and not drawn or copied it yet
  clashed,  \* those another process has joined in that
  deaths,   \* deaths so far
  asked,    \* history: packets sent on the connection of each client
  answered, \* history: packets taken from it
  grants,   \* history: what the server has answered with SR_OK to whom
  last,     \* history: the client of the last of them, while its connection lasts
  torn      \* history: segments in which a death has left half a store

ends == <<conn, peer>>
memory == <<store, writing, clashed, torn>>
counts == <<asked, answered>>
history == <<grants, last>>
vars == <<now, memory, job, proc, ends, pipe, due, msg, deaths, counts, history>>

Init ==
  /\ now = 0
  /\ store = [s \in Segments |-> Blank]
  /\ job = NoJob
  /\ proc = [c \in Clients |-> "down"]
  /\ conn = [c \in Clients |-> "none"]
  /\ peer = [c \in Clients |-> FALSE]
  /\ pipe = [c \in Clients |-> EmptyPipe]
  /\ due = [c \in Clients |-> {}]
  /\ msg = [c \in Clients |-> Pong]
  /\ writing = {}
  /\ clashed = {}
  /\ deaths = 0
  /\ asked = [c \in Clients |-> 0]
  /\ answered = [c \in Clients |-> 0]
  /\ grants = {}
  /\ last = Nobody
  /\ torn = {}

-----------------------------------------------------------------------------
(* Connections: one read event brings some packets and takes one.          *)

\* The event empties the input buffer.
Taken_Mutant(all) == <<>>

\* What stays in the input buffer after a read event.
Taken(all) == Tail(all)

\* The input buffer with the n packets a read event brings, and the connection
\* after it, on the server and on a client.
ServerInput(c, n) == pipe[c].atServer \o SubSeq(pipe[c].up, 1, n)
AfterServerRead(c, n) ==
  [pipe[c] EXCEPT !.up = SubSeq(@, n + 1, Len(@)), !.atServer = Taken(ServerInput(c, n))]

ClientInput(c, n) == pipe[c].atClient \o SubSeq(pipe[c].down, 1, n)
AfterClientRead(c, n) ==
  [pipe[c] EXCEPT !.down = SubSeq(@, n + 1, Len(@)), !.atClient = Taken(ClientInput(c, n))]

\* The answer goes to the head of the output buffer.
Answered_Mutant(p, m) == [p EXCEPT !.down = <<m>> \o @]

\* SendNetMessage of the server.
Answered(p, m) == [p EXCEPT !.down = Append(@, m)]

-----------------------------------------------------------------------------
(* Stores into shared memory.                                              *)

\* Process x begins to write the key of segment s: it zeroes it.
ClearKey(x, s) ==
  LET others == {y \in writing : y = Srv \/ SegmentOf(y) = s}
      here == IF s = Srv THEN others ELSE {}
  IN  /\ store' = [store EXCEPT ![s].key = NoKey]
      /\ writing' = writing \cup {x}
      /\ clashed' = IF here = {} THEN clashed ELSE clashed \cup here \cup {x}

\* It ends: its own key, unless another process has written at the same time.
FillKey(x, s, k) ==
  /\ \E written \in IF x \in clashed THEN {k, store[s].key, Mixed} ELSE {k} :
       store' = [store EXCEPT ![s].key = written]
  /\ writing' = writing \ {x}
  /\ clashed' = clashed \ {x}

-----------------------------------------------------------------------------
(* The client.                                                             *)

\* The timers run on after they have run out once more.
Tick ==
  /\ now < MaxTime
  /\ now' = now + 1
  /\ due' = [c \in Clients |->
               IF proc[c] \in {"down", "crashed"} THEN {}
               ELSE due[c] \cup {t \in Timers :
                      now' % (IF t = "ping" THEN PingPeriod ELSE NegotiatePeriod) = 0}]
  /\ UNCHANGED <<memory, job, proc, ends, pipe, msg, deaths, counts, history>>

\* main: the timers are added, Init attaches the segment, StartRun connects.  The
\* connection is refused later, by an ERROR event, when no server listens.
ClientStart(c) ==
  /\ proc[c] \in {"down", "crashed"}
  /\ ~peer[c]
  /\ proc' = [proc EXCEPT ![c] = "loop"]
  /\ conn' = [conn EXCEPT ![c] = "open"]
  /\ peer' = [peer EXCEPT ![c] = job.pc # "down"]
  /\ pipe' = [pipe EXCEPT ![c] = EmptyPipe]
  /\ due' = [due EXCEPT ![c] = {}]
  /\ asked' = [asked EXCEPT ![c] = 0]
  /\ answered' = [answered EXCEPT ![c] = 0]
  /\ UNCHANGED <<now, memory, job, msg, deaths, history>>

\* Both timers send whatever became of the packets before.
SendOnTimer(c, t) ==
  /\ proc[c] = "loop"
  /\ conn[c] = "open"
  /\ t \in due[c]
  /\ due' = [due EXCEPT ![c] = @ \ {t}]
  /\ pipe' = [pipe EXCEPT ![c].up = IF peer[c] THEN Append(@, t) ELSE @]
  /\ asked' = [asked EXCEPT ![c] = IF peer[c] THEN @ + 1 ELSE @]
  /\ UNCHANGED <<now, memory, job, proc, ends, msg, deaths, answered, history>>

\* The timers outlive the connection: conn_ is a deleted object whose buffers are
\* freed, too.  Writing to it goes unnoticed, or ends the process.
SendOnDeleted(c, t) ==
  /\ proc[c] = "loop"
  /\ conn[c] = "deleted"
  /\ t \in due[c]
  /\ due' = [due EXCEPT ![c] = @ \ {t}]
  /\ \E after \in {"loop", "crashed"} : proc' = [proc EXCEPT ![c] = after]
  /\ UNCHANGED <<now, memory, job, ends, pipe, msg, deaths, counts, history>>

\* HandleReadEvent: a pong needs nothing, a response is stored.
ClientRead(c, n) ==
  /\ proc[c] = "loop"
  /\ conn[c] = "open"
  /\ pipe[c].down # <<>>
  /\ ClientInput(c, n) # <<>>
  /\ pipe' = [pipe EXCEPT ![c] = AfterClientRead(c, n)]
  /\ answered' = [answered EXCEPT ![c] = @ + 1]
  /\ msg' = [msg EXCEPT ![c] = Head(ClientInput(c, n))]
  /\ proc' = [proc EXCEPT ![c] = IF msg'[c].type = "pong" THEN "loop" ELSE "clear"]
  /\ UNCHANGED <<now, memory, job, ends, due, deaths, asked, history>>

\* A renewal keeps the key the item has.
ClientClear_Mutant(c) ==
  /\ proc[c] = "clear"
  /\ proc' = [proc EXCEPT ![c] = "expire"]
  /\ UNCHANGED <<now, memory, job, ends, pipe, due, msg, deaths, counts, history>>

\* UpdateCryptoShmInfo zeroes the key, ...
ClientClear(c) ==
  /\ proc[c] = "clear"
  /\ IF msg[c].type = "ok"
       THEN /\ ClearKey(c, SegmentOf(c))
            /\ proc' = [proc EXCEPT ![c] = "fill"]
       ELSE /\ store' = [store EXCEPT ![SegmentOf(c)].key = NoKey]
            /\ proc' = [proc EXCEPT ![c] = "expire"]
            /\ UNCHANGED <<writing, clashed>>
  /\ UNCHANGED <<now, job, ends, pipe, due, msg, deaths, counts, history, torn>>

\* ... copies the one of the token, ...
ClientFill(c) ==
  /\ proc[c] = "fill"
  /\ FillKey(c, SegmentOf(c), msg[c].key)
  /\ proc' = [proc EXCEPT ![c] = "expire"]
  /\ UNCHANGED <<now, job, ends, pipe, due, msg, deaths, counts, history, torn>>

\* The expiry is left as it was.
ClientExpire_Mutant(c) ==
  LET ok == msg[c].type = "ok" IN
  /\ proc[c] = "expire"
  /\ store' = [store EXCEPT ![SegmentOf(c)] = [@ EXCEPT !.use = ok]]
  /\ torn' = torn \ {SegmentOf(c)}
  /\ proc' = [proc EXCEPT ![c] = "loop"]
  /\ UNCHANGED <<now, writing, clashed, job, ends, pipe, due, msg, deaths, counts, history>>

\* ... and stores use_crypto and expires last.
ClientExpire(c) ==
  LET ok == msg[c].type = "ok" IN
  /\ proc[c] = "expire"
  /\ store' = [store EXCEPT ![SegmentOf(c)] =
                 [@ EXCEPT !.use = ok, !.expires = IF ok THEN msg[c].expires ELSE -1]]
  /\ torn' = torn \ {SegmentOf(c)}
  /\ proc' = [proc EXCEPT ![c] = "loop"]
  /\ UNCHANGED <<now, writing, clashed, job, ends, pipe, due, msg, deaths, counts, history>>

\* EOF or ERROR: the buffers are freed and the Connection is deleted; conn_ stays,
\* the timers stay, and nothing connects again.
ClientEof(c) ==
  /\ proc[c] = "loop"
  /\ conn[c] = "open"
  /\ ~peer[c]
  /\ conn' = [conn EXCEPT ![c] = "deleted"]
  /\ pipe' = [pipe EXCEPT ![c] = EmptyPipe]
  /\ UNCHANGED <<now, memory, job, proc, peer, due, msg, deaths, counts, history>>

Alive(c) == proc[c] \notin {"down", "crashed"}

ClientDies(c) ==
  /\ Alive(c)
  /\ deaths < MaxDeaths
  /\ deaths' = deaths + 1
  /\ proc' = [proc EXCEPT ![c] = "down"]
  /\ conn' = [conn EXCEPT ![c] = "none"]
  /\ due' = [due EXCEPT ![c] = {}]
  /\ pipe' = [pipe EXCEPT ![c].down = <<>>, ![c].atClient = <<>>]
  /\ writing' = writing \ {c}
  /\ clashed' = clashed \ {c}
  /\ torn' = IF proc[c] \in {"fill", "expire"} THEN torn \cup {SegmentOf(c)} ELSE torn
  /\ last' = IF last = c THEN Nobody ELSE last
  /\ UNCHANGED <<now, store, job, peer, msg, counts, grants>>

-----------------------------------------------------------------------------
(* The server.                                                             *)

\* Two packets have to be there.
ServerRead_Mutant(c, n) ==
  /\ job.pc = "idle"
  /\ peer[c]
  /\ Len(ServerInput(c, n)) > 1
  /\ \/ /\ Head(ServerInput(c, n)) = "ping"
        /\ pipe' = [pipe EXCEPT ![c] = Answered(AfterServerRead(c, n), Pong)]
        /\ UNCHANGED <<store, job>>
     \/ /\ Head(ServerInput(c, n)) = "negotiate"
        /\ pipe' = [pipe EXCEPT ![c] = Answered(AfterServerRead(c, n), Refusal)]
        /\ UNCHANGED <<store, job>>
  /\ UNCHANGED <<now, writing, clashed, torn, proc, ends, due, msg, deaths, counts, history>>

\* HandleReadEvent: a ping is answered, a request refused (guid or database), or
\* the expiry of the item is stored.
ServerRead(c, n) ==
  /\ job.pc = "idle"
  /\ peer[c]
  /\ pipe[c].up # <<>>
  /\ ServerInput(c, n) # <<>>
  /\ \/ /\ Head(ServerInput(c, n)) = "ping"
        /\ pipe' = [pipe EXCEPT ![c] = Answered(AfterServerRead(c, n), Pong)]
        /\ UNCHANGED <<store, job>>
     \/ /\ Head(ServerInput(c, n)) = "negotiate"
        /\ pipe' = [pipe EXCEPT ![c] = Answered(AfterServerRead(c, n), Refusal)]
        /\ UNCHANGED <<store, job>>
     \/ /\ Head(ServerInput(c, n)) = "negotiate"
        /\ pipe' = [pipe EXCEPT ![c] = AfterServerRead(c, n)]
        /\ store' = [store EXCEPT ![Srv] = [@ EXCEPT !.use = TRUE, !.expires = now + TokenExpires]]
        /\ job' = [pc |-> "clear", client |-> c, expires |-> now + TokenExpires]
  /\ UNCHANGED <<now, writing, clashed, torn, proc, ends, due, msg, deaths, counts, history>>

\* GenerateRandomKey zeroes the key and draws a new one.
ServerClear ==
  /\ job.pc = "clear"
  /\ ClearKey(Srv, Srv)
  /\ job' = [job EXCEPT !.pc = "fill"]
  /\ UNCHANGED <<now, proc, ends, pipe, due, msg, deaths, counts, history, torn>>

ServerFill ==
  /\ job.pc = "fill"
  /\ FillKey(Srv, Srv, now)
  /\ torn' = torn \ {Srv}
  /\ job' = [job EXCEPT !.pc = "copy"]
  /\ UNCHANGED <<now, proc, ends, pipe, due, msg, deaths, counts, history>>

\* send_buf_ is sent on another connection, too.
ServerCopy_Mutant ==
  LET k == store[Srv].key
      c == job.client
  IN  /\ job.pc = "copy"
      /\ pipe' = [d \in Clients |-> IF peer[d] THEN Answered(pipe[d], Token(k, job.expires))
                                               ELSE pipe[d]]
      /\ grants' = grants \cup {<<c, k, job.expires>>}
      /\ last' = c
      /\ job' = NoJob
      /\ UNCHANGED <<now, memory, proc, ends, due, msg, deaths, counts>>

\* The key is read back from the segment, recorded, and sent.
ServerCopy ==
  LET k == store[Srv].key
      c == job.client
  IN  /\ job.pc = "copy"
      /\ pipe' = [pipe EXCEPT ![c] = Answered(@, Token(k, job.expires))]
      /\ grants' = grants \cup {<<c, k, job.expires>>}
      /\ last' = IF conn[c] = "open" THEN c ELSE Nobody
      /\ job' = NoJob
      /\ UNCHANGED <<now, memory, proc, ends, due, msg, deaths, counts>>

\* The client is gone: bufferevent and Connection are freed, with what they hold.
ServerEof(c) ==
  /\ job.pc = "idle"
  /\ peer[c]
  /\ conn[c] # "open"
  /\ peer' = [peer EXCEPT ![c] = FALSE]
  /\ pipe' = [pipe EXCEPT ![c] = EmptyPipe]
  /\ UNCHANGED <<now, memory, job, proc, conn, due, msg, deaths, counts, history>>

\* SIGUSR2 or a crash; what is on its way to the clients still arrives, or not.
ServerDies ==
  /\ job.pc # "down"
  /\ deaths < MaxDeaths
  /\ deaths' = deaths + 1
  /\ job' = [NoJob EXCEPT !.pc = "down"]
  /\ peer' = [c \in Clients |-> FALSE]
  /\ pipe' = [c \in Clients |-> [pipe[c] EXCEPT !.up = <<>>, !.atServer = <<>>]]
  /\ writing' = writing \ {Srv}
  /\ clashed' = clashed \ {Srv}
  /\ torn' = IF job.pc \in {"clear", "fill"} THEN torn \cup {Srv} ELSE torn
  /\ last' = Nobody
  /\ UNCHANGED <<now, store, proc, conn, due, msg, counts, grants>>

\* The segment is attached again, as it is.
ServerStart ==
  /\ job.pc = "down"
  /\ job' = NoJob
  /\ UNCHANGED <<now, memory, proc, ends, pipe, due, msg, deaths, counts, history>>

-----------------------------------------------------------------------------
ClientStep(c) ==
  \/ \E t \in Timers : SendOnTimer(c, t) \/ SendOnDeleted(c, t)
  \/ ClientClear(c) \/ ClientFill(c) \/ ClientExpire(c) \/ ClientEof(c)

ClientReads(c) == \E n \in 0 .. Len(pipe[c].down) : ClientRead(c, n)
ServerReads(c) == \E n \in 0 .. Len(pipe[c].up) : ServerRead(c, n)
HandlerStep == ServerClear \/ ServerFill \/ ServerCopy

Next ==
  \/ Tick
  \/ \E c \in Clients :
       \/ ClientStart(c) \/ ClientStep(c) \/ ClientReads(c) \/ ClientDies(c)
       \/ ServerReads(c) \/ ServerEof(c)
  \/ HandlerStep
  \/ ServerDies
  \/ ServerStart

Spec == Init /\ [][Next]_vars

\* The event loops run and TCP delivers.  Nothing starts or kills a process, and
\* the clock stops at its bound.
FairSpec ==
  /\ Spec
  /\ WF_vars(HandlerStep)
  /\ \A c \in Clients :
       WF_vars(ClientStep(c)) /\ WF_vars(ClientReads(c)) /\ WF_vars(ServerReads(c))

-----------------------------------------------------------------------------
\* Properties.

\* Items, packets and handlers have their types.
TypeOK ==
  /\ now \in 0 .. MaxTime
  /\ store \in [Segments -> Items]
  /\ job \in [pc : {"down", "idle", "clear", "fill", "copy"},
              client : Clients \cup {Nobody}, expires : Expiries]
  /\ proc \in [Clients -> {"down", "crashed", "loop", "clear", "fill", "expire"}]
  /\ conn \in [Clients -> {"none", "open", "deleted"}]
  /\ peer \in [Clients -> BOOLEAN]
  /\ pipe \in [Clients -> Pipes]
  /\ due \in [Clients -> SUBSET Timers]
  /\ msg \in [Clients -> Answers]
  /\ writing \subseteq Processes /\ clashed \subseteq writing
  /\ deaths \in 0 .. MaxDeaths
  /\ asked \in [Clients -> Nat]
  /\ answered \in [Clients -> Nat]
  /\ grants \subseteq Clients \X Keys \X Expiries
  /\ last \in Clients \cup {Nobody}
  /\ torn \subseteq Segments

\* Nobody is in the middle of a store, or died in it.
Settled(s) ==
  /\ s \notin torn
  /\ s # Srv \/ job.pc \in {"down", "idle"}
  /\ \A c \in Clients : SegmentOf(c) = s => proc[c] \notin {"clear", "fill", "expire"}

\* What a client keeps as its token is one the server has granted to this client,
\* key and expiry from the same answer, through every backlog and every death.
TokenWasGranted ==
  \A c \in Clients \ LocalClients :
    store[c].use /\ Settled(c) => <<c, store[c].key, store[c].expires>> \in grants

\* No item in use claims to be valid longer than TokenExpires behind its key.
ExpiryOfItsKey ==
  \A s \in Segments : store[s].use /\ Settled(s) => store[s].expires <= store[s].key + TokenExpires

\* While both ends of a connection hold it, every packet sent on it is on its way, in
\* one of the two input buffers, with the server's handler, or has been answered.
Conservation ==
  \A c \in Clients :
    conn[c] = "open" /\ peer[c] =>
      asked[c] = answered[c]
                 + Len(pipe[c].up) + Len(pipe[c].atServer)
                 + Len(pipe[c].down) + Len(pipe[c].atClient)
                 + (IF job.client = c THEN 1 ELSE 0)

\* A late answer never replaces a newer one: a remote client's expiry goes forward,
\* except to the -1 of a refusal.
TokensMoveForward ==
  [][\A c \in Clients \ LocalClients :
       store'[c].expires >= store[c].expires \/ store'[c].expires = -1]_vars

\* All remote clients negotiate the same item.  When everything has come to rest, the
\* client that was granted the last token holds what the server's segment holds.
AgreementAtRest ==
  \A c \in Clients \ LocalClients :
    /\ last = c /\ LocalClients = {}
    /\ conn[c] = "open" /\ peer[c] /\ pipe[c] = EmptyPipe
    /\ Settled(c) /\ Settled(Srv) /\ store[c].use
    => store[c] = store[Srv]

\* What a remote client has not finished with: the response in its handler, the input
\* buffer, and what is on its way; and the token in its item, when it is whole.
Pending(c) ==
  (IF proc[c] \in {"clear", "fill", "expire"} THEN <<msg[c]>> ELSE <<>>)
    \o (pipe[c].atClient \o pipe[c].down)
Holds(c) ==
  IF store[c].use /\ c \notin torn /\ proc[c] \notin {"fill", "expire"}
    THEN {Token(store[c].key, store[c].expires)} ELSE {}

Delivery == INSTANCE TokenDelivery WITH
  Receivers <- Clients \ LocalClients,
  queue <- [c \in Clients \ LocalClients |-> Pending(c)],
  held <- [c \in Clients \ LocalClients |-> Holds(c)]

\* Through backlogs, coalesced packets, other clients and deaths, a remote client takes
\* the server's answers in order and keeps one granted token whole, or none.
DeliversTokens == Delivery!Spec

\* With a backlog, too, a client that has asked is answered once at least, unless its
\* connection ends.
AnsweredAtLast ==
  \A c \in Clients :
    (conn[c] = "open" /\ asked[c] > 0) ~> (answered[c] > 0 \/ conn[c] # "open")
=============================================================================
