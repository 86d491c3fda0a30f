---------------------------- MODULE TokenDelivery ----------------------------
(***************************************************************************)
(* What server, connection and response handler together promise a client: *)
(* what the server answers is taken in the order it was answered in, a     *)
(* token replaces the one the client keeps as a whole, and no token        *)
(* expires before one that was granted earlier.  While one replaces the    *)
(* other the client has none, and the end of a connection, or of the       *)
(* client, loses what was not stored yet.                                  *)
(***************************************************************************)
EXTENDS Integers, Sequences

CONSTANTS Receivers, Answers

VARIABLES
  queue, \* the answers a client has not finished with, oldest first
  held   \* the token it keeps, if any: a set of at most one

Init ==
  /\ queue = [c \in Receivers |-> <<>>]
  /\ held = [c \in Receivers |-> {}]

\* No token that was granted to c, and that is not lost, expires later.
NoOlder(c, a) ==
  /\ \A i \in 1 .. Len(queue[c]) : queue[c][i].type = "ok" => queue[c][i].expires <= a.expires
  /\ \A t \in held[c] : t.expires <= a.expires

Answer(c, a) ==
  /\ a.type = "ok" => NoOlder(c, a)
  /\ queue' = [queue EXCEPT ![c] = Append(@, a)]
  /\ UNCHANGED held

\* A pong changes nothing.
Pass(c) ==
  /\ queue[c] # <<>>
  /\ Head(queue[c]).type = "pong"
  /\ queue' = [queue EXCEPT ![c] = Tail(@)]
  /\ UNCHANGED held

\* A response takes the old token away, and then puts the new one in its place.
Clear(c) ==
  /\ queue[c] # <<>>
  /\ Head(queue[c]).type # "pong"
  /\ held' = [held EXCEPT ![c] = {}]
  /\ UNCHANGED queue

Store(c) ==
  /\ queue[c] # <<>>
  /\ Head(queue[c]).type # "pong"
  /\ held[c] = {}
  /\ held' = [held EXCEPT ![c] = {m \in {Head(queue[c])} : m.type = "ok"}]
  /\ queue' = [queue EXCEPT ![c] = Tail(@)]

Lose(c) ==
  /\ queue' = [queue EXCEPT ![c] = <<>>]
  /\ UNCHANGED held

Next ==
  \E c \in Receivers :
    \/ \E a \in Answers : Answer(c, a)
    \/ Pass(c) \/ Clear(c) \/ Store(c) \/ Lose(c)

Spec == Init /\ [][Next]_<<queue, held>>
=============================================================================
