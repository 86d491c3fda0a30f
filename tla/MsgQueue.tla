------------------------------ MODULE MsgQueue ------------------------------
(***************************************************************************)
(* What one direction of a Connection promises its user: the packets given *)
(* to SendNetMessage are handed to HandleReadEvent whole, once and in      *)
(* order, until the connection is closed; then the rest is lost.           *)
(***************************************************************************)
EXTENDS Sequences

CONSTANT Msgs

VARIABLES queue,     \* packets sent and not handed over yet
          delivered, \* packets handed over
          open       \* the connection lives

Init == queue = <<>> /\ delivered = <<>> /\ open = TRUE

Send(m) ==
  /\ open
  /\ queue' = Append(queue, m)
  /\ UNCHANGED <<delivered, open>>

HandOver ==
  /\ open
  /\ queue # <<>>
  /\ delivered' = Append(delivered, Head(queue))
  /\ queue' = Tail(queue)
  /\ UNCHANGED open

Close ==
  /\ open
  /\ open' = FALSE
  /\ UNCHANGED <<queue, delivered>>

Next == (\E m \in Msgs : Send(m)) \/ HandOver \/ Close

Spec == Init /\ [][Next]_<<queue, delivered, open>>
=============================================================================
