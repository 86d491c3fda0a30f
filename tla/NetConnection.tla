---------------------------- MODULE NetConnection ----------------------------
(***************************************************************************)
(* One direction of a TCP connection between two stputil Connections:      *)
(* SendNetMessage puts a header with the length in front of each packet,   *)
(* TCP delivers the bytes in pieces of any size, and each libevent read    *)
(* event runs RecvNetMessage, which takes at most one packet out of the    *)
(* input evbuffer.                                                         *)
(*                                                                         *)
(* The byte stream is described by offsets: packet k ends at offset        *)
(* ends[k], and the first `received' bytes have reached the input buffer.  *)
(* Reading, parsing and dispatching are one callback of one thread, hence  *)
(* one step; read_buf_list_ gets its packet and loses it in that step.     *)
(*                                                                         *)
(* A name that ends in Mutant is a plausible bug; no behaviour uses it.    *)
(***************************************************************************)
EXTENDS Integers, Sequences

CONSTANTS
  Msgs,     \* packets
  BodyLen,  \* length of each packet
  HeadSize, \* sizeof(NetHeadPacket)
  MaxSent   \* bound on the number of packets sent

ASSUME NetAssumption ==
  /\ BodyLen \in [Msgs -> Nat]
  /\ HeadSize \in Nat \ {0}
  /\ MaxSent \in Nat

VARIABLES
  sent,      \* packets given to SendNetMessage
  ends,      \* ends[k]: offset behind packet k in the byte stream
  received,  \* bytes that have reached the receiver's input buffer, in all
  taken,     \* packets RecvNetMessage has taken out of the input buffer
  delivered, \* packets HandleReadEvent has got
  open       \* no EOF and no error so far

vars == <<sent, ends, received, taken, delivered, open>>

EndOf(k) == IF k = 0 THEN 0 ELSE ends[k]
Written == EndOf(Len(sent))

Init ==
  /\ sent = <<>>
  /\ ends = <<>>
  /\ received = 0
  /\ taken = 0
  /\ delivered = <<>>
  /\ open = TRUE

\* SendNetMessage: header and body go to the output buffer one after the other.
SendNetMessage(m) ==
  /\ open
  /\ Len(sent) < MaxSent
  /\ sent' = Append(sent, m)
  /\ ends' = Append(ends, Written + HeadSize + BodyLen[m])
  /\ UNCHANGED <<received, taken, delivered, open>>

\* The length tests of RecvNetMessage on a buffer of n bytes whose first packet
\* is m.  The first mutant forgets the header, the second is off by one.
Whole_HeadMutant(n, m) == n >= HeadSize /\ n >= BodyLen[m]
Whole_StrictMutant(n, m) == n > HeadSize + BodyLen[m]
Whole(n, m) == n >= HeadSize /\ n >= HeadSize + BodyLen[m]

\* GetNetMessage answers the front of read_buf_list_ and does not pop it.
ReadEvent_FrontMutant(upto) ==
  /\ open
  /\ received < upto /\ upto <= Written
  /\ received' = upto
  /\ IF Whole(upto - EndOf(taken), sent[taken + 1])
       THEN taken' = taken + 1 /\ delivered' = Append(delivered, sent[1])
       ELSE UNCHANGED <<taken, delivered>>
  /\ UNCHANGED <<sent, ends, open>>

\* A read event: bytes up to an offset arrive, ReadEventCallback runs
\* ProcessReadEvent, and HandleReadEvent gets the first packet if it is whole.
ReadEvent(upto) ==
  /\ open
  /\ received < upto /\ upto <= Written
  /\ received' = upto
  /\ IF Whole(upto - EndOf(taken), sent[taken + 1])
       THEN taken' = taken + 1 /\ delivered' = Append(delivered, sent[taken + 1])
       ELSE UNCHANGED <<taken, delivered>>
  /\ UNCHANGED <<sent, ends, open>>

\* BufferEventCallback with EOF or ERROR frees the bufferevent and its buffers.
Close ==
  /\ open
  /\ open' = FALSE
  /\ UNCHANGED <<sent, ends, received, taken, delivered>>

Read == \E upto \in received + 1 .. Written : ReadEvent(upto)

Next == (\E m \in Msgs : SendNetMessage(m)) \/ Read \/ Close

Spec == Init /\ [][Next]_vars

\* TCP delivers what is written while the connection lives.
FairSpec == Spec /\ WF_vars(Read)

-----------------------------------------------------------------------------
\* Properties.

\* Offsets of packets, counts and histories have their types.
TypeOK ==
  /\ sent \in Seq(Msgs)
  /\ ends \in Seq(Nat)
  /\ Len(ends) = Len(sent)
  /\ received \in Nat
  /\ taken \in 0 .. Len(sent)
  /\ delivered \in Seq(Msgs)
  /\ open \in BOOLEAN

\* The length tests never take a byte that has not arrived, and never lose count
\* of the packets: what was taken ends at or before what was received.
NeverReadsAhead ==
  /\ EndOf(taken) <= received
  /\ received <= Written
  /\ received > EndOf(taken) => taken < Len(sent)

\* Bytes of the packets handed over, and of no other, left the input buffer.
queue == SubSeq(sent, taken + 1, Len(sent))
MQ == INSTANCE MsgQueue

\* The framing implements a queue of whole packets.
ImplementsQueue == MQ!Spec

\* A peer that sends its next packet only once the last one was handed over, as a
\* timer that fires every ten seconds does, has every packet handed over at last.
PacedPacketsArrive ==
  [](Len(sent) <= taken + 1) =>
    \A k \in 1 .. MaxSent : Len(sent) >= k ~> taken >= k \/ ~open
=============================================================================
