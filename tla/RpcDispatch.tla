---------------------------- MODULE RpcDispatch ----------------------------
(***************************************************************************)
(* Two message objects of one class in the hands of a program, the packet  *)
(* SerializeToArray makes of the first, and the dispatcher of the other    *)
(* end, which calls a handler with the message it parsed; the handler      *)
(* keeps a copy in the second object.                                      *)
(*                                                                         *)
(* The other end may have been built from another rpc.proto: a packet can  *)
(* gain a field this one does not know, carry a result it has no name for, *)
(* or be cut short by a sender that dies.                                  *)
(***************************************************************************)
EXTENDS RpcCodec

CONSTANTS
    Types,        \* classes the objects may have
    Numbers,      \* integers set_x is called with
    Strings,      \* texts set_x is called with
    MaxEdits,     \* calls that change an object
    MaxSends,     \* packets sent
    BufferSize    \* sizeof(send_buf_)

ASSUME RpcAssumption ==
    /\ Types \subseteq Classes
    /\ MaxEdits \in Nat /\ MaxSends \in Nat /\ BufferSize \in Nat
    /\ Numbers \subseteq -(Word32 \div 2) .. Word32 \div 2 - 1
    /\ Word32 \div 2 > 6

\* A text has a length (a prover takes no string for a sequence).
ASSUME LengthAssumption ==
    Len("") = 0 /\ \A s \in Classes \union Strings \union {"n"} : Len(s) \in Nat

VARIABLES
    a, b,      \* the message objects
    pkt,       \* the packet under way: {} or one
    sent,      \* what a was when it was sent: {} or one message
    skewed,    \* what another version of the sender added to the packet: {} or one field
    called,    \* what the last dispatch called a handler with: {} or one message
    edits, sends

vars == <<a, b, pkt, sent, skewed, called, edits, sends>>

\* REGISTER_CALLBACK_IMP of the two dispatchers.
StpSvrMsgDispatcher == {"C2S_Ping", "C2S_StpCryptoNegotiate"}
StpClntMsgDispatcher == {"S2C_Ping", "S2C_StpCryptoNegotiate"}

\* What the end that messages of a class are meant for has registered.
Callbacks(class) ==
    IF class \in {"S2C_Ping", "S2C_StpCryptoNegotiate"} THEN StpClntMsgDispatcher
    ELSE StpSvrMsgDispatcher

Init ==
    \E type \in Types :
        /\ a = New(type) /\ b = New(type)
        /\ pkt = {} /\ sent = {} /\ skewed = {} /\ called = {}
        /\ edits = 0 /\ sends = 0

\* Values a member of a kind may be given; an enum only what its type allows.
Values(kind) ==
    CASE kind = "uint64" -> {n % Word64 : n \in Numbers}
      [] kind = "int32" -> Numbers
      [] kind = "int64" -> Numbers \union {Word64 \div 2 - 1}
      [] kind = "enum" -> {n \in Numbers : StpResult_IsValid(n)}
      [] kind = "string" -> {Text(s) : s \in Strings}
      [] kind = "bytes" -> {Text(s) : s \in Strings} \union {Bytes(b)}
      [] OTHER -> {}

Edit(newa, newb) ==
    /\ pkt = {} /\ sends < MaxSends
    /\ edits < MaxEdits /\ edits' = edits + 1
    /\ a' = newa /\ b' = newb
    /\ UNCHANGED <<pkt, sent, skewed, called, sends>>

SetMember ==
    \E f \in DOMAIN a.val : \E v \in Values(KindOf(a, f)) : Edit(Set(a, f, v), b)
SetOfToken ==
    /\ "token" \in DOMAIN a.val
    /\ \E g \in DOMAIN StpToken_fields : \E v \in Values(StpToken_fields[g].kind) :
          Edit([Mutable(a, "token") EXCEPT !.val["token"] = Set(@, g, v)], b)
ClearMember ==
    \E f \in DOMAIN a.val : Edit(ClearField(a, f), b) \/ Edit(Release(a, f), b)
\* A program may clear a message, merge or copy another into it, swap the two.
ClearAll == Edit(Clear(a), b)
MergeOther == Edit(MergeFrom(a, b), b)
CopyOther == Edit(CopyFrom(a, b), b)
Swap == Edit(b, a)

(* The handlers send nothing when SerializeToArray fails. *)
Send ==
    /\ pkt = {} /\ sends < MaxSends /\ sends' = sends + 1
    /\ LET res == SerializeToArray(a, BufferSize)
       IN /\ pkt' = IF res.ok THEN {res.bytes} ELSE {}
          /\ sent' = IF res.ok THEN {a} ELSE {}
    /\ skewed' = {} /\ called' = {}
    /\ UNCHANGED <<a, b, edits>>

\* A sender with a newer rpc.proto: its message has one more field, or a
\* result that has no name here.  The field lengths it announces are right.
NewerFields == {Varint(9, 1), Varint(1, 6), Payload(1, Text("n")), Cut, EndGroup}
Skewed(p, f) ==
    LET body == Append(p.body[2].data.body, f)
        outer == [p.body EXCEPT ![2].data = Encoding(body, WireLength(body))]
    IN Encoding(outer, WireLength(outer))
Skew ==
    /\ pkt # {} /\ skewed = {}
    /\ \E p \in pkt, f \in NewerFields : skewed' = {f} /\ pkt' = {Skewed(p, f)}
    /\ UNCHANGED <<a, b, sent, called, edits, sends>>

Dispatch ==
    /\ pkt # {} /\ pkt' = {}
    /\ \E p \in pkt : called' = OnceDispatch(Callbacks(a.class), p).called
    /\ b' = IF called' = {} THEN b ELSE CopyFrom(b, CHOOSE m \in called' : TRUE)
    /\ UNCHANGED <<a, sent, skewed, edits, sends>>

Next ==
    \/ SetMember \/ SetOfToken \/ ClearMember \/ ClearAll \/ MergeOther \/ CopyOther \/ Swap
    \/ Send \/ Skew \/ Dispatch

Spec == Init /\ [][Next]_vars

------------------------------------------------------------------------------
\* A message of a class: its members, and only has bits of its members.
IsMessage(m) ==
    /\ m.class \in Classes
    /\ DOMAIN m.val = DOMAIN Fields[m.class]
    /\ m.has \subseteq DOMAIN m.val

Submessages(m) == {m.val[f] : f \in {g \in DOMAIN m.val : KindOf(m, g) = "message"}}

(* Handlers read res(), token().group() and so on without asking has_x     *)
(* (stp_server.cc:103, stp_client.cc:115): whatever calls an object has    *)
(* been through, a member whose has bit is clear reads as its default,     *)
(* inside the token as well.                                               *)
UnsetReadsDefault ==
    \A m \in {a, b} \union called : \A part \in {m} \union Submessages(m) :
        /\ IsMessage(part)
        /\ \A f \in DOMAIN part.val \ part.has : part.val[f] = Default(part, f)

(* The size computed before a message is written, which is all that keeps  *)
(* the writing inside the caller's array and the reader in step, is the    *)
(* size of what is written, in the token, in the message and in the        *)
(* Request around it (proto_msg_serialization.cc:6).                       *)
SizesAgree ==
    /\ \A part \in {a, Wrapped(a)} : Bytes(part).len = WireLength(Bytes(part).body)
    /\ \A t \in Submessages(a) : TokenBytes(t).len = WireLength(TokenBytes(t).body)
    /\ \A p \in pkt : skewed = {} => p.len <= BufferSize

(* The handler registered for a message's class is called with exactly the *)
(* message that was sent, unset members and negative numbers included; a   *)
(* message nobody registered for is dropped (proto_msg_dispatcher.cc:94).  *)
SentIsHandled ==
    pkt = {} /\ skewed = {} => called = {m \in sent : m.class \in Callbacks(m.class)}

(* A packet of a newer sender is understood as far as it can be: what it   *)
(* added or a result without a name changes nothing that was sent besides, *)
(* and a packet that ends too early is not handled at all.                 *)
SkewTolerated ==
    \A f \in skewed, s \in sent :
        LET first == Cases[s.class][1][1]
        IN pkt = {} =>
             /\ f \in {Cut, EndGroup} => called = {}
             /\ \A m \in called : \A g \in DOMAIN m.val :
                   \/ m.val[g] = s.val[g]
                   \/ f.num = 1 /\ g = first /\ KindOf(m, g) = "uint64"
             /\ f \notin {Cut, EndGroup} /\ s.class \in Callbacks(s.class) => called # {}

(* Parsing one message behind the other is merging the second into the     *)
(* first: what MergeFrom does with has bits, tokens and unknown fields is  *)
(* what the wire format says about repeated members.                       *)
MergeIsConcatenation ==
    LET fields == Bytes(a).body \o Bytes(b).body
        res == MergePartialFromCodedStream(New(a.class), Encoding(fields, WireLength(fields)))
    IN res.ok /\ res.msg = MergeFrom(CopyFrom(New(a.class), a), b)
==============================================================================
