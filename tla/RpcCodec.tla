------------------------------ MODULE RpcCodec ------------------------------
(***************************************************************************)
(* What every generated class does with its tables (see Rpc), the helper   *)
(* codec/proto_msg_serialization.cc and the dispatcher                     *)
(* codec/proto_msg_dispatcher.cc.                                          *)
(*                                                                         *)
(* Only StpToken is a member of other messages and it has no message       *)
(* members, so each method takes what it has done to the message members   *)
(* and is used twice: for tokens and for all other messages.               *)
(***************************************************************************)
EXTENDS Rpc

Fields ==
    [StpToken |-> StpToken_fields, Request |-> Request_fields,
     C2S_Ping |-> NoFields, S2C_Ping |-> NoFields, StpCryptoMsg |-> StpCryptoMsg_fields,
     C2S_StpCryptoNegotiate |-> C2S_StpCryptoNegotiate_fields,
     S2C_StpCryptoNegotiate |-> S2C_StpCryptoNegotiate_fields,
     S2D_StpReportStatus |-> S2D_StpReportStatus_fields]
Clears ==
    [StpToken |-> StpToken_Clear, Request |-> Request_Clear, C2S_Ping |-> C2S_Ping_Clear,
     S2C_Ping |-> S2C_Ping_Clear, StpCryptoMsg |-> StpCryptoMsg_Clear,
     C2S_StpCryptoNegotiate |-> C2S_StpCryptoNegotiate_Clear,
     S2C_StpCryptoNegotiate |-> S2C_StpCryptoNegotiate_Clear,
     S2D_StpReportStatus |-> S2D_StpReportStatus_Clear]
Cases ==
    [StpToken |-> StpToken_Parse, Request |-> Request_Parse, C2S_Ping |-> C2S_Ping_Parse,
     S2C_Ping |-> S2C_Ping_Parse, StpCryptoMsg |-> StpCryptoMsg_Parse,
     C2S_StpCryptoNegotiate |-> C2S_StpCryptoNegotiate_Parse,
     S2C_StpCryptoNegotiate |-> S2C_StpCryptoNegotiate_Parse,
     S2D_StpReportStatus |-> S2D_StpReportStatus_Parse]
Writes ==
    [StpToken |-> StpToken_Serialize, Request |-> Request_Serialize,
     C2S_Ping |-> C2S_Ping_Serialize, S2C_Ping |-> S2C_Ping_Serialize,
     StpCryptoMsg |-> StpCryptoMsg_Serialize,
     C2S_StpCryptoNegotiate |-> C2S_StpCryptoNegotiate_Serialize,
     S2C_StpCryptoNegotiate |-> S2C_StpCryptoNegotiate_Serialize,
     S2D_StpReportStatus |-> S2D_StpReportStatus_Serialize]
Sizes ==
    [StpToken |-> StpToken_ByteSize, Request |-> Request_ByteSize,
     C2S_Ping |-> C2S_Ping_ByteSize, S2C_Ping |-> S2C_Ping_ByteSize,
     StpCryptoMsg |-> StpCryptoMsg_ByteSize,
     C2S_StpCryptoNegotiate |-> C2S_StpCryptoNegotiate_ByteSize,
     S2C_StpCryptoNegotiate |-> S2C_StpCryptoNegotiate_ByteSize,
     S2D_StpReportStatus |-> S2D_StpReportStatus_ByteSize]
Merges ==
    [StpToken |-> StpToken_MergeFrom, Request |-> Request_MergeFrom,
     C2S_Ping |-> C2S_Ping_MergeFrom, S2C_Ping |-> S2C_Ping_MergeFrom,
     StpCryptoMsg |-> StpCryptoMsg_MergeFrom,
     C2S_StpCryptoNegotiate |-> C2S_StpCryptoNegotiate_MergeFrom,
     S2C_StpCryptoNegotiate |-> S2C_StpCryptoNegotiate_MergeFrom,
     S2D_StpReportStatus |-> S2D_StpReportStatus_MergeFrom]
Classes == DOMAIN Fields

------------------------------------------------------------------------------
(* The accessors of one member.                                            *)

New(class) == Blank(class, Fields[class])
KindOf(m, f) == Fields[m.class][f].kind
Default(m, f) == Fields[m.class][f].default

Set(m, f, v) == [m EXCEPT !.has = @ \union {f}, !.val[f] = v]

\* mutable_x and, with no pointer, set_allocated_x.
Mutable(m, f) == [m EXCEPT !.has = @ \union {f}]
Release(m, f) == [m EXCEPT !.has = @ \ {f}, !.val[f] = Default(m, f)]

------------------------------------------------------------------------------
(* Clear, MergeFrom, CopyFrom.                                             *)

\* The message members; `parts` below has what became of each of them.
Messages(m) == {f \in DOMAIN m.val : KindOf(m, f) = "message"}
NoParts == << >>
Member(parts, m, f) == IF KindOf(m, f) = "message" THEN parts[f] ELSE m.val[f]

ClearWith(parts, m) ==
    LET ifset == Clears[m.class].ifset \intersect m.has
        always == IF m.has = {} THEN {} ELSE Clears[m.class].always
    IN [m EXCEPT !.has = {}, !.unknown = <<>>,
                 !.val = [f \in DOMAIN @ |->
                            CASE f \in always -> Default(m, f)
                              [] f \in ifset \ always -> IF KindOf(m, f) = "message"
                                                         THEN parts[f] ELSE NoBytes
                              [] f \notin ifset \union always -> @[f]]]
ClearToken(t) == ClearWith(NoParts, t)
Clear(m) == ClearWith([f \in Messages(m) |-> ClearToken(m.val[f])], m)

\* clear_x
ClearField(m, f) ==
    [m EXCEPT !.has = @ \ {f},
              !.val[f] = IF KindOf(m, f) = "message" THEN ClearToken(@) ELSE Default(m, f)]

\* `parts` has the message members of both, merged.
Copy(parts, to, from, f) == IF f \in from.has THEN Set(to, f, Member(parts, from, f)) ELSE to
Merging(parts, m, from) ==
    LET To[i \in 0 .. Len(Merges[m.class])] ==
            IF i = 0 THEN m ELSE Copy(parts, To[i - 1], from, Merges[m.class][i])
    IN To
MergeWith(parts, m, from) ==
    [Merging(parts, m, from)[Len(Merges[m.class])] EXCEPT !.unknown = @ \o from.unknown]
MergeToken(t, from) == MergeWith(NoParts, t, from)
\* A token is copied, not merged.
MergeFrom_OverwriteMutant(m, from) == MergeWith([f \in Messages(m) |-> from.val[f]], m, from)
MergeFrom(m, from) ==
    MergeWith([f \in Messages(m) |-> MergeToken(m.val[f], from.val[f])], m, from)

CopyFrom(m, from) == MergeFrom(Clear(m), from)

------------------------------------------------------------------------------
(* ByteSize and SerializeWithCachedSizesToArray; `parts` has the written   *)
(* tokens.  The length of a token is the one its ByteSize has just cached. *)

AddSize(parts, m, sum, f, kind) ==
    IF f \in m.has THEN sum + (1 + KindSize(kind, Member(parts, m, f))) ELSE sum
Adding(parts, m) ==
    LET Sum[i \in 0 .. Len(Sizes[m.class])] ==
            IF i = 0 THEN 0
            ELSE AddSize(parts, m, Sum[i - 1], Sizes[m.class][i][1], Sizes[m.class][i][2])
    IN Sum
SizeWith(parts, m) == Adding(parts, m)[Len(Sizes[m.class])] + WireLength(m.unknown)

Write(parts, m, out, num, f, kind) ==
    IF f \in m.has THEN Append(out, WriteField(kind, num, Member(parts, m, f))) ELSE out
Writing(parts, m) ==
    LET Out[i \in 0 .. Len(Writes[m.class])] ==
            IF i = 0 THEN <<>>
            ELSE Write(parts, m, Out[i - 1], Writes[m.class][i][1], Writes[m.class][i][2],
                       Writes[m.class][i][3])
    IN Out
SerializeWith(parts, m) == Writing(parts, m)[Len(Writes[m.class])] \o m.unknown

TokenBytes(t) == Encoding(SerializeWith(NoParts, t), SizeWith(NoParts, t))
Parts(m) == [f \in Messages(m) |-> TokenBytes(m.val[f])]
\* The unknown fields are written and not counted.
ByteSize_NoUnknownMutant(m) == SizeWith(Parts(m), m) - WireLength(m.unknown)
ByteSize(m) == SizeWith(Parts(m), m)
Bytes(m) == Encoding(SerializeWith(Parts(m), m), ByteSize(m))

------------------------------------------------------------------------------
(* MergePartialFromCodedStream and ParseFromArray.                         *)

Keep(m, f) == [m EXCEPT !.unknown = Append(@, f)]
Known(m, f) == f.num \in DOMAIN Cases[m.class] /\ FitsKind(Cases[m.class][f.num][2], f)

\* `sub` is what reading the field into the message member answers.
Store(m, f, sub) ==
    LET name == Cases[m.class][f.num][1]
        kind == Cases[m.class][f.num][2]
        v == ReadKind(kind, f)
    IN CASE kind = "message" -> [ok |-> sub.ok, msg |-> Set(m, name, sub.msg)]
         [] kind = "enum" /\ ~StpResult_IsValid(v)
              -> [ok |-> TRUE, msg |-> Keep(m, Varint(f.num, v % Word64))]
         [] kind # "message" /\ (kind = "enum" => StpResult_IsValid(v))
              -> [ok |-> TRUE, msg |-> Set(m, name, v)]
ReadField(res, f, sub) ==
    CASE ~res.ok \/ f.wt \in {"cut", "end"} -> [ok |-> FALSE, msg |-> res.msg]
      [] res.ok /\ f.wt \notin {"cut", "end"} /\ Known(res.msg, f) -> Store(res.msg, f, sub)
      [] res.ok /\ f.wt \notin {"cut", "end"} /\ ~Known(res.msg, f)
           -> [ok |-> TRUE, msg |-> Keep(res.msg, f)]

Readable(b) == b = NoBytes \/ WellFramed(b)
Begun(m) == [ok |-> TRUE, msg |-> m]
Failed(m) == [ok |-> FALSE, msg |-> m]

\* A token has no message members.
ReadTokenField(res, f) == ReadField(res, f, Failed(res.msg))
ReadingToken(t, w) ==
    LET Res[i \in 0 .. Len(w)] == IF i = 0 THEN Begun(t) ELSE ReadTokenField(Res[i - 1], w[i])
    IN Res
ParseToken(t, b) == IF Readable(b) THEN ReadingToken(t, b.body)[Len(b.body)] ELSE Failed(t)

ReadPart(m, f) == ParseToken(m.val[Cases[m.class][f.num][1]], f.data)
ReadNext(res, f) == ReadField(res, f, ReadPart(res.msg, f))
Reading(m, w) ==
    LET Res[i \in 0 .. Len(w)] == IF i = 0 THEN Begun(m) ELSE ReadNext(Res[i - 1], w[i])
    IN Res
MergePartialFromCodedStream(m, b) ==
    IF Readable(b) THEN Reading(m, b.body)[Len(b.body)] ELSE Failed(m)

IsInitialized(m) == m.class = "Request" => Request_IsInitialized(m)

ParseFromArray(class, b) ==
    LET res == MergePartialFromCodedStream(New(class), b)
    IN [res EXCEPT !.ok = @ /\ IsInitialized(res.msg)]

------------------------------------------------------------------------------
(* SerializeToArray: the message into the caller's array, from there into  *)
(* a Request, and the Request into the same array.                         *)

Wrapped(m) ==
    Set(Set(New("Request"), "method", Text(m.class)), "serialized_request", Bytes(m))

SerializeToArray(m, size) ==
    IF ByteSize(m) > size \/ ByteSize(Wrapped(m)) > size THEN [ok |-> FALSE, bytes |-> NoBytes]
    ELSE [ok |-> TRUE, bytes |-> Bytes(Wrapped(m))]

(* OnceDispatch: `called` has the message a handler was called with, if    *)
(* one was.  Everything but an unreadable Request is answered TRUE.        *)
OnceDispatch(callback_map, b) ==
    LET req == ParseFromArray("Request", b)
        type == req.msg.val["method"].text
        message == ParseFromArray(type, req.msg.val["serialized_request"])
    IN IF b.len < 4 \/ ~req.ok THEN [answer |-> FALSE, called |-> {}]
       ELSE [answer |-> TRUE,
             called |-> IF type \in Classes /\ message.ok /\ type \in callback_map
                        THEN {message.msg} ELSE {}]
==============================================================================
