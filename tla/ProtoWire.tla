------------------------------ MODULE ProtoWire ------------------------------
(***************************************************************************)
(* The wire format of the protobuf library, as the generated code of       *)
(* codec/rpc.pb.cc uses it: a message on the wire is a sequence of fields, *)
(* each a number, a wire type and a varint or a length-delimited payload.  *)
(*                                                                         *)
(* The widths are parameters: a varint carries `Word64` values in groups   *)
(* of `Group`, an int32 has `Word32` of them.  (2^64, 2^7 and 2^32 in the  *)
(* library.)                                                               *)
(***************************************************************************)
EXTENDS Integers, Sequences

CONSTANTS Word32, Word64, Group

ASSUME WidthAssumption ==
    /\ Word32 \in Nat \ {0}
    /\ Word64 \in Nat \ {0}
    /\ Word64 % Word32 = 0
    /\ Word32 % 2 = 0
    /\ Group \in Nat \ {0, 1}

Varints == {"uint64", "int32", "int64", "enum"}
Delimited == {"string", "bytes", "message"}

Signed(n, w) == IF n < w \div 2 THEN n ELSE n - w

\* Bytes are text that is no message, or the encoding of the fields of one.
\* len is the length their writer announces for them.
Text(s) == [text |-> s, body |-> <<>>, len |-> Len(s)]
Encoding(fields, n) == [text |-> "", body |-> fields, len |-> n]
NoBytes == Text("")

Varint(num, n) == [num |-> num, wt |-> "varint", n |-> n, data |-> NoBytes]
Payload(num, b) == [num |-> num, wt |-> "delimited", n |-> 0, data |-> b]

\* The end of the input in the middle of a field, and an end-group tag.
Cut == [num |-> 1, wt |-> "cut", n |-> 0, data |-> NoBytes]
EndGroup == [num |-> 1, wt |-> "end", n |-> 0, data |-> NoBytes]

\* What a field of a kind looks like on the wire, and how it is read again:
\* a negative int32 is extended to the width of a varint, and cut again.
WriteField(kind, num, v) ==
    IF kind \in Varints THEN Varint(num, v % Word64) ELSE Payload(num, v)

FitsKind(kind, f) ==
    \/ kind \in Varints /\ f.wt = "varint"
    \/ kind \in Delimited /\ f.wt = "delimited"

ReadKind(kind, f) ==
    CASE kind = "uint64" -> f.n
      [] kind = "int64" -> Signed(f.n, Word64)
      [] kind \in {"int32", "enum"} -> Signed(f.n % Word32, Word32)
      [] OTHER -> f.data

\* The number of groups a varint takes.
Groups(n) ==
    LET G[k \in 0 .. n] == IF k < Group THEN 1 ELSE 1 + G[k \div Group]
    IN G
VarintSize(n) == Groups(n)[n]

\* WireFormatLite::XxxSize: the size a kind's value is computed to have.
KindSize(kind, v) ==
    IF kind \in Varints THEN VarintSize(v % Word64) ELSE VarintSize(v.len) + v.len

\* The number of bytes a field and a sequence of fields really are.
FieldLength(f) ==
    1 + IF f.wt = "varint" THEN VarintSize(f.n) ELSE VarintSize(f.data.len) + f.data.len
Lengths(w) ==
    LET Sum[i \in 0 .. Len(w)] == IF i = 0 THEN 0 ELSE Sum[i - 1] + FieldLength(w[i])
    IN Sum
WireLength(w) == Lengths(w)[Len(w)]

\* An encoding can be read only if its length is the one announced.
WellFramed(b) == b.text = "" /\ b.len = WireLength(b.body)
==============================================================================
