------------------------------- MODULE Base64 -------------------------------
(***************************************************************************)
(* base64_encode and base64_decode of stputil/security/base64.cpp.  Bytes  *)
(* and characters are numbers, a string is a sequence of them.  Each loop  *)
(* is a recursive function of the number of bytes or characters read; of   *)
(* the accumulator only the bits_collected low bits are kept, the others   *)
(* are never looked at again.                                              *)
(***************************************************************************)
EXTENDS Integers, Sequences

Byte == 0..255
Padding == 61                     \* '='
Space == 9..13 \cup {32}          \* isspace in the "C" locale

\* What base64 text is made of, next to the padding.
Alphabet == 65..90 \cup 97..122 \cup 48..57 \cup {43, 47}

\* b64_table: the character of a 6-bit value.
Symbol(v) == CASE v < 26 -> v + 65
               [] v \in 26..51 -> v + 71
               [] v \in 52..61 -> v - 4
               [] v = 62 -> 43
               [] v = 63 -> 47

\* The table says 0 where there is no symbol.
SymbolValue_LiberalMutant(c) == CASE c \in 65..90 -> c - 65
                                  [] c \in 97..122 -> c - 71
                                  [] c \in 48..57 -> c + 4
                                  [] c = 43 -> 62
                                  [] c = 47 -> 63
                                  [] OTHER -> 0

\* reverse_table, and the range test in front of it: 64 stands for "no symbol".
SymbolValue(c) == CASE c \in 65..90 -> c - 65
                    [] c \in 97..122 -> c - 71
                    [] c \in 48..57 -> c + 4
                    [] c = 43 -> 62
                    [] c = 47 -> 63
                    [] OTHER -> 64

\* The symbols that trailing bits, too few for one more, are given.
FlushBits(bits, acc) == IF bits = 0 THEN <<>> ELSE <<Symbol(acc * 2^(6 - bits))>>

\* Before the first byte or character: nothing collected, nothing written.
Started == [out |-> <<>>, bits |-> 0, acc |-> 0]

\* One byte more in the accumulator, and the symbols that are complete with it.
EncodeByte(s, byte) ==
  LET acc  == s.acc * 256 + byte
      bits == s.bits + 8
      new  == [k \in 1..(bits \div 6) |-> Symbol((acc \div 2^(bits - 6 * k)) % 64)]
  IN  [out |-> s.out \o new, bits |-> bits % 6, acc |-> acc % 2^(bits % 6)]

Encoding(bytes) ==
  LET read[i \in 0..Len(bytes)] ==
        IF i = 0 THEN Started ELSE EncodeByte(read[i - 1], bytes[i])
  IN  read

base64_encode(bytes) ==
  LET end     == Encoding(bytes)[Len(bytes)]
      symbols == end.out \o FlushBits(end.bits, end.acc)
  IN  symbols \o [k \in 1..(((Len(bytes) + 2) \div 3) * 4 - Len(symbols)) |-> Padding]

\* White space and padding are skipped wherever they are.
Skipped(c) == c \in Space \cup {Padding}
Keep(s, c) == IF Skipped(c) THEN s ELSE Append(s, c)

Keeping(text) ==
  LET read[i \in 0..Len(text)] ==
        IF i = 0 THEN <<>> ELSE Keep(read[i - 1], text[i])
  IN  read

Kept(text) == Keeping(text)[Len(text)]

\* Six bits more in the accumulator, and the byte that is complete with them.
DecodeSymbol(s, c) ==
  LET acc  == s.acc * 64 + SymbolValue(c)
      bits == s.bits + 6
  IN  IF bits < 8 THEN [out |-> s.out, bits |-> bits, acc |-> acc]
      ELSE [out  |-> Append(s.out, acc \div 2^(bits - 8)),
            bits |-> bits - 8, acc |-> acc % 2^(bits - 8)]

Decoding(kept) ==
  LET read[i \in 0..Len(kept)] ==
        IF i = 0 THEN Started ELSE DecodeSymbol(read[i - 1], kept[i])
  IN  read

\* Any other character that is no symbol makes the whole answer the empty string.
base64_decode(text) ==
  LET kept == Kept(text)
  IN  IF \E i \in 1..Len(kept) : SymbolValue(kept[i]) > 63 THEN <<>>
      ELSE Decoding(kept)[Len(kept)].out
-----------------------------------------------------------------------------
\* Reference for base64_encode: three bytes are four symbols, an incomplete group is
\* filled with zero bits and its absent symbols are padding.
Rfc4648(bytes) ==
  LET byte(i)  == IF i <= Len(bytes) THEN bytes[i] ELSE 0
      group(g) == byte(3 * g + 1) * 65536 + byte(3 * g + 2) * 256 + byte(3 * g + 3)
  IN  [j \in 1..(4 * ((Len(bytes) + 2) \div 3)) |->
         IF 3 * (j - 1) >= 4 * Len(bytes) THEN Padding
         ELSE Symbol((group((j - 1) \div 4) \div 64^(3 - ((j - 1) % 4))) % 64)]
=============================================================================
