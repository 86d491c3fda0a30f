-------------------------- MODULE StpCryptoProofs --------------------------
(***************************************************************************)
(* base64_encode and base64_decode, for every sequence of bytes; the       *)
(* layout of a padded message, for every length that 32 bits (Word) leave  *)
(* room for and for every content; and the invariants of StpCrypto, for    *)
(* every cipher that is inverted on one block.                             *)
(* The loops of Base64 are recursive functions of the position in the      *)
(* input, so their results are found by induction on the position; the     *)
(* induction is over a set of positions, from the library's theorem that   *)
(* the order of the naturals is well founded.                              *)
(***************************************************************************)
EXTENDS StpCrypto, SequenceTheorems, WellFoundedInduction, TLAPS

(* ---- base64 -------------------------------------------------------------------- *)
\* A set of naturals that is not empty has a least element.
LEMMA LeastElement ==
  ASSUME NEW T, T \subseteq Nat, T # {}
  PROVE  \E x \in T : \A y \in T : x <= y
<1> DEFINE less == OpToRel(<, Nat)
<1>1. less = {ss \in Nat \X Nat : ss[1] < ss[2]}
  BY Zenon DEF OpToRel
<1>2. IsWellFoundedOn(less, Nat)
  BY NatLessThanWellFounded, Zenon
<1> HIDE DEF less
<1>3. PICK x \in T : \A y \in T : ~ (<<y, x>> \in less)
  BY <1>2, WFMin, Zenon
<1>4. ASSUME NEW y \in T PROVE x <= y
  <2>1. x \in Nat /\ y \in Nat
    OBVIOUS
  <2>2. ~(<<y, x>> \in less)
    BY <1>3
  <2>3. ~(y < x)
    BY <1>1, <2>1, <2>2
  <2> QED BY <2>1, <2>3
<1> QED BY <1>4

\* Induction up to n: a set that has 0, and with each k below n also k + 1, has them all.
LEMMA UpTo ==
  ASSUME NEW n \in Nat, NEW S, 0 \in S, \A k \in Nat : k < n /\ k \in S => k + 1 \in S
  PROVE  \A k \in 0..n : k \in S
<1> DEFINE T == {k \in 0..n : k \notin S}
<1>1. CASE T = {}
  BY <1>1
<1>2. CASE T # {}
  <2>1. T \subseteq Nat
    OBVIOUS
  <2> HIDE DEF T
  <2>2. PICK x \in T : \A y \in T : x <= y
    BY <2>1, <1>2, LeastElement, Zenon
  <2>3. x \in 0..n /\ x \notin S
    BY DEF T
  <2>4. x - 1 \in Nat /\ x - 1 \in 0..n /\ x - 1 \notin T
    BY <2>2, <2>3
  <2>5. x - 1 \in S
    BY <2>4 DEF T
  <2>6. (x - 1) + 1 \in S
    BY <2>3, <2>4, <2>5
  <2> QED BY <2>3, <2>6
<1> QED BY <1>1, <1>2

\* The loop of base64_encode, one byte after the other.
LEMMA EncodingStep ==
  ASSUME NEW bytes, Len(bytes) \in Nat
  PROVE  /\ Encoding(bytes)[0] = Started
         /\ \A i \in 1..Len(bytes) :
              Encoding(bytes)[i] = EncodeByte(Encoding(bytes)[i - 1], bytes[i])
<1> DEFINE Read(f, m) == f = [i \in 0..m |-> IF i = 0 THEN Started ELSE EncodeByte(f[i - 1], bytes[i])]
           S == {m \in Nat : \E f : Read(f, m)}
           n == Len(bytes)
<1>1. 0 \in S
  <2>1. Read([i \in 0..0 |-> Started], 0)
    OBVIOUS
  <2> QED BY <2>1
<1>2. ASSUME NEW k \in Nat, k \in S PROVE k + 1 \in S
  <2>1. PICK f : Read(f, k)
    BY <1>2
  <2> DEFINE g == [i \in 0..(k + 1) |-> IF i <= k THEN f[i] ELSE EncodeByte(f[k], bytes[k + 1])]
  <2>2. \A i \in 0..(k + 1) : g[i] = IF i = 0 THEN Started ELSE EncodeByte(g[i - 1], bytes[i])
    BY <2>1
  <2>3. Read(g, k + 1)
    BY <2>2
  <2> HIDE DEF Read, g
  <2>4. \E h : Read(h, k + 1)
    BY <2>3
  <2> QED BY <2>4
<1>3. n \in S
  <2> HIDE DEF S, n
  <2>1. \A k \in 0..n : k \in S
    BY <1>1, <1>2, UpTo DEF n
  <2> QED BY <2>1 DEF n
<1>4. \E f : Read(f, n)
  BY <1>3
<1>5. Encoding(bytes) = CHOOSE f : Read(f, n)
  BY Zenon DEF Encoding
<1>6. Read(Encoding(bytes), n)
  <2> HIDE DEF Read, n
  <2> QED BY <1>4, <1>5, Zenon
<1> QED BY <1>6

\* The loop of base64_decode, one symbol after the other.
LEMMA DecodingStep ==
  ASSUME NEW kept, Len(kept) \in Nat
  PROVE  /\ Decoding(kept)[0] = Started
         /\ \A i \in 1..Len(kept) :
              Decoding(kept)[i] = DecodeSymbol(Decoding(kept)[i - 1], kept[i])
<1> DEFINE Read(f, m) == f = [i \in 0..m |-> IF i = 0 THEN Started ELSE DecodeSymbol(f[i - 1], kept[i])]
           S == {m \in Nat : \E f : Read(f, m)}
           n == Len(kept)
<1>1. 0 \in S
  <2>1. Read([i \in 0..0 |-> Started], 0)
    OBVIOUS
  <2> QED BY <2>1
<1>2. ASSUME NEW k \in Nat, k \in S PROVE k + 1 \in S
  <2>1. PICK f : Read(f, k)
    BY <1>2
  <2> DEFINE g == [i \in 0..(k + 1) |-> IF i <= k THEN f[i] ELSE DecodeSymbol(f[k], kept[k + 1])]
  <2>2. \A i \in 0..(k + 1) : g[i] = IF i = 0 THEN Started ELSE DecodeSymbol(g[i - 1], kept[i])
    BY <2>1
  <2>3. Read(g, k + 1)
    BY <2>2
  <2> HIDE DEF Read, g
  <2>4. \E h : Read(h, k + 1)
    BY <2>3
  <2> QED BY <2>4
<1>3. n \in S
  <2> HIDE DEF S, n
  <2>1. \A k \in 0..n : k \in S
    BY <1>1, <1>2, UpTo DEF n
  <2> QED BY <2>1 DEF n
<1>4. \E f : Read(f, n)
  BY <1>3
<1>5. Decoding(kept) = CHOOSE f : Read(f, n)
  BY Zenon DEF Decoding
<1>6. Read(Decoding(kept), n)
  <2> HIDE DEF Read, n
  <2> QED BY <1>4, <1>5, Zenon
<1> QED BY <1>6

\* What base64_decode does not skip, one character after the other.
LEMMA KeepingStep ==
  ASSUME NEW coded, Len(coded) \in Nat
  PROVE  /\ Keeping(coded)[0] = <<>>
         /\ \A i \in 1..Len(coded) :
              Keeping(coded)[i] = Keep(Keeping(coded)[i - 1], coded[i])
<1> DEFINE Read(f, m) == f = [i \in 0..m |-> IF i = 0 THEN <<>> ELSE Keep(f[i - 1], coded[i])]
           S == {m \in Nat : \E f : Read(f, m)}
           n == Len(coded)
<1>1. 0 \in S
  <2>1. Read([i \in 0..0 |-> <<>>], 0)
    OBVIOUS
  <2> QED BY <2>1
<1>2. ASSUME NEW k \in Nat, k \in S PROVE k + 1 \in S
  <2>1. PICK f : Read(f, k)
    BY <1>2
  <2> DEFINE g == [i \in 0..(k + 1) |-> IF i <= k THEN f[i] ELSE Keep(f[k], coded[k + 1])]
  <2>2. \A i \in 0..(k + 1) : g[i] = IF i = 0 THEN <<>> ELSE Keep(g[i - 1], coded[i])
    BY <2>1
  <2>3. Read(g, k + 1)
    BY <2>2
  <2> HIDE DEF Read, g
  <2>4. \E h : Read(h, k + 1)
    BY <2>3
  <2> QED BY <2>4
<1>3. n \in S
  <2> HIDE DEF S, n
  <2>1. \A k \in 0..n : k \in S
    BY <1>1, <1>2, UpTo DEF n
  <2> QED BY <2>1 DEF n
<1>4. \E f : Read(f, n)
  BY <1>3
<1>5. Keeping(coded) = CHOOSE f : Read(f, n)
  BY Zenon DEF Keeping
<1>6. Read(Keeping(coded), n)
  <2> HIDE DEF Read, n
  <2> QED BY <1>4, <1>5, Zenon
<1> QED BY <1>6

\* One byte onto 0, 2 or 4 bits that are left over: the symbols it completes, and the
\* bits it leaves.
LEMMA EncodeByteResult ==
  ASSUME NEW out, NEW byte \in Byte
  PROVE  /\ EncodeByte([out |-> out, bits |-> 0, acc |-> 0], byte)
              = [out |-> out \o <<Symbol(byte \div 4)>>, bits |-> 2, acc |-> byte % 4]
         /\ \A acc \in 0..3 :
              EncodeByte([out |-> out, bits |-> 2, acc |-> acc], byte)
                = [out |-> out \o <<Symbol(acc * 16 + (byte \div 16))>>, bits |-> 4, acc |-> byte % 16]
         /\ \A acc \in 0..15 :
              EncodeByte([out |-> out, bits |-> 4, acc |-> acc], byte)
                = [out |-> out \o <<Symbol(acc * 4 + (byte \div 64)), Symbol(byte % 64)>>,
                   bits |-> 0, acc |-> 0]
<1>0. byte \in 0..255
  BY DEF Byte
<1>1. EncodeByte([out |-> out, bits |-> 0, acc |-> 0], byte)
        = [out |-> out \o <<Symbol(byte \div 4)>>, bits |-> 2, acc |-> byte % 4]
  <2>1. 0 * 256 + byte = byte /\ 0 + 8 = 8 /\ 8 \div 6 = 1 /\ 8 % 6 = 2 /\ 2^2 = 4 /\ 8 - 6 * 1 = 2
    BY <1>0
  <2>2. (byte \div 4) % 64 = byte \div 4
    BY <1>0
  <2>3. [k \in 1..1 |-> Symbol((byte \div 2^(8 - 6 * k)) % 64)] = <<Symbol(byte \div 4)>>
    <3>1. \A k \in 1..1 : k = 1
      OBVIOUS
    <3> QED BY <2>1, <2>2, <3>1
  <2> QED BY ZenonT(60), <2>1, <2>3 DEF EncodeByte
<1>2. ASSUME NEW acc \in 0..3
      PROVE  EncodeByte([out |-> out, bits |-> 2, acc |-> acc], byte)
               = [out |-> out \o <<Symbol(acc * 16 + (byte \div 16))>>, bits |-> 4, acc |-> byte % 16]
  <2> DEFINE a == acc * 256 + byte
  <2>1. 2 + 8 = 10 /\ 10 \div 6 = 1 /\ 10 % 6 = 4 /\ 2^4 = 16 /\ 10 - 6 * 1 = 4
    OBVIOUS
  <2>2. (a \div 16) % 64 = acc * 16 + (byte \div 16) /\ a % 16 = byte % 16
    BY <1>0
  <2> HIDE DEF a
  <2>3. [k \in 1..1 |-> Symbol((a \div 2^(10 - 6 * k)) % 64)] = <<Symbol(acc * 16 + (byte \div 16))>>
    <3>1. \A k \in 1..1 : k = 1
      OBVIOUS
    <3> QED BY <2>1, <2>2, <3>1
  <2>4. EncodeByte([out |-> out, bits |-> 2, acc |-> acc], byte)
          = [out |-> out \o [k \in 1..((2 + 8) \div 6) |-> Symbol((a \div 2^((2 + 8) - 6 * k)) % 64)],
             bits |-> (2 + 8) % 6, acc |-> a % 2^((2 + 8) % 6)]
    BY DEF EncodeByte, a
  <2> QED BY <2>1, <2>2, <2>3, <2>4
<1>3. ASSUME NEW acc \in 0..15
      PROVE  EncodeByte([out |-> out, bits |-> 4, acc |-> acc], byte)
               = [out |-> out \o <<Symbol(acc * 4 + (byte \div 64)), Symbol(byte % 64)>>,
                  bits |-> 0, acc |-> 0]
  <2> DEFINE a == acc * 256 + byte
  <2>1. /\ 4 + 8 = 12 /\ 12 \div 6 = 2 /\ 12 % 6 = 0 /\ 2^0 = 1 /\ 2^6 = 64
        /\ 12 - 6 * 1 = 6 /\ 12 - 6 * 2 = 0
    OBVIOUS
  <2>2. /\ (a \div 64) % 64 = acc * 4 + (byte \div 64)
        /\ (a \div 1) % 64 = byte % 64 /\ a % 1 = 0
    BY <1>0
  <2> HIDE DEF a
  <2>3. [k \in 1..2 |-> Symbol((a \div 2^(12 - 6 * k)) % 64)]
          = <<Symbol(acc * 4 + (byte \div 64)), Symbol(byte % 64)>>
    <3>1. \A k \in 1..2 : k = 1 \/ k = 2
      OBVIOUS
    <3> QED BY <2>1, <2>2, <3>1
  <2>4. EncodeByte([out |-> out, bits |-> 4, acc |-> acc], byte)
          = [out |-> out \o [k \in 1..((4 + 8) \div 6) |-> Symbol((a \div 2^((4 + 8) - 6 * k)) % 64)],
             bits |-> (4 + 8) % 6, acc |-> a % 2^((4 + 8) % 6)]
    BY DEF EncodeByte, a
  <2>5. (4 + 8) \div 6 = 2 /\ 4 + 8 = 12 /\ (4 + 8) % 6 = 0 /\ a % 2^((4 + 8) % 6) = 0
    BY <2>1, <2>2
  <2> QED BY <2>3, <2>4, <2>5, Zenon
<1> QED BY <1>1, <1>2, <1>3

\* b64_table and reverse_table are inverse to each other on the symbols.
LEMMA SymbolOfValue ==
  ASSUME NEW v \in 0..63
  PROVE  Symbol(v) \in Alphabet /\ SymbolValue(Symbol(v)) = v
<1>1. CASE v < 26
  <2>1. Symbol(v) = v + 65
    BY <1>1 DEF Symbol
  <2> QED BY <1>1, <2>1 DEF SymbolValue, Alphabet
<1>2. CASE v \in 26..51
  <2>1. Symbol(v) = v + 71
    BY <1>2 DEF Symbol
  <2> QED BY <1>2, <2>1 DEF SymbolValue, Alphabet
<1>3. CASE v \in 52..61
  <2>1. Symbol(v) = v - 4
    BY <1>3 DEF Symbol
  <2> QED BY <1>3, <2>1 DEF SymbolValue, Alphabet
<1>4. CASE v = 62
  <2>1. Symbol(v) = 43
    BY <1>4 DEF Symbol
  <2> QED BY <1>4, <2>1 DEF SymbolValue, Alphabet
<1>5. CASE v = 63
  <2>1. Symbol(v) = 47
    BY <1>5 DEF Symbol
  <2> QED BY <1>5, <2>1 DEF SymbolValue, Alphabet
<1> QED BY <1>1, <1>2, <1>3, <1>4, <1>5

\* The bytes of an incomplete last group are filled up with zeros.
ByteAt(bytes, i) == IF i <= Len(bytes) THEN bytes[i] ELSE 0

\* The six bits that the j-th symbol of a text stands for.
Sextet(bytes, j) ==
  LET byte(k) == ByteAt(bytes, 3 * ((j - 1) \div 4) + k)
  IN  CASE j % 4 = 1 -> byte(1) \div 4
        [] j % 4 = 2 -> (byte(1) % 4) * 16 + (byte(2) \div 16)
        [] j % 4 = 3 -> (byte(2) % 16) * 4 + (byte(3) \div 64)
        [] j % 4 = 0 -> byte(3) % 64

\* The symbols of the first m sextets.
Coded(bytes, m) == [j \in 1..m |-> Symbol(Sextet(bytes, j))]

LEMMA ByteAtIsByte ==
  ASSUME NEW bytes \in Seq(Byte), NEW i \in Nat, i # 0
  PROVE  ByteAt(bytes, i) \in 0..255
<1>1. CASE i <= Len(bytes)
  <2>1. bytes[i] \in Byte
    BY <1>1
  <2> QED BY <1>1, <2>1 DEF ByteAt, Byte
<1>2. CASE ~ (i <= Len(bytes))
  BY <1>2 DEF ByteAt
<1> QED BY <1>1, <1>2

\* The four sextets of the group behind the first g.
LEMMA SextetsOfGroup ==
  ASSUME NEW bytes, NEW g \in Nat
  PROVE  /\ Sextet(bytes, 4 * g + 1) = ByteAt(bytes, 3 * g + 1) \div 4
         /\ Sextet(bytes, 4 * g + 2) = (ByteAt(bytes, 3 * g + 1) % 4) * 16 + (ByteAt(bytes, 3 * g + 2) \div 16)
         /\ Sextet(bytes, 4 * g + 3) = (ByteAt(bytes, 3 * g + 2) % 16) * 4 + (ByteAt(bytes, 3 * g + 3) \div 64)
         /\ Sextet(bytes, 4 * g + 4) = ByteAt(bytes, 3 * g + 3) % 64
<1>1. /\ ((4 * g + 1) - 1) \div 4 = g /\ ((4 * g + 2) - 1) \div 4 = g
      /\ ((4 * g + 3) - 1) \div 4 = g /\ ((4 * g + 4) - 1) \div 4 = g
      /\ (4 * g + 1) % 4 = 1 /\ (4 * g + 2) % 4 = 2 /\ (4 * g + 3) % 4 = 3 /\ (4 * g + 4) % 4 = 0
  OBVIOUS
<1> QED BY <1>1 DEF Sextet

\* Each position is one of a group's four.
LEMMA PlaceInGroup ==
  ASSUME NEW j \in Nat, j # 0
  PROVE  \E g \in Nat : j \in {4 * g + 1, 4 * g + 2, 4 * g + 3, 4 * g + 4}
<1> DEFINE g == (j - 1) \div 4
<1>1. g \in Nat /\ j \in {4 * g + 1, 4 * g + 2, 4 * g + 3, 4 * g + 4}
  OBVIOUS
<1> QED BY <1>1

LEMMA SextetIsSextet ==
  ASSUME NEW bytes \in Seq(Byte), NEW j \in Nat, j # 0
  PROVE  Sextet(bytes, j) \in 0..63
<1>1. PICK g \in Nat : j \in {4 * g + 1, 4 * g + 2, 4 * g + 3, 4 * g + 4}
  BY PlaceInGroup
<1> DEFINE a == ByteAt(bytes, 3 * g + 1)
           b == ByteAt(bytes, 3 * g + 2)
           c == ByteAt(bytes, 3 * g + 3)
<1>2. a \in 0..255 /\ b \in 0..255 /\ c \in 0..255
  BY ByteAtIsByte
<1>3. /\ Sextet(bytes, 4 * g + 1) = a \div 4
      /\ Sextet(bytes, 4 * g + 2) = (a % 4) * 16 + (b \div 16)
      /\ Sextet(bytes, 4 * g + 3) = (b % 16) * 4 + (c \div 64)
      /\ Sextet(bytes, 4 * g + 4) = c % 64
  BY SextetsOfGroup
<1> HIDE DEF a, b, c
<1>4. /\ a \div 4 \in 0..63 /\ (a % 4) * 16 + (b \div 16) \in 0..63
      /\ (b % 16) * 4 + (c \div 64) \in 0..63 /\ c % 64 \in 0..63
  BY <1>2
<1> QED BY <1>1, <1>3, <1>4, Zenon

\* A text of symbols is as long as it says and consists of symbols; one more makes it
\* one longer.
LEMMA CodedIsText ==
  ASSUME NEW bytes \in Seq(Byte), NEW m \in Nat
  PROVE  /\ Coded(bytes, m) \in Seq(Alphabet) /\ Len(Coded(bytes, m)) = m
         /\ Coded(bytes, m) \o <<Symbol(Sextet(bytes, m + 1))>> = Coded(bytes, m + 1)
<1>1. ASSUME NEW j \in 1..(m + 1) PROVE Symbol(Sextet(bytes, j)) \in Alphabet
  <2>1. j \in Nat /\ j # 0
    OBVIOUS
  <2>2. Sextet(bytes, j) \in 0..63
    BY <2>1, SextetIsSextet, Zenon
  <2> QED BY <2>2, SymbolOfValue, Zenon
<1> DEFINE s == Coded(bytes, m)
           x == Symbol(Sextet(bytes, m + 1))
           t == Coded(bytes, m + 1)
<1>2. s \in Seq(Alphabet) /\ Len(s) = m /\ t \in Seq(Alphabet) /\ Len(t) = m + 1
  BY <1>1 DEF Coded
<1>3. \A j \in 1..m : s[j] = t[j]
  BY DEF Coded
<1>4. x = t[m + 1] /\ x \in Alphabet
  BY <1>1 DEF Coded
<1> HIDE DEF s, t, x
<1>5. s \o <<x>> = t
  BY <1>2, <1>3, <1>4
<1> QED BY <1>2, <1>5 DEF s, t, x

\* base64_encode after i bytes: the symbols that are complete, and the bits of the last
\* byte that are not in any of them.
AfterBytes(bytes, i) ==
  [out  |-> Coded(bytes, (4 * i) \div 3),
   bits |-> 2 * (i % 3),
   acc  |-> CASE i % 3 = 0 -> 0
              [] i % 3 = 1 -> bytes[i] % 4
              [] i % 3 = 2 -> bytes[i] % 16]

LEMMA AfterBytesAt ==
  ASSUME NEW bytes, NEW g \in Nat
  PROVE  /\ AfterBytes(bytes, 3 * g) = [out |-> Coded(bytes, 4 * g), bits |-> 0, acc |-> 0]
         /\ AfterBytes(bytes, 3 * g + 1)
              = [out |-> Coded(bytes, 4 * g + 1), bits |-> 2, acc |-> bytes[3 * g + 1] % 4]
         /\ AfterBytes(bytes, 3 * g + 2)
              = [out |-> Coded(bytes, 4 * g + 2), bits |-> 4, acc |-> bytes[3 * g + 2] % 16]
<1>1. /\ (4 * (3 * g)) \div 3 = 4 * g /\ (3 * g) % 3 = 0
      /\ (4 * (3 * g + 1)) \div 3 = 4 * g + 1 /\ (3 * g + 1) % 3 = 1
      /\ (4 * (3 * g + 2)) \div 3 = 4 * g + 2 /\ (3 * g + 2) % 3 = 2
      /\ 2 * 0 = 0 /\ 2 * 1 = 2 /\ 2 * 2 = 4
  OBVIOUS
<1> QED BY <1>1 DEF AfterBytes

LEMMA BitsOfByte ==
  ASSUME NEW w \in Byte, NEW x \in Byte
  PROVE  /\ w % 4 \in 0..3 /\ w % 16 \in 0..15 /\ x % 64 \in 0..63
         /\ (w % 16) * 4 + (x \div 64) \in 0..63
<1>1. w \in 0..255 /\ x \in 0..255
  BY DEF Byte
<1> QED BY <1>1

LEMMA TwoMore ==
  ASSUME NEW S, NEW s \in Seq(S), NEW y \in S, NEW z \in S
  PROVE  (s \o <<y>>) \o <<z>> = s \o <<y, z>>
<1>1. /\ (s \o <<y>>) \o <<z>> \in Seq(S) /\ Len((s \o <<y>>) \o <<z>>) = Len(s) + 2
      /\ s \o <<y, z>> \in Seq(S) /\ Len(s \o <<y, z>>) = Len(s) + 2
  OBVIOUS
<1>2. ASSUME NEW k \in 1..(Len(s) + 2) PROVE ((s \o <<y>>) \o <<z>>)[k] = (s \o <<y, z>>)[k]
  <2>1. CASE k \in 1..Len(s)
    BY <2>1
  <2>2. CASE k = Len(s) + 1
    BY <2>2
  <2>3. CASE k = Len(s) + 2
    BY <2>3
  <2>4. Len(s) \in Nat
    OBVIOUS
  <2> QED BY <2>1, <2>2, <2>3, <2>4
<1> QED BY <1>1, <1>2, SeqEqual

\* The loop goes from one such state to the next.
LEMMA OneByteOn ==
  ASSUME NEW bytes \in Seq(Byte), NEW i \in Nat, i < Len(bytes)
  PROVE  EncodeByte(AfterBytes(bytes, i), bytes[i + 1]) = AfterBytes(bytes, i + 1)
<1> DEFINE g == i \div 3
<1>0. g \in Nat /\ Len(bytes) \in Nat /\ i \in {3 * g, 3 * g + 1, 3 * g + 2}
  OBVIOUS
<1> HIDE DEF g
<1>1. \A k \in 1..Len(bytes) : bytes[k] \in Byte /\ ByteAt(bytes, k) = bytes[k]
  BY DEF ByteAt
<1>2. CASE i = 3 * g
  <2> DEFINE x == bytes[3 * g + 1]
  <2>1. x \in Byte /\ ByteAt(bytes, 3 * g + 1) = x
    BY <1>0, <1>1, <1>2
  <2>2. Sextet(bytes, 4 * g + 1) = x \div 4
    BY <1>0, <2>1, SextetsOfGroup
  <2>3. Coded(bytes, 4 * g) \o <<Symbol(x \div 4)>> = Coded(bytes, 4 * g + 1)
    <3>1. 4 * g \in Nat
      BY <1>0
    <3> QED BY <2>2, <3>1, CodedIsText, Zenon
  <2>4. EncodeByte([out |-> Coded(bytes, 4 * g), bits |-> 0, acc |-> 0], x)
          = [out |-> Coded(bytes, 4 * g) \o <<Symbol(x \div 4)>>, bits |-> 2, acc |-> x % 4]
    BY <2>1, EncodeByteResult, Zenon
  <2>5. AfterBytes(bytes, 3 * g) = [out |-> Coded(bytes, 4 * g), bits |-> 0, acc |-> 0]
    BY <1>0, AfterBytesAt, Zenon
  <2>6. AfterBytes(bytes, 3 * g + 1) = [out |-> Coded(bytes, 4 * g + 1), bits |-> 2, acc |-> x % 4]
    BY <1>0, AfterBytesAt, Zenon
  <2> QED BY <1>2, <2>3, <2>4, <2>5, <2>6, Zenon
<1>3. CASE i = 3 * g + 1
  <2> DEFINE w == bytes[3 * g + 1]
             x == bytes[3 * g + 2]
  <2>1. w \in Byte /\ ByteAt(bytes, 3 * g + 1) = w /\ x \in Byte /\ ByteAt(bytes, 3 * g + 2) = x
    BY <1>0, <1>1, <1>3
  <2>2. Sextet(bytes, 4 * g + 2) = (w % 4) * 16 + (x \div 16) /\ w % 4 \in 0..3
    <3>1. Sextet(bytes, 4 * g + 2) = (w % 4) * 16 + (x \div 16)
      BY <1>0, <2>1, SextetsOfGroup
    <3>2. w % 4 \in 0..3
      BY <2>1, BitsOfByte, Zenon
    <3> QED BY <3>1, <3>2
  <2>3. Coded(bytes, 4 * g + 1) \o <<Symbol((w % 4) * 16 + (x \div 16))>> = Coded(bytes, 4 * g + 2)
    <3>1. 4 * g + 1 \in Nat /\ (4 * g + 1) + 1 = 4 * g + 2
      BY <1>0
    <3> QED BY <2>2, <3>1, CodedIsText, Zenon
  <2>4. EncodeByte([out |-> Coded(bytes, 4 * g + 1), bits |-> 2, acc |-> w % 4], x)
          = [out |-> Coded(bytes, 4 * g + 1) \o <<Symbol((w % 4) * 16 + (x \div 16))>>, bits |-> 4, acc |-> x % 16]
    BY <2>1, <2>2, EncodeByteResult, Zenon
  <2>5. AfterBytes(bytes, 3 * g + 1) = [out |-> Coded(bytes, 4 * g + 1), bits |-> 2, acc |-> w % 4]
    BY <1>0, AfterBytesAt, Zenon
  <2>6. AfterBytes(bytes, 3 * g + 2) = [out |-> Coded(bytes, 4 * g + 2), bits |-> 4, acc |-> x % 16]
    BY <1>0, AfterBytesAt, Zenon
  <2>7. i + 1 = 3 * g + 2
    BY <1>0, <1>3
  <2> QED BY <1>3, <2>3, <2>4, <2>5, <2>6, <2>7, Zenon
<1>4. CASE i = 3 * g + 2
  <2> DEFINE w == bytes[3 * g + 2]
             x == bytes[3 * g + 3]
  <2>1. w \in Byte /\ ByteAt(bytes, 3 * g + 2) = w /\ x \in Byte /\ ByteAt(bytes, 3 * g + 3) = x
    BY <1>0, <1>1, <1>4
  <2>2. /\ Sextet(bytes, 4 * g + 3) = (w % 16) * 4 + (x \div 64)
        /\ Sextet(bytes, 4 * g + 4) = x % 64
        /\ w % 16 \in 0..15
    <3>1. /\ Sextet(bytes, 4 * g + 3) = (w % 16) * 4 + (x \div 64)
          /\ Sextet(bytes, 4 * g + 4) = x % 64
      BY <1>0, <2>1, SextetsOfGroup
    <3>2. w % 16 \in 0..15
      BY <2>1, BitsOfByte, Zenon
    <3> QED BY <3>1, <3>2
  <2>3. Coded(bytes, 4 * g + 2) \o <<Symbol((w % 16) * 4 + (x \div 64)), Symbol(x % 64)>>
          = Coded(bytes, 4 * g + 4)
    <3> DEFINE y == Symbol((w % 16) * 4 + (x \div 64))
               z == Symbol(x % 64)
               s == Coded(bytes, 4 * g + 2)
    <3>1. /\ 4 * g + 2 \in Nat /\ (4 * g + 2) + 1 = 4 * g + 3
          /\ 4 * g + 3 \in Nat /\ (4 * g + 3) + 1 = 4 * g + 4
      BY <1>0
    <3>2. s \o <<y>> = Coded(bytes, 4 * g + 3) /\ s \in Seq(Alphabet)
      BY <2>2, <3>1, CodedIsText, Zenon
    <3>3. Coded(bytes, 4 * g + 3) \o <<z>> = Coded(bytes, 4 * g + 4)
      BY <2>2, <3>1, CodedIsText, Zenon
    <3>4. y \in Alphabet /\ z \in Alphabet
      <4>1. x % 64 \in 0..63 /\ (w % 16) * 4 + (x \div 64) \in 0..63
        BY <2>1, BitsOfByte, Zenon
      <4> QED BY <4>1, SymbolOfValue, Zenon
    <3>5. (s \o <<y>>) \o <<z>> = s \o <<y, z>>
      <4> HIDE DEF s, y, z
      <4> QED BY <3>2, <3>4, TwoMore, Zenon
    <3> QED BY <3>2, <3>3, <3>5, Zenon
  <2>4. EncodeByte([out |-> Coded(bytes, 4 * g + 2), bits |-> 4, acc |-> w % 16], x)
          = [out |-> Coded(bytes, 4 * g + 2) \o <<Symbol((w % 16) * 4 + (x \div 64)), Symbol(x % 64)>>,
             bits |-> 0, acc |-> 0]
    BY <2>1, <2>2, EncodeByteResult, ZenonT(60)
  <2>5. AfterBytes(bytes, 3 * g + 2) = [out |-> Coded(bytes, 4 * g + 2), bits |-> 4, acc |-> w % 16]
    BY <1>0, AfterBytesAt, Zenon
  <2>6. AfterBytes(bytes, i + 1) = [out |-> Coded(bytes, 4 * g + 4), bits |-> 0, acc |-> 0]
    <3>1. g + 1 \in Nat /\ i + 1 = 3 * (g + 1) /\ 4 * (g + 1) = 4 * g + 4
      BY <1>0, <1>4
    <3> QED BY <3>1, AfterBytesAt, Zenon
  <2>7. i + 1 = 3 * g + 3
    BY <1>0, <1>4
  <2> QED BY <1>4, <2>3, <2>4, <2>5, <2>6, <2>7, Zenon
<1> QED BY <1>0, <1>2, <1>3, <1>4

\* So that is what the loop has done, by induction.
LEMMA EncodingIs ==
  ASSUME NEW bytes \in Seq(Byte)
  PROVE  Encoding(bytes)[Len(bytes)] = AfterBytes(bytes, Len(bytes))
<1> DEFINE n == Len(bytes)
           S == {k \in 0..n : Encoding(bytes)[k] = AfterBytes(bytes, k)}
<1>0. n \in Nat
  OBVIOUS
<1>1. 0 \in S
  <2>1. Encoding(bytes)[0] = Started
    BY <1>0, EncodingStep, Zenon
  <2>2. AfterBytes(bytes, 0) = [out |-> Coded(bytes, 0), bits |-> 0, acc |-> 0]
    <3>1. 3 * 0 = 0 /\ 4 * 0 = 0 /\ 0 \in Nat
      OBVIOUS
    <3> QED BY <3>1, AfterBytesAt, Zenon
  <2>3. Coded(bytes, 0) = <<>>
    BY DEF Coded
  <2> QED BY <1>0, <2>1, <2>2, <2>3 DEF Started
<1>2. ASSUME NEW k \in Nat, k < n, k \in S PROVE k + 1 \in S
  <2>1. k + 1 \in 1..n /\ (k + 1) - 1 = k
    BY <1>0, <1>2
  <2>2. Encoding(bytes)[k + 1] = EncodeByte(Encoding(bytes)[k], bytes[k + 1])
    BY <1>0, <2>1, EncodingStep, Zenon
  <2>3. EncodeByte(AfterBytes(bytes, k), bytes[k + 1]) = AfterBytes(bytes, k + 1)
    BY <1>2, OneByteOn
  <2> QED BY <1>0, <1>2, <2>1, <2>2, <2>3
<1>3. n \in S
  <2> HIDE DEF S, n
  <2>1. \A k \in 0..n : k \in S
    BY <1>0, <1>1, <1>2, UpTo
  <2> QED BY <1>0, <2>1
<1> QED BY <1>3

\* Every complete sextet of n bytes, and the incomplete one if there is one.
SymbolCount(n) == (4 * n + 2) \div 3

\* The padding makes the text a multiple of four characters.
PaddingOf(n) == [k \in 1..(((n + 2) \div 3) * 4 - SymbolCount(n)) |-> Padding]

LEMMA SymbolCountAt ==
  ASSUME NEW g \in Nat
  PROVE  /\ SymbolCount(3 * g) = 4 * g /\ SymbolCount(3 * g + 1) = 4 * g + 2
         /\ SymbolCount(3 * g + 2) = 4 * g + 3
BY DEF SymbolCount

\* The bits left over become one more symbol, filled up with zeros.
LEMMA FlushedIs ==
  ASSUME NEW bytes \in Seq(Byte)
  PROVE  AfterBytes(bytes, Len(bytes)).out
           \o FlushBits(AfterBytes(bytes, Len(bytes)).bits, AfterBytes(bytes, Len(bytes)).acc)
           = Coded(bytes, SymbolCount(Len(bytes)))
<1> DEFINE n == Len(bytes)
           g == n \div 3
           end == AfterBytes(bytes, n)
<1>0. n \in Nat /\ g \in Nat /\ n \in {3 * g, 3 * g + 1, 3 * g + 2}
  OBVIOUS
<1> HIDE DEF g
<1>1. CASE n = 3 * g
  <2>1. end = [out |-> Coded(bytes, 4 * g), bits |-> 0, acc |-> 0]
    BY <1>0, <1>1, AfterBytesAt, Zenon
  <2>2. FlushBits(end.bits, end.acc) = <<>>
    BY <2>1 DEF FlushBits
  <2>3. SymbolCount(n) = 4 * g
    BY <1>0, <1>1, SymbolCountAt, Zenon
  <2>4. Coded(bytes, 4 * g) \in Seq(Alphabet)
    <3>1. 4 * g \in Nat
      BY <1>0
    <3> QED BY <3>1, CodedIsText, Zenon
  <2>5. Coded(bytes, 4 * g) \o <<>> = Coded(bytes, 4 * g)
    BY <2>4, ConcatEmptySeq, Zenon
  <2>6. end.out = Coded(bytes, 4 * g)
    BY <2>1
  <2> QED BY <2>2, <2>3, <2>5, <2>6, Zenon
<1>2. CASE n = 3 * g + 1
  <2> DEFINE x == bytes[3 * g + 1]
  <2>1. end = [out |-> Coded(bytes, 4 * g + 1), bits |-> 2, acc |-> x % 4]
    BY <1>0, <1>2, AfterBytesAt, Zenon
  <2>2. FlushBits(end.bits, end.acc) = <<Symbol((x % 4) * 16)>>
    <3>1. 2^(6 - 2) = 16 /\ 2 # 0
      OBVIOUS
    <3>2. end.bits = 2 /\ end.acc = x % 4
      BY <2>1
    <3> HIDE DEF x, end
    <3> QED BY <3>1, <3>2 DEF FlushBits
  <2>3. SymbolCount(n) = 4 * g + 2
    BY <1>0, <1>2, SymbolCountAt, Zenon
  <2>4. Sextet(bytes, 4 * g + 2) = (x % 4) * 16
    <3>1. ByteAt(bytes, 3 * g + 1) = x /\ ByteAt(bytes, 3 * g + 2) = 0
      BY <1>0, <1>2 DEF ByteAt
    <3>2. Sextet(bytes, 4 * g + 2) = (x % 4) * 16 + (0 \div 16)
      BY <1>0, <3>1, SextetsOfGroup
    <3>3. x \in Byte
      BY <1>0, <1>2
    <3>4. x % 4 \in 0..3
      BY <3>3, BitsOfByte, Zenon
    <3> HIDE DEF x
    <3> QED BY <3>2, <3>4
  <2>5. Coded(bytes, 4 * g + 1) \o <<Symbol((x % 4) * 16)>> = Coded(bytes, 4 * g + 2)
    <3>1. 4 * g + 1 \in Nat /\ (4 * g + 1) + 1 = 4 * g + 2
      BY <1>0
    <3> QED BY <2>4, <3>1, CodedIsText, Zenon
  <2>6. end.out = Coded(bytes, 4 * g + 1)
    BY <2>1
  <2> QED BY <2>2, <2>3, <2>5, <2>6, Zenon
<1>3. CASE n = 3 * g + 2
  <2> DEFINE x == bytes[3 * g + 2]
  <2>1. end = [out |-> Coded(bytes, 4 * g + 2), bits |-> 4, acc |-> x % 16]
    BY <1>0, <1>3, AfterBytesAt, Zenon
  <2>2. FlushBits(end.bits, end.acc) = <<Symbol((x % 16) * 4)>>
    <3>1. 2^(6 - 4) = 4 /\ 4 # 0
      OBVIOUS
    <3>2. end.bits = 4 /\ end.acc = x % 16
      BY <2>1
    <3> HIDE DEF x, end
    <3> QED BY <3>1, <3>2 DEF FlushBits
  <2>3. SymbolCount(n) = 4 * g + 3
    BY <1>0, <1>3, SymbolCountAt, Zenon
  <2>4. Sextet(bytes, 4 * g + 3) = (x % 16) * 4
    <3>1. ByteAt(bytes, 3 * g + 2) = x /\ ByteAt(bytes, 3 * g + 3) = 0
      BY <1>0, <1>3 DEF ByteAt
    <3>2. Sextet(bytes, 4 * g + 3) = (x % 16) * 4 + (0 \div 64)
      BY <1>0, <3>1, SextetsOfGroup
    <3>3. x \in Byte
      BY <1>0, <1>3
    <3>4. x % 16 \in 0..15
      BY <3>3, BitsOfByte, Zenon
    <3> HIDE DEF x
    <3> QED BY <3>2, <3>4
  <2>5. Coded(bytes, 4 * g + 2) \o <<Symbol((x % 16) * 4)>> = Coded(bytes, 4 * g + 3)
    <3>1. 4 * g + 2 \in Nat /\ (4 * g + 2) + 1 = 4 * g + 3
      BY <1>0
    <3> QED BY <2>4, <3>1, CodedIsText, Zenon
  <2>6. end.out = Coded(bytes, 4 * g + 2)
    BY <2>1
  <2> QED BY <2>2, <2>3, <2>5, <2>6, Zenon
<1> QED BY <1>0, <1>1, <1>2, <1>3

\* What base64_encode answers: the symbols and the padding.
LEMMA EncodedIs ==
  ASSUME NEW bytes \in Seq(Byte)
  PROVE  base64_encode(bytes) = Coded(bytes, SymbolCount(Len(bytes))) \o PaddingOf(Len(bytes))
<1> DEFINE n == Len(bytes)
           end == Encoding(bytes)[n]
           symbols == end.out \o FlushBits(end.bits, end.acc)
<1>1. symbols = Coded(bytes, SymbolCount(n))
  BY EncodingIs, FlushedIs, Zenon
<1>2. Len(symbols) = SymbolCount(n)
  <2>1. SymbolCount(n) \in Nat
    BY DEF SymbolCount
  <2> QED BY <1>1, <2>1, CodedIsText, Zenon
<1>3. base64_encode(bytes) = symbols \o [k \in 1..(((n + 2) \div 3) * 4 - Len(symbols)) |-> Padding]
  BY DEF base64_encode
<1> HIDE DEF symbols
<1> QED BY <1>1, <1>2, <1>3 DEF PaddingOf

\* Three bytes are 24 bits, and its four sextets are the four symbols of the group.
LEMMA GroupOfBits ==
  ASSUME NEW a \in Nat, NEW b \in Nat, NEW c \in Nat, a < 256, b < 256, c < 256,
         NEW group, group = a * 65536 + b * 256 + c
  PROVE  /\ (group \div 262144) % 64 = a \div 4
         /\ (group \div 4096) % 64 = (a % 4) * 16 + (b \div 16)
         /\ (group \div 64) % 64 = (b % 16) * 4 + (c \div 64)
         /\ group % 64 = c % 64
<1>1. PICK p \in Nat, q \in Nat : a = 4 * p + q /\ p < 64 /\ q < 4 /\ a \div 4 = p /\ a % 4 = q
  <2>1. a = 4 * (a \div 4) + (a % 4) /\ a \div 4 \in Nat /\ a \div 4 < 64 /\ a % 4 \in Nat /\ a % 4 < 4
    BY SMT
  <2> QED BY <2>1, SMT
<1>2. PICK r \in Nat, s \in Nat : b = 16 * r + s /\ r < 16 /\ s < 16 /\ b \div 16 = r /\ b % 16 = s
  <2>1. b = 16 * (b \div 16) + (b % 16) /\ b \div 16 \in Nat /\ b \div 16 < 16 /\ b % 16 \in Nat /\ b % 16 < 16
    BY SMT
  <2> QED BY <2>1, SMT
<1>3. PICK t \in Nat, u \in Nat : c = 64 * t + u /\ t < 4 /\ u < 64 /\ c \div 64 = t /\ c % 64 = u
  <2>1. c = 64 * (c \div 64) + (c % 64) /\ c \div 64 \in Nat /\ c \div 64 < 4 /\ c % 64 \in Nat /\ c % 64 < 64
    BY SMT
  <2> QED BY <2>1, SMT
<1>4. PICK v \in Nat, w \in Nat : v = 16 * q + r /\ w = 4 * s + t /\ v < 64 /\ w < 64
  <2>1. 16 * q + r \in Nat /\ 4 * s + t \in Nat /\ 16 * q + r < 64 /\ 4 * s + t < 64
    BY <1>1, <1>2, <1>3, SMT
  <2> QED BY <2>1
<1>5. group = 262144 * p + 4096 * v + 64 * w + u
  BY <1>1, <1>2, <1>3, <1>4, SMT
<1>6. ASSUME NEW x \in Nat, x = 262144 * p + 4096 * v + 64 * w + u
      PROVE  /\ (x \div 262144) % 64 = p /\ (x \div 4096) % 64 = v
             /\ (x \div 64) % 64 = w /\ x % 64 = u
  <2>1. x \div 262144 = p /\ p % 64 = p
    BY <1>1, <1>3, <1>4, <1>6, SMT
  <2>2. x \div 4096 = 64 * p + v /\ (64 * p + v) % 64 = v
    BY <1>3, <1>4, <1>6, SMT
  <2>3. x \div 64 = 4096 * p + 64 * v + w /\ (4096 * p + 64 * v + w) % 64 = w
    BY <1>3, <1>4, <1>6, SMT
  <2>4. x % 64 = u
    BY <1>3, <1>4, <1>6, SMT
  <2> QED BY <2>1, <2>2, <2>3, <2>4, SMT
<1>7. group \in Nat
  BY <1>5, SMT
<1> QED BY <1>1, <1>2, <1>3, <1>4, <1>5, <1>6, <1>7, SMT

\* The sextet of a position, as the standard takes it from the 24 bits of its group.
GroupBits(bytes, g) ==
  ByteAt(bytes, 3 * g + 1) * 65536 + ByteAt(bytes, 3 * g + 2) * 256 + ByteAt(bytes, 3 * g + 3)

\* By how many bits it is shifted there, as a factor.
ShiftOf(j) == 64^(3 - ((j - 1) % 4))

LEMMA ShiftAt ==
  ASSUME NEW g \in Nat
  PROVE  /\ ShiftOf(4 * g + 1) = 64^3 /\ ShiftOf(4 * g + 2) = 64^2
         /\ ShiftOf(4 * g + 3) = 64^1 /\ ShiftOf(4 * g + 4) = 64^0
<1>1. /\ 3 - (((4 * g + 1) - 1) % 4) = 3 /\ 3 - (((4 * g + 2) - 1) % 4) = 2
      /\ 3 - (((4 * g + 3) - 1) % 4) = 1 /\ 3 - (((4 * g + 4) - 1) % 4) = 0
  OBVIOUS
<1>2. ASSUME NEW e, NEW f, e = f PROVE 64^e = 64^f
  BY <1>2, Zenon
<1>3. /\ ShiftOf(4 * g + 1) = 64^(3 - (((4 * g + 1) - 1) % 4))
      /\ ShiftOf(4 * g + 2) = 64^(3 - (((4 * g + 2) - 1) % 4))
      /\ ShiftOf(4 * g + 3) = 64^(3 - (((4 * g + 3) - 1) % 4))
      /\ ShiftOf(4 * g + 4) = 64^(3 - (((4 * g + 4) - 1) % 4))
  BY Zenon DEF ShiftOf
<1>4. /\ 64^(3 - (((4 * g + 1) - 1) % 4)) = 64^3 /\ 64^(3 - (((4 * g + 2) - 1) % 4)) = 64^2
      /\ 64^(3 - (((4 * g + 3) - 1) % 4)) = 64^1 /\ 64^(3 - (((4 * g + 4) - 1) % 4)) = 64^0
  BY <1>1, <1>2, Zenon
<1> QED BY <1>3, <1>4, Zenon

LEMMA StandardSextet ==
  ASSUME NEW bytes \in Seq(Byte), NEW j \in Nat, j # 0
  PROVE  (GroupBits(bytes, (j - 1) \div 4) \div ShiftOf(j)) % 64 = Sextet(bytes, j)
<1>1. PICK g \in Nat : j \in {4 * g + 1, 4 * g + 2, 4 * g + 3, 4 * g + 4}
  BY PlaceInGroup
<1>2. (j - 1) \div 4 = g
  BY <1>1
<1> DEFINE a == ByteAt(bytes, 3 * g + 1)
           b == ByteAt(bytes, 3 * g + 2)
           c == ByteAt(bytes, 3 * g + 3)
           group == GroupBits(bytes, g)
<1>3. a \in Nat /\ a < 256 /\ b \in Nat /\ b < 256 /\ c \in Nat /\ c < 256
  <2>1. a \in 0..255 /\ b \in 0..255 /\ c \in 0..255
    BY ByteAtIsByte
  <2> HIDE DEF a, b, c
  <2> QED BY <2>1
<1>4. /\ Sextet(bytes, 4 * g + 1) = a \div 4
      /\ Sextet(bytes, 4 * g + 2) = (a % 4) * 16 + (b \div 16)
      /\ Sextet(bytes, 4 * g + 3) = (b % 16) * 4 + (c \div 64)
      /\ Sextet(bytes, 4 * g + 4) = c % 64
  BY SextetsOfGroup
<1>5. group = a * 65536 + b * 256 + c
  BY SMT DEF GroupBits
<1> HIDE DEF a, b, c, group
<1>6. /\ (group \div 262144) % 64 = a \div 4
      /\ (group \div 4096) % 64 = (a % 4) * 16 + (b \div 16)
      /\ (group \div 64) % 64 = (b % 16) * 4 + (c \div 64)
      /\ group % 64 = c % 64
  BY <1>3, <1>5, GroupOfBits, SMT
<1>7. group \in Nat /\ group \div 1 = group
  BY <1>3, <1>5, SMT
<1>8. /\ ShiftOf(4 * g + 1) = 262144 /\ ShiftOf(4 * g + 2) = 4096
      /\ ShiftOf(4 * g + 3) = 64 /\ ShiftOf(4 * g + 4) = 1
  <2>1. 64^3 = 262144 /\ 64^2 = 4096 /\ 64^1 = 64 /\ 64^0 = 1
    BY SMT
  <2> QED BY <2>1, ShiftAt, SMT
<1>9. (group \div ShiftOf(j)) % 64 = Sextet(bytes, j)
  <2>1. CASE j = 4 * g + 1
    BY <1>4, <1>6, <1>8, <2>1, SMT
  <2>2. CASE j = 4 * g + 2
    BY <1>4, <1>6, <1>8, <2>2, SMT
  <2>3. CASE j = 4 * g + 3
    BY <1>4, <1>6, <1>8, <2>3, SMT
  <2>4. CASE j = 4 * g + 4
    BY <1>4, <1>6, <1>7, <1>8, <2>4, SMT
  <2> QED BY <1>1, <2>1, <2>2, <2>3, <2>4
<1> QED BY <1>2, <1>9 DEF group

\* base64.cpp, base64_encode: what it writes for any sequence of bytes is the standard's
\* text, with the incomplete last group filled up and padded.
THEOREM EncodeIsStandard ==
  ASSUME NEW bytes \in Seq(Byte)
  PROVE  base64_encode(bytes) = Rfc4648(bytes)
<1> DEFINE n == Len(bytes)
           m == SymbolCount(n)
           all == 4 * ((n + 2) \div 3)
           s == Coded(bytes, m)
           p == PaddingOf(n)
           coded == s \o p
<1>1. n \in Nat /\ m \in Nat /\ all \in Nat /\ all - m \in Nat
  BY DEF SymbolCount
<1>2. \A j \in Nat : 3 * (j - 1) >= 4 * n <=> j > m
  BY <1>1 DEF SymbolCount
<1>3. s \in Seq(Alphabet) /\ Len(s) = m
  BY <1>1, CodedIsText, Zenon
<1>4. p = [k \in 1..(all - m) |-> Padding]
  <2>1. ((n + 2) \div 3) * 4 = all
    BY <1>1
  <2> HIDE DEF n, m, all
  <2> QED BY <2>1 DEF PaddingOf, m
<1>5. base64_encode(bytes) = coded
  BY EncodedIs, Zenon
<1>6. ASSUME NEW j \in 1..m PROVE s[j] = Symbol(Sextet(bytes, j))
  BY DEF Coded
<1> HIDE DEF m, all, s, p
<1>7. p \in Seq({Padding}) /\ Len(p) = all - m /\ \A k \in 1..(all - m) : p[k] = Padding
  BY <1>1, <1>4
<1>8. Len(coded) = all /\ coded \in Seq(Alphabet \cup {Padding})
  BY <1>1, <1>3, <1>7
<1>9. ASSUME NEW j \in 1..all
      PROVE  coded[j] = IF 3 * (j - 1) >= 4 * n THEN Padding ELSE Symbol(Sextet(bytes, j))
  <2>1. CASE j <= m
    <3>1. coded[j] = s[j]
      BY <1>1, <1>3, <1>7, <2>1
    <3>2. ~ (3 * (j - 1) >= 4 * n)
      BY <1>1, <1>2, <2>1
    <3>3. j \in 1..m
      BY <1>1, <2>1
    <3> QED BY <1>6, <3>1, <3>2, <3>3
  <2>2. CASE j > m
    <3>1. coded[j] = p[j - m] /\ j - m \in 1..(all - m)
      BY <1>1, <1>3, <1>7, <2>2
    <3>2. 3 * (j - 1) >= 4 * n
      BY <1>1, <1>2, <2>2
    <3> QED BY <1>7, <3>1, <3>2
  <2>3. j \in Int /\ m \in Int
    BY <1>1
  <2> HIDE DEF coded, n
  <2> QED BY <2>1, <2>2, <2>3
<1>10. coded = [j \in 1..all |-> coded[j]]
  <2> HIDE DEF coded
  <2> QED BY <1>1, <1>8
<1>11. coded = [j \in 1..all |-> IF 3 * (j - 1) >= 4 * n THEN Padding ELSE Symbol(Sextet(bytes, j))]
  <2> HIDE DEF coded, n
  <2> QED BY <1>9, <1>10
<1>12. Rfc4648(bytes)
         = [j \in 1..all |-> IF 3 * (j - 1) >= 4 * n THEN Padding ELSE Symbol(Sextet(bytes, j))]
  <2>1. ASSUME NEW j \in 1..all PROVE j \in Nat /\ j # 0
    BY <1>1
  <2>2. \A j \in 1..all : (GroupBits(bytes, (j - 1) \div 4) \div ShiftOf(j)) % 64 = Sextet(bytes, j)
    BY <2>1, StandardSextet, Zenon
  <2>3. Rfc4648(bytes)
          = [j \in 1..all |-> IF 3 * (j - 1) >= 4 * n THEN Padding
                              ELSE Symbol((GroupBits(bytes, (j - 1) \div 4) \div ShiftOf(j)) % 64)]
    BY DEF Rfc4648, all, GroupBits, ByteAt, ShiftOf
  <2> HIDE DEF n
  <2> QED BY <2>2, <2>3
<1> QED BY <1>5, <1>11, <1>12, Zenon

\* One symbol onto 0, 6, 4 or 2 bits that are left over: the byte it completes, and the
\* bits it leaves.
LEMMA DecodeOnto0 ==
  ASSUME NEW out, NEW c, SymbolValue(c) \in 0..63
  PROVE  DecodeSymbol([out |-> out, bits |-> 0, acc |-> 0], c)
           = [out |-> out, bits |-> 6, acc |-> SymbolValue(c)]
<1>1. 0 + 6 = 6 /\ 6 < 8 /\ 0 * 64 + SymbolValue(c) = SymbolValue(c)
  OBVIOUS
<1> QED BY <1>1 DEF DecodeSymbol

LEMMA DecodeOnto ==
  ASSUME NEW out, NEW c, NEW acc, NEW bits \in {2, 4, 6}
  PROVE  DecodeSymbol([out |-> out, bits |-> bits, acc |-> acc], c)
           = [out |-> Append(out, (acc * 64 + SymbolValue(c)) \div 2^((bits + 6) - 8)),
              bits |-> (bits + 6) - 8,
              acc |-> (acc * 64 + SymbolValue(c)) % 2^((bits + 6) - 8)]
<1>1. ~ (bits + 6 < 8)
  OBVIOUS
<1> QED BY <1>1, Zenon DEF DecodeSymbol

LEMMA DecodeOnto6 ==
  ASSUME NEW out, NEW c, SymbolValue(c) \in 0..63, NEW acc \in 0..63
  PROVE  DecodeSymbol([out |-> out, bits |-> 6, acc |-> acc], c)
           = [out |-> Append(out, acc * 4 + (SymbolValue(c) \div 16)), bits |-> 4, acc |-> SymbolValue(c) % 16]
<1> DEFINE v == SymbolValue(c)
<1>1. v \in Nat /\ v < 64 /\ acc \in Nat
  OBVIOUS
<1>2. 6 \in {2, 4, 6} /\ (6 + 6) - 8 = 4 /\ 2^4 = 16
  OBVIOUS
<1>3. DecodeSymbol([out |-> out, bits |-> 6, acc |-> acc], c)
        = [out |-> Append(out, (acc * 64 + v) \div 2^((6 + 6) - 8)), bits |-> (6 + 6) - 8,
           acc |-> (acc * 64 + v) % 2^((6 + 6) - 8)]
  BY <1>2, DecodeOnto, ZenonT(60)
<1> HIDE DEF v
<1>4. (acc * 64 + v) \div 16 = acc * 4 + (v \div 16) /\ (acc * 64 + v) % 16 = v % 16
  BY <1>1
<1> QED BY <1>2, <1>3, <1>4, Zenon DEF v

LEMMA DecodeOnto4 ==
  ASSUME NEW out, NEW c, SymbolValue(c) \in 0..63, NEW acc \in 0..15
  PROVE  DecodeSymbol([out |-> out, bits |-> 4, acc |-> acc], c)
           = [out |-> Append(out, acc * 16 + (SymbolValue(c) \div 4)), bits |-> 2, acc |-> SymbolValue(c) % 4]
<1> DEFINE v == SymbolValue(c)
<1>1. v \in Nat /\ v < 64 /\ acc \in Nat
  OBVIOUS
<1>2. 4 \in {2, 4, 6} /\ (4 + 6) - 8 = 2 /\ 2^2 = 4
  OBVIOUS
<1>3. DecodeSymbol([out |-> out, bits |-> 4, acc |-> acc], c)
        = [out |-> Append(out, (acc * 64 + v) \div 2^((4 + 6) - 8)), bits |-> (4 + 6) - 8,
           acc |-> (acc * 64 + v) % 2^((4 + 6) - 8)]
  BY <1>2, DecodeOnto, ZenonT(60)
<1> HIDE DEF v
<1>4. (acc * 64 + v) \div 4 = acc * 16 + (v \div 4) /\ (acc * 64 + v) % 4 = v % 4
  BY <1>1
<1> QED BY <1>2, <1>3, <1>4, Zenon DEF v

LEMMA DecodeOnto2 ==
  ASSUME NEW out, NEW c, SymbolValue(c) \in 0..63, NEW acc \in 0..3
  PROVE  DecodeSymbol([out |-> out, bits |-> 2, acc |-> acc], c)
           = [out |-> Append(out, acc * 64 + SymbolValue(c)), bits |-> 0, acc |-> 0]
<1> DEFINE v == SymbolValue(c)
<1>1. v \in Nat /\ v < 64 /\ acc \in Nat
  OBVIOUS
<1>2. 2 \in {2, 4, 6} /\ (2 + 6) - 8 = 0 /\ 2^0 = 1
  OBVIOUS
<1>3. DecodeSymbol([out |-> out, bits |-> 2, acc |-> acc], c)
        = [out |-> Append(out, (acc * 64 + v) \div 2^((2 + 6) - 8)), bits |-> (2 + 6) - 8,
           acc |-> (acc * 64 + v) % 2^((2 + 6) - 8)]
  BY <1>2, DecodeOnto, ZenonT(60)
<1> HIDE DEF v
<1>4. (acc * 64 + v) \div 1 = acc * 64 + v /\ (acc * 64 + v) % 1 = 0
  BY <1>1
<1> QED BY <1>2, <1>3, <1>4, Zenon DEF v

\* What the i-th byte is made of, out of the symbols of its group.
Octet(kept, i) ==
  LET value(k) == SymbolValue(kept[4 * ((i - 1) \div 3) + k])
  IN  CASE i % 3 = 1 -> value(1) * 4 + (value(2) \div 16)
        [] i % 3 = 2 -> (value(2) % 16) * 16 + (value(3) \div 4)
        [] i % 3 = 0 -> (value(3) % 4) * 64 + value(4)

Octets(kept, m) == [i \in 1..m |-> Octet(kept, i)]

LEMMA OctetsOfGroup ==
  ASSUME NEW kept, NEW g \in Nat
  PROVE  /\ Octet(kept, 3 * g + 1) = SymbolValue(kept[4 * g + 1]) * 4 + (SymbolValue(kept[4 * g + 2]) \div 16)
         /\ Octet(kept, 3 * g + 2)
              = (SymbolValue(kept[4 * g + 2]) % 16) * 16 + (SymbolValue(kept[4 * g + 3]) \div 4)
         /\ Octet(kept, 3 * g + 3) = (SymbolValue(kept[4 * g + 3]) % 4) * 64 + SymbolValue(kept[4 * g + 4])
<1>1. /\ ((3 * g + 1) - 1) \div 3 = g /\ ((3 * g + 2) - 1) \div 3 = g /\ ((3 * g + 3) - 1) \div 3 = g
      /\ (3 * g + 1) % 3 = 1 /\ (3 * g + 2) % 3 = 2 /\ (3 * g + 3) % 3 = 0
  OBVIOUS
<1> QED BY <1>1 DEF Octet

\* Bytes are bytes as long as they are made of complete sextets.
LEMMA OctetIsByte ==
  ASSUME NEW a \in 0..63, NEW b \in 0..63
  PROVE  /\ a * 4 + (b \div 16) \in Byte /\ (a % 16) * 16 + (b \div 4) \in Byte
         /\ (a % 4) * 64 + b \in Byte /\ a % 16 \in 0..15 /\ a % 4 \in 0..3
<1>1. a \in Nat /\ b \in Nat /\ a < 64 /\ b < 64
  OBVIOUS
<1>2. /\ a * 4 + (b \div 16) \in Nat /\ a * 4 + (b \div 16) < 256
      /\ (a % 16) * 16 + (b \div 4) \in Nat /\ (a % 16) * 16 + (b \div 4) < 256
      /\ (a % 4) * 64 + b \in Nat /\ (a % 4) * 64 + b < 256
  BY <1>1
<1>3. \A x \in Nat : x < 256 => x \in Byte
  BY DEF Byte
<1>4. a % 16 \in 0..15 /\ a % 4 \in 0..3
  BY <1>1
<1> QED BY <1>2, <1>3, <1>4

\* A sequence with one more element.
LEMMA OneMore ==
  ASSUME NEW S, NEW m \in Nat, NEW s \in Seq(S), NEW t \in Seq(S), Len(s) = m, Len(t) = m + 1,
         \A k \in 1..m : s[k] = t[k]
  PROVE  Append(s, t[m + 1]) = t
OBVIOUS

\* A text of nothing but symbols.
SymbolText(kept) == Len(kept) \in Nat /\ \A j \in 1..Len(kept) : SymbolValue(kept[j]) \in 0..63

\* base64_decode after j symbols: the bytes that are complete, and the bits of the last
\* symbol that are not in any of them.
AfterSymbols(kept, j) ==
  [out  |-> Octets(kept, (3 * j) \div 4),
   bits |-> CASE j % 4 = 0 -> 0 [] j % 4 = 1 -> 6 [] j % 4 = 2 -> 4 [] j % 4 = 3 -> 2,
   acc  |-> CASE j % 4 = 0 -> 0
              [] j % 4 = 1 -> SymbolValue(kept[j])
              [] j % 4 = 2 -> SymbolValue(kept[j]) % 16
              [] j % 4 = 3 -> SymbolValue(kept[j]) % 4]

LEMMA AfterSymbolsAt ==
  ASSUME NEW kept, NEW g \in Nat
  PROVE  /\ AfterSymbols(kept, 4 * g) = [out |-> Octets(kept, 3 * g), bits |-> 0, acc |-> 0]
         /\ AfterSymbols(kept, 4 * g + 1)
              = [out |-> Octets(kept, 3 * g), bits |-> 6, acc |-> SymbolValue(kept[4 * g + 1])]
         /\ AfterSymbols(kept, 4 * g + 2)
              = [out |-> Octets(kept, 3 * g + 1), bits |-> 4, acc |-> SymbolValue(kept[4 * g + 2]) % 16]
         /\ AfterSymbols(kept, 4 * g + 3)
              = [out |-> Octets(kept, 3 * g + 2), bits |-> 2, acc |-> SymbolValue(kept[4 * g + 3]) % 4]
<1>1. /\ (3 * (4 * g)) \div 4 = 3 * g /\ (4 * g) % 4 = 0
      /\ (3 * (4 * g + 1)) \div 4 = 3 * g /\ (4 * g + 1) % 4 = 1
      /\ (3 * (4 * g + 2)) \div 4 = 3 * g + 1 /\ (4 * g + 2) % 4 = 2
      /\ (3 * (4 * g + 3)) \div 4 = 3 * g + 2 /\ (4 * g + 3) % 4 = 3
  OBVIOUS
<1> QED BY <1>1 DEF AfterSymbols

\* The bytes that are made of complete sextets are bytes.
LEMMA OctetsAreBytes ==
  ASSUME NEW kept, SymbolText(kept), NEW m \in Nat, 4 * m <= 3 * Len(kept)
  PROVE  Octets(kept, m) \in Seq(Byte) /\ Len(Octets(kept, m)) = m
<1>1. ASSUME NEW i \in 1..m PROVE Octet(kept, i) \in Byte
  <2> DEFINE g == (i - 1) \div 3
  <2>1. g \in Nat /\ i \in {3 * g + 1, 3 * g + 2, 3 * g + 3}
    OBVIOUS
  <2> HIDE DEF g
  <2> DEFINE v(k) == SymbolValue(kept[4 * g + k])
  <2>2. Len(kept) \in Nat /\ \A j \in 1..Len(kept) : SymbolValue(kept[j]) \in 0..63
    BY DEF SymbolText
  <2>3. CASE i = 3 * g + 1
    <3>1. 4 * g + 1 \in 1..Len(kept) /\ 4 * g + 2 \in 1..Len(kept)
      BY <2>1, <2>2, <2>3
    <3>2. v(1) \in 0..63 /\ v(2) \in 0..63
      BY <2>2, <3>1
    <3>3. Octet(kept, i) = v(1) * 4 + (v(2) \div 16)
      BY <2>1, <2>3, OctetsOfGroup, Zenon
    <3> HIDE DEF v
    <3> QED BY <3>2, <3>3, OctetIsByte, Zenon
  <2>4. CASE i = 3 * g + 2
    <3>1. 4 * g + 2 \in 1..Len(kept) /\ 4 * g + 3 \in 1..Len(kept)
      BY <2>1, <2>2, <2>4
    <3>2. v(2) \in 0..63 /\ v(3) \in 0..63
      BY <2>2, <3>1
    <3>3. Octet(kept, i) = (v(2) % 16) * 16 + (v(3) \div 4)
      BY <2>1, <2>4, OctetsOfGroup, Zenon
    <3> HIDE DEF v
    <3> QED BY <3>2, <3>3, OctetIsByte, Zenon
  <2>5. CASE i = 3 * g + 3
    <3>1. 4 * g + 3 \in 1..Len(kept) /\ 4 * g + 4 \in 1..Len(kept)
      BY <2>1, <2>2, <2>5
    <3>2. v(3) \in 0..63 /\ v(4) \in 0..63
      BY <2>2, <3>1
    <3>3. Octet(kept, i) = (v(3) % 4) * 64 + v(4)
      BY <2>1, <2>5, OctetsOfGroup, Zenon
    <3> HIDE DEF v
    <3> QED BY <3>2, <3>3, OctetIsByte, Zenon
  <2> QED BY <2>1, <2>3, <2>4, <2>5
<1> QED BY <1>1 DEF Octets

LEMMA OctetsOneMore ==
  ASSUME NEW kept, SymbolText(kept), NEW m \in Nat, 4 * (m + 1) <= 3 * Len(kept)
  PROVE  Append(Octets(kept, m), Octet(kept, m + 1)) = Octets(kept, m + 1)
<1> DEFINE s == Octets(kept, m)
           t == Octets(kept, m + 1)
<1>1. Len(kept) \in Nat /\ m + 1 \in Nat /\ 4 * m <= 3 * Len(kept)
  BY DEF SymbolText
<1>2. s \in Seq(Byte) /\ Len(s) = m
  BY <1>1, OctetsAreBytes, Zenon
<1>3. t \in Seq(Byte) /\ Len(t) = m + 1
  BY <1>1, OctetsAreBytes, Zenon
<1>4. (\A k \in 1..m : s[k] = t[k]) /\ t[m + 1] = Octet(kept, m + 1)
  BY DEF Octets
<1> HIDE DEF s, t
<1>5. Append(s, t[m + 1]) = t
  BY <1>2, <1>3, <1>4, OneMore, Zenon
<1> QED BY <1>4, <1>5, Zenon DEF s, t

\* The loop goes from one such state to the next.
LEMMA OneSymbolOn ==
  ASSUME NEW kept, SymbolText(kept), NEW j \in Nat, j < Len(kept)
  PROVE  DecodeSymbol(AfterSymbols(kept, j), kept[j + 1]) = AfterSymbols(kept, j + 1)
<1> DEFINE g == j \div 4
           v(k) == SymbolValue(kept[k])
<1>0. g \in Nat /\ Len(kept) \in Nat /\ j \in {4 * g, 4 * g + 1, 4 * g + 2, 4 * g + 3}
  BY DEF SymbolText
<1> HIDE DEF g
<1>1. \A k \in 1..Len(kept) : v(k) \in 0..63
  BY DEF SymbolText
<1>2. CASE j = 4 * g
  <2>0. 4 * g + 1 \in 1..Len(kept)
    BY <1>0, <1>2
  <2>1. v(4 * g + 1) \in 0..63
    BY <1>1, <2>0, Zenon
  <2>2. DecodeSymbol([out |-> Octets(kept, 3 * g), bits |-> 0, acc |-> 0], kept[4 * g + 1])
          = [out |-> Octets(kept, 3 * g), bits |-> 6, acc |-> v(4 * g + 1)]
    BY <2>1, DecodeOnto0, Zenon
  <2>3. AfterSymbols(kept, 4 * g) = [out |-> Octets(kept, 3 * g), bits |-> 0, acc |-> 0]
    BY <1>0, AfterSymbolsAt, Zenon
  <2>4. AfterSymbols(kept, 4 * g + 1) = [out |-> Octets(kept, 3 * g), bits |-> 6, acc |-> v(4 * g + 1)]
    BY <1>0, AfterSymbolsAt, Zenon
  <2> QED BY <1>2, <2>2, <2>3, <2>4, Zenon
<1>3. CASE j = 4 * g + 1
  <2>0. /\ 4 * g + 1 \in 1..Len(kept) /\ 4 * g + 2 \in 1..Len(kept)
        /\ j + 1 = 4 * g + 2 /\ 3 * g \in Nat /\ 4 * (3 * g + 1) <= 3 * Len(kept)
    BY <1>0, <1>3
  <2>1. v(4 * g + 1) \in 0..63 /\ v(4 * g + 2) \in 0..63
    BY <1>1, <2>0, Zenon
  <2>2. DecodeSymbol([out |-> Octets(kept, 3 * g), bits |-> 6, acc |-> v(4 * g + 1)], kept[4 * g + 2])
          = [out |-> Append(Octets(kept, 3 * g), v(4 * g + 1) * 4 + (v(4 * g + 2) \div 16)),
             bits |-> 4, acc |-> v(4 * g + 2) % 16]
    BY <2>1, DecodeOnto6, Zenon
  <2>3. Append(Octets(kept, 3 * g), v(4 * g + 1) * 4 + (v(4 * g + 2) \div 16)) = Octets(kept, 3 * g + 1)
    <3>1. Octet(kept, 3 * g + 1) = v(4 * g + 1) * 4 + (v(4 * g + 2) \div 16)
      BY <1>0, OctetsOfGroup, Zenon
    <3> QED BY <2>0, <3>1, OctetsOneMore, Zenon
  <2>4. AfterSymbols(kept, 4 * g + 1) = [out |-> Octets(kept, 3 * g), bits |-> 6, acc |-> v(4 * g + 1)]
    BY <1>0, AfterSymbolsAt, Zenon
  <2>5. AfterSymbols(kept, 4 * g + 2) = [out |-> Octets(kept, 3 * g + 1), bits |-> 4, acc |-> v(4 * g + 2) % 16]
    BY <1>0, AfterSymbolsAt, Zenon
  <2> QED BY <1>3, <2>0, <2>2, <2>3, <2>4, <2>5, Zenon
<1>4. CASE j = 4 * g + 2
  <2>0. /\ 4 * g + 2 \in 1..Len(kept) /\ 4 * g + 3 \in 1..Len(kept)
        /\ j + 1 = 4 * g + 3 /\ 3 * g + 1 \in Nat /\ (3 * g + 1) + 1 = 3 * g + 2
        /\ 4 * ((3 * g + 1) + 1) <= 3 * Len(kept)
    BY <1>0, <1>4
  <2>1. v(4 * g + 2) \in 0..63 /\ v(4 * g + 3) \in 0..63
    BY <1>1, <2>0, Zenon
  <2>2. DecodeSymbol([out |-> Octets(kept, 3 * g + 1), bits |-> 4, acc |-> v(4 * g + 2) % 16], kept[4 * g + 3])
          = [out |-> Append(Octets(kept, 3 * g + 1), (v(4 * g + 2) % 16) * 16 + (v(4 * g + 3) \div 4)),
             bits |-> 2, acc |-> v(4 * g + 3) % 4]
    <3>1. v(4 * g + 2) % 16 \in 0..15
      BY <2>1, OctetIsByte, Zenon
    <3> QED BY <2>1, <3>1, DecodeOnto4, Zenon
  <2>3. Append(Octets(kept, 3 * g + 1), (v(4 * g + 2) % 16) * 16 + (v(4 * g + 3) \div 4))
          = Octets(kept, 3 * g + 2)
    <3>1. Octet(kept, 3 * g + 2) = (v(4 * g + 2) % 16) * 16 + (v(4 * g + 3) \div 4)
      BY <1>0, OctetsOfGroup, Zenon
    <3> QED BY <2>0, <3>1, OctetsOneMore, Zenon
  <2>4. AfterSymbols(kept, 4 * g + 2) = [out |-> Octets(kept, 3 * g + 1), bits |-> 4, acc |-> v(4 * g + 2) % 16]
    BY <1>0, AfterSymbolsAt, Zenon
  <2>5. AfterSymbols(kept, 4 * g + 3) = [out |-> Octets(kept, 3 * g + 2), bits |-> 2, acc |-> v(4 * g + 3) % 4]
    BY <1>0, AfterSymbolsAt, Zenon
  <2> QED BY <1>4, <2>0, <2>2, <2>3, <2>4, <2>5, Zenon
<1>5. CASE j = 4 * g + 3
  <2>0. /\ 4 * g + 3 \in 1..Len(kept) /\ 4 * g + 4 \in 1..Len(kept)
        /\ j + 1 = 4 * g + 4 /\ 3 * g + 2 \in Nat /\ (3 * g + 2) + 1 = 3 * g + 3
        /\ 4 * ((3 * g + 2) + 1) <= 3 * Len(kept)
    BY <1>0, <1>5
  <2>1. v(4 * g + 3) \in 0..63 /\ v(4 * g + 4) \in 0..63
    BY <1>1, <2>0, Zenon
  <2>2. DecodeSymbol([out |-> Octets(kept, 3 * g + 2), bits |-> 2, acc |-> v(4 * g + 3) % 4], kept[4 * g + 4])
          = [out |-> Append(Octets(kept, 3 * g + 2), (v(4 * g + 3) % 4) * 64 + v(4 * g + 4)),
             bits |-> 0, acc |-> 0]
    <3>1. v(4 * g + 3) % 4 \in 0..3
      BY <2>1, OctetIsByte, Zenon
    <3> QED BY <2>1, <3>1, DecodeOnto2, Zenon
  <2>3. Append(Octets(kept, 3 * g + 2), (v(4 * g + 3) % 4) * 64 + v(4 * g + 4)) = Octets(kept, 3 * g + 3)
    <3>1. Octet(kept, 3 * g + 3) = (v(4 * g + 3) % 4) * 64 + v(4 * g + 4)
      BY <1>0, OctetsOfGroup, Zenon
    <3> QED BY <2>0, <3>1, OctetsOneMore, Zenon
  <2>4. AfterSymbols(kept, 4 * g + 3) = [out |-> Octets(kept, 3 * g + 2), bits |-> 2, acc |-> v(4 * g + 3) % 4]
    BY <1>0, AfterSymbolsAt, Zenon
  <2>5. AfterSymbols(kept, j + 1) = [out |-> Octets(kept, 3 * g + 3), bits |-> 0, acc |-> 0]
    <3>1. g + 1 \in Nat /\ j + 1 = 4 * (g + 1) /\ 3 * (g + 1) = 3 * g + 3
      BY <1>0, <1>5
    <3> QED BY <3>1, AfterSymbolsAt, Zenon
  <2> QED BY <1>5, <2>0, <2>2, <2>3, <2>4, <2>5, Zenon
<1> QED BY <1>0, <1>2, <1>3, <1>4, <1>5

\* So that is what the loop has done, by induction.
LEMMA DecodingIs ==
  ASSUME NEW kept, SymbolText(kept)
  PROVE  Decoding(kept)[Len(kept)] = AfterSymbols(kept, Len(kept))
<1> DEFINE n == Len(kept)
           S == {k \in 0..n : Decoding(kept)[k] = AfterSymbols(kept, k)}
<1>0. n \in Nat
  BY DEF SymbolText
<1>1. 0 \in S
  <2>1. Decoding(kept)[0] = Started
    BY <1>0, DecodingStep, Zenon
  <2>2. AfterSymbols(kept, 0) = [out |-> Octets(kept, 0), bits |-> 0, acc |-> 0]
    <3>1. 3 * 0 = 0 /\ 4 * 0 = 0 /\ 0 \in Nat
      OBVIOUS
    <3> QED BY <3>1, AfterSymbolsAt, Zenon
  <2>3. Octets(kept, 0) = <<>>
    BY DEF Octets
  <2> QED BY <1>0, <2>1, <2>2, <2>3 DEF Started
<1>2. ASSUME NEW k \in Nat, k < n, k \in S PROVE k + 1 \in S
  <2>1. k + 1 \in 1..n /\ (k + 1) - 1 = k
    BY <1>0, <1>2
  <2>2. Decoding(kept)[k + 1] = DecodeSymbol(Decoding(kept)[k], kept[k + 1])
    BY <1>0, <2>1, DecodingStep, Zenon
  <2>3. DecodeSymbol(AfterSymbols(kept, k), kept[k + 1]) = AfterSymbols(kept, k + 1)
    BY <1>2, OneSymbolOn
  <2> QED BY <1>0, <1>2, <2>1, <2>2, <2>3
<1>3. n \in S
  <2> HIDE DEF S, n
  <2>1. \A k \in 0..n : k \in S
    BY <1>0, <1>1, <1>2, UpTo
  <2> QED BY <1>0, <2>1
<1> QED BY <1>3

\* The loop over the characters yields a sequence of those that are not skipped.
LEMMA KeepingType ==
  ASSUME NEW S, NEW R, NEW t \in Seq(S), NEW i \in 0..Len(t), \A c \in S : Skipped(c) \/ c \in R
  PROVE  Keeping(t)[i] \in Seq(R)
<1> DEFINE n == Len(t)
           T == {k \in 0..n : Keeping(t)[k] \in Seq(R)}
<1>0. n \in Nat
  OBVIOUS
<1>1. 0 \in T
  <2>1. Keeping(t)[0] = <<>>
    BY <1>0, KeepingStep, Zenon
  <2>2. 0 \in 0..n
    <3> HIDE DEF n
    <3> QED BY <1>0
  <2>3. <<>> \in Seq(R)
    OBVIOUS
  <2> QED BY <2>1, <2>2, <2>3, Zenon
<1>2. ASSUME NEW k \in Nat, k < n, k \in T PROVE k + 1 \in T
  <2>1. k + 1 \in 1..n /\ k + 1 \in 0..n /\ (k + 1) - 1 = k
    BY <1>0, <1>2
  <2>2. Keeping(t)[k + 1] = Keep(Keeping(t)[k], t[k + 1])
    BY <1>0, <2>1, KeepingStep, Zenon
  <2>3. t[k + 1] \in S /\ Keeping(t)[k] \in Seq(R)
    BY <1>2, <2>1
  <2>4. Append(Keeping(t)[k], t[k + 1]) \in Seq(R) \/ Skipped(t[k + 1])
    BY <2>3
  <2> QED BY <2>1, <2>2, <2>3, <2>4 DEF Keep
<1>3. i \in T
  <2> HIDE DEF T, n
  <2>1. \A k \in 0..n : k \in T
    BY <1>0, <1>1, <1>2, UpTo
  <2> QED BY <2>1 DEF n
<1> QED BY <1>3

\* And so does the whole.
LEMMA KeptType ==
  ASSUME NEW S, NEW R, NEW t \in Seq(S), \A c \in S : Skipped(c) \/ c \in R
  PROVE  Kept(t) \in Seq(R)
<1>1. Len(t) \in 0..Len(t)
  OBVIOUS
<1> QED BY <1>1, KeepingType, Zenon DEF Kept

\* To append to the second of two sequences is to append to both.
AppendsToBoth(x, y, z) == Append(x \o y, z) = x \o Append(y, z)

LEMMA AppendToBoth ==
  ASSUME NEW S, NEW x \in Seq(S), NEW y \in Seq(S), NEW z \in S
  PROVE  AppendsToBoth(x, y, z)
<1>1. x \o y \in Seq(S) /\ <<z>> \in Seq(S)
  OBVIOUS
<1>2. Append(x \o y, z) = (x \o y) \o <<z>>
  BY <1>1, AppendIsConcat, Zenon
<1>3. Append(y, z) = y \o <<z>>
  BY AppendIsConcat, Zenon
<1> DEFINE w == <<z>>
<1>4. w \in Seq(S)
  BY <1>1
<1> HIDE DEF w
<1>5. (x \o y) \o w = x \o (y \o w)
  BY <1>4, ConcatAssociative
<1> QED BY <1>2, <1>3, <1>5 DEF w, AppendsToBoth

\* What is kept of two texts in a row is what is kept of the one and of the other.
LEMMA KeptOfBoth ==
  ASSUME NEW S, NEW a \in Seq(S), NEW b \in Seq(S)
  PROVE  Kept(a \o b) = Kept(a) \o Kept(b)
<1> DEFINE m == Len(a)
           n == Len(b)
           t == a \o b
<1>0. /\ m \in Nat /\ n \in Nat /\ t \in Seq(S) /\ Len(t) = m + n
      /\ (\A i \in 1..m : t[i] = a[i]) /\ \A j \in 1..n : t[m + j] = b[j]
  OBVIOUS
<1>1. Keeping(t)[m] = Kept(a)
  <2> DEFINE T == {k \in 0..m : Keeping(t)[k] = Keeping(a)[k]}
  <2>0. m \in Nat /\ Len(t) \in Nat
    BY <1>0
  <2>1. 0 \in T
    <3>1. Keeping(t)[0] = <<>> /\ Keeping(a)[0] = <<>>
      BY <2>0, KeepingStep, Zenon
    <3> QED BY <1>0, <3>1
  <2>2. ASSUME NEW k \in Nat, k < m, k \in T PROVE k + 1 \in T
    <3>1. k + 1 \in 1..m /\ k + 1 \in 1..Len(t) /\ (k + 1) - 1 = k
      <4> HIDE DEF m, n, t
      <4> QED BY <1>0, <2>2
    <3>2. Keeping(t)[k + 1] = Keep(Keeping(t)[k], t[k + 1])
      BY <2>0, <3>1, KeepingStep, Zenon
    <3>3. Keeping(a)[k + 1] = Keep(Keeping(a)[k], a[k + 1])
      BY <2>0, <3>1, KeepingStep, Zenon
    <3>4. t[k + 1] = a[k + 1]
      BY <1>0, <3>1, Zenon
    <3>5. k + 1 \in 0..m
      BY <3>1
    <3> QED BY <2>2, <3>2, <3>3, <3>4, <3>5
  <2>3. m \in T
    <3> HIDE DEF T, m, t
    <3>1. \A k \in 0..m : k \in T
      BY <2>0, <2>1, <2>2, UpTo
    <3> QED BY <2>0, <3>1
  <2> QED BY <2>3 DEF Kept
<1>2. Keeping(t)[m + n] = Kept(a) \o Keeping(b)[n]
  <2> DEFINE T == {k \in 0..n : Keeping(t)[m + k] = Kept(a) \o Keeping(b)[k]}
  <2>0. n \in Nat /\ Len(t) \in Nat
    BY <1>0
  <2>1. Kept(a) \in Seq(S)
    BY KeptType, Zenon
  <2>2. 0 \in T
    <3>1. Keeping(b)[0] = <<>>
      BY <2>0, KeepingStep, Zenon
    <3>2. m + 0 = m /\ 0 \in 0..n
      BY <1>0
    <3>3. Kept(a) \o <<>> = Kept(a)
      BY <2>1, ConcatEmptySeq, Zenon
    <3> HIDE DEF m, n, t
    <3> QED BY <1>1, <3>1, <3>2, <3>3
  <2>3. ASSUME NEW k \in Nat, k < n, k \in T PROVE k + 1 \in T
    <3>1. /\ k + 1 \in 1..n /\ k + 1 \in 0..n /\ k \in 0..n /\ (k + 1) - 1 = k
          /\ m + (k + 1) \in 1..Len(t) /\ (m + (k + 1)) - 1 = m + k
      <4> HIDE DEF m, n, t
      <4> QED BY <1>0, <2>3
    <3>2. Keeping(t)[m + (k + 1)] = Keep(Keeping(t)[m + k], t[m + (k + 1)])
      BY <2>0, <3>1, KeepingStep, Zenon
    <3>3. Keeping(b)[k + 1] = Keep(Keeping(b)[k], b[k + 1])
      BY <2>0, <3>1, KeepingStep, Zenon
    <3>4. t[m + (k + 1)] = b[k + 1]
      BY <1>0, <3>1, Zenon
    <3>5. Keeping(b)[k] \in Seq(S)
      BY <3>1, KeepingType, Zenon
    <3>6. b[k + 1] \in S
      BY <3>1
    <3>7. Append(Kept(a) \o Keeping(b)[k], b[k + 1]) = Kept(a) \o Append(Keeping(b)[k], b[k + 1])
      <4> HIDE DEF m, n, t, T
      <4>1. AppendsToBoth(Kept(a), Keeping(b)[k], b[k + 1])
        BY <2>1, <3>5, <3>6, AppendToBoth, Zenon
      <4> QED BY <4>1 DEF AppendsToBoth
    <3>8. Keeping(t)[m + k] = Kept(a) \o Keeping(b)[k]
      BY <2>3
    <3>9. Keeping(t)[m + (k + 1)] = Kept(a) \o Keeping(b)[k + 1]
      BY <3>2, <3>3, <3>4, <3>7, <3>8, Zenon DEF Keep
    <3> QED BY <3>1, <3>9
  <2>4. n \in T
    <3> HIDE DEF T, m, n, t
    <3>1. \A k \in 0..n : k \in T
      BY <2>0, <2>2, <2>3, UpTo
    <3> QED BY <2>0, <3>1
  <2> QED BY <2>4
<1>3. Kept(t) = Keeping(t)[m + n]
  BY <1>0, Zenon DEF Kept
<1> QED BY <1>2, <1>3, Zenon DEF Kept

\* A text without white space and padding is kept whole.
LEMMA KeptWhole ==
  ASSUME NEW S, NEW t \in Seq(S), \A c \in S : ~ Skipped(c)
  PROVE  Kept(t) = t
<1> DEFINE n == Len(t)
           T == {k \in 0..n : Keeping(t)[k] = SubSeq(t, 1, k)}
<1>0. n \in Nat
  OBVIOUS
<1>1. 0 \in T
  <2>1. Keeping(t)[0] = <<>>
    BY <1>0, KeepingStep, Zenon
  <2>2. SubSeq(t, 1, 0) = <<>>
    OBVIOUS
  <2>3. 0 \in 0..n
    <3> HIDE DEF n
    <3> QED BY <1>0
  <2> QED BY <2>1, <2>2, <2>3, Zenon
<1>2. ASSUME NEW k \in Nat, k < n, k \in T PROVE k + 1 \in T
  <2>1. k + 1 \in 1..n /\ k + 1 \in 0..n /\ (k + 1) - 1 = k
    BY <1>0, <1>2
  <2>2. Keeping(t)[k + 1] = Keep(Keeping(t)[k], t[k + 1])
    BY <1>0, <2>1, KeepingStep, Zenon
  <2>3. t[k + 1] \in S
    BY <2>1
  <2>4. Keeping(t)[k + 1] = Append(SubSeq(t, 1, k), t[k + 1])
    BY <1>2, <2>2, <2>3 DEF Keep
  <2>5. Append(SubSeq(t, 1, k), t[k + 1]) = SubSeq(t, 1, k + 1)
    BY <2>1
  <2> QED BY <2>1, <2>4, <2>5
<1>3. n \in T
  <2> HIDE DEF T, n
  <2>1. \A k \in 0..n : k \in T
    BY <1>0, <1>1, <1>2, UpTo
  <2> QED BY <1>0, <2>1
<1>4. SubSeq(t, 1, n) = t
  OBVIOUS
<1> QED BY <1>3, <1>4 DEF Kept

\* Nothing is kept of white space and padding.
LEMMA KeptNothing ==
  ASSUME NEW S, NEW t \in Seq(S), \A c \in S : Skipped(c)
  PROVE  Kept(t) = <<>>
<1> DEFINE n == Len(t)
           T == {k \in 0..n : Keeping(t)[k] = <<>>}
<1>0. n \in Nat
  OBVIOUS
<1>1. 0 \in T
  <2>1. Keeping(t)[0] = <<>>
    BY <1>0, KeepingStep, Zenon
  <2> QED BY <1>0, <2>1
<1>2. ASSUME NEW k \in Nat, k < n, k \in T PROVE k + 1 \in T
  <2>1. k + 1 \in 1..n /\ k + 1 \in 0..n /\ (k + 1) - 1 = k
    BY <1>0, <1>2
  <2>2. Keeping(t)[k + 1] = Keep(Keeping(t)[k], t[k + 1])
    BY <1>0, <2>1, KeepingStep, Zenon
  <2>3. t[k + 1] \in S
    BY <2>1
  <2> QED BY <1>2, <2>1, <2>2, <2>3 DEF Keep
<1>3. n \in T
  <2> HIDE DEF T, n
  <2>1. \A k \in 0..n : k \in T
    BY <1>0, <1>1, <1>2, UpTo
  <2> QED BY <1>0, <2>1
<1> QED BY <1>3 DEF Kept

\* The characters of the alphabet have values, and none of them is skipped.
LEMMA AlphabetIsKept ==
  ASSUME NEW c \in Alphabet
  PROVE  SymbolValue(c) \in 0..63 /\ ~ Skipped(c)
<1>1. CASE c \in 65..90
  BY <1>1 DEF SymbolValue, Skipped, Space, Padding
<1>2. CASE c \in 97..122
  BY <1>2 DEF SymbolValue, Skipped, Space, Padding
<1>3. CASE c \in 48..57
  BY <1>3 DEF SymbolValue, Skipped, Space, Padding
<1>4. CASE c = 43
  BY <1>4 DEF SymbolValue, Skipped, Space, Padding
<1>5. CASE c = 47
  BY <1>5 DEF SymbolValue, Skipped, Space, Padding
<1> QED BY <1>1, <1>2, <1>3, <1>4, <1>5 DEF Alphabet

\* What base64_decode answers when all that is kept are symbols.
LEMMA DecodedIs ==
  ASSUME NEW coded, SymbolText(Kept(coded))
  PROVE  base64_decode(coded) = Octets(Kept(coded), (3 * Len(Kept(coded))) \div 4)
<1> DEFINE kept == Kept(coded)
<1>1. ~ \E i \in 1..Len(kept) : SymbolValue(kept[i]) > 63
  <2> SUFFICES ASSUME NEW i \in 1..Len(kept) PROVE ~ (SymbolValue(kept[i]) > 63)
    OBVIOUS
  <2>1. SymbolValue(kept[i]) \in 0..63
    BY Zenon DEF SymbolText
  <2>2. \A v \in 0..63 : ~ (v > 63)
    OBVIOUS
  <2> QED BY <2>1, <2>2, Zenon
<1>2. Decoding(kept)[Len(kept)] = AfterSymbols(kept, Len(kept))
  BY DecodingIs, Zenon
<1>3. AfterSymbols(kept, Len(kept)).out = Octets(kept, (3 * Len(kept)) \div 4)
  BY DEF AfterSymbols
<1>4. base64_decode(coded) = Decoding(kept)[Len(kept)].out
  BY <1>1, Zenon DEF base64_decode
<1> QED BY <1>2, <1>3, <1>4, Zenon

\* And when one of them is not.
LEMMA DecodedNothing ==
  ASSUME NEW coded, NEW i \in 1..Len(Kept(coded)), SymbolValue(Kept(coded)[i]) > 63
  PROVE  base64_decode(coded) = <<>>
<1>1. \E j \in 1..Len(Kept(coded)) : SymbolValue(Kept(coded)[j]) > 63
  OBVIOUS
<1> QED BY <1>1, Zenon DEF base64_decode

\* Four sextets are three bytes.
LEMMA SextetsMakeBytes ==
  ASSUME NEW a \in 0..255, NEW b \in 0..255, NEW c \in 0..255
  PROVE  /\ (a \div 4) * 4 + (((a % 4) * 16 + (b \div 16)) \div 16) = a
         /\ (((a % 4) * 16 + (b \div 16)) % 16) * 16 + (((b % 16) * 4 + (c \div 64)) \div 4) = b
         /\ (((b % 16) * 4 + (c \div 64)) % 4) * 64 + (c % 64) = c
<1>1. a \in Nat /\ b \in Nat /\ c \in Nat /\ a < 256 /\ b < 256 /\ c < 256
  OBVIOUS
<1>2. ((a % 4) * 16 + (b \div 16)) \div 16 = a % 4 /\ ((a % 4) * 16 + (b \div 16)) % 16 = b \div 16
  BY <1>1
<1>3. ((b % 16) * 4 + (c \div 64)) \div 4 = b % 16 /\ ((b % 16) * 4 + (c \div 64)) % 4 = c \div 64
  BY <1>1
<1>4. (a \div 4) * 4 + (a % 4) = a
  BY <1>1
<1>5. (b \div 16) * 16 + (b % 16) = b
  BY <1>1
<1>6. (c \div 64) * 64 + (c % 64) = c
  BY <1>1
<1> QED BY <1>2, <1>3, <1>4, <1>5, <1>6

\* Enough symbols of a text of bytes give the bytes back.
LEMMA OctetsOfCoded ==
  ASSUME NEW bytes \in Seq(Byte)
  PROVE  Octets(Coded(bytes, SymbolCount(Len(bytes))), Len(bytes)) = bytes
<1> DEFINE n == Len(bytes)
           m == SymbolCount(n)
           kept == Coded(bytes, m)
<1>0. n \in Nat /\ m \in Nat /\ bytes = [i \in 1..n |-> bytes[i]]
  BY DEF SymbolCount
<1>1. ASSUME NEW j \in 1..m PROVE SymbolValue(kept[j]) = Sextet(bytes, j)
  <2>1. kept[j] = Symbol(Sextet(bytes, j))
    BY DEF Coded
  <2>2. j \in Nat /\ j # 0
    OBVIOUS
  <2>3. Sextet(bytes, j) \in 0..63
    BY <2>2, SextetIsSextet, Zenon
  <2> QED BY <2>1, <2>3, SymbolOfValue, Zenon
<1>2. ASSUME NEW i \in 1..n PROVE Octet(kept, i) = bytes[i]
  <2> DEFINE g == (i - 1) \div 3
             a == ByteAt(bytes, 3 * g + 1)
             b == ByteAt(bytes, 3 * g + 2)
             c == ByteAt(bytes, 3 * g + 3)
             v(k) == SymbolValue(kept[4 * g + k])
  <2>1. g \in Nat /\ i \in {3 * g + 1, 3 * g + 2, 3 * g + 3} /\ i <= n
    OBVIOUS
  <2>2. a \in 0..255 /\ b \in 0..255 /\ c \in 0..255
    <3> HIDE DEF g
    <3> QED BY <2>1, ByteAtIsByte
  <2>3. /\ Sextet(bytes, 4 * g + 1) = a \div 4 /\ Sextet(bytes, 4 * g + 2) = (a % 4) * 16 + (b \div 16)
        /\ Sextet(bytes, 4 * g + 3) = (b % 16) * 4 + (c \div 64) /\ Sextet(bytes, 4 * g + 4) = c % 64
    BY <2>1, SextetsOfGroup, Zenon
  <2>4. /\ Octet(kept, 3 * g + 1) = v(1) * 4 + (v(2) \div 16)
        /\ Octet(kept, 3 * g + 2) = (v(2) % 16) * 16 + (v(3) \div 4)
        /\ Octet(kept, 3 * g + 3) = (v(3) % 4) * 64 + v(4)
    BY <2>1, OctetsOfGroup, Zenon
  <2>5. i \in Nat /\ i # 0 /\ i \in 1..n
    OBVIOUS
  <2>6. ByteAt(bytes, i) = bytes[i]
    BY <2>1 DEF ByteAt
  <2> HIDE DEF g, kept, v, a, b, c
  <2>10. /\ (a \div 4) * 4 + (((a % 4) * 16 + (b \div 16)) \div 16) = a
         /\ (((a % 4) * 16 + (b \div 16)) % 16) * 16 + (((b % 16) * 4 + (c \div 64)) \div 4) = b
         /\ (((b % 16) * 4 + (c \div 64)) % 4) * 64 + (c % 64) = c
    BY <2>2, SextetsMakeBytes, ZenonT(60)
  <2>7. CASE i = 3 * g + 1
    <3>1. 4 * g + 1 \in 1..m /\ 4 * g + 2 \in 1..m
      BY <1>0, <2>1, <2>7 DEF SymbolCount
    <3>2. v(1) = a \div 4 /\ v(2) = (a % 4) * 16 + (b \div 16)
      BY <1>1, <2>3, <3>1, Zenon DEF v
    <3>3. Octet(kept, i) = (a \div 4) * 4 + (((a % 4) * 16 + (b \div 16)) \div 16)
      BY <2>4, <2>7, <3>2, Zenon
    <3>4. a = bytes[i]
      BY <2>6, <2>7 DEF a
    <3> QED BY <2>10, <3>3, <3>4, Zenon
  <2>8. CASE i = 3 * g + 2
    <3>1. 4 * g + 2 \in 1..m /\ 4 * g + 3 \in 1..m
      BY <1>0, <2>1, <2>8 DEF SymbolCount
    <3>2. v(2) = (a % 4) * 16 + (b \div 16) /\ v(3) = (b % 16) * 4 + (c \div 64)
      BY <1>1, <2>3, <3>1, Zenon DEF v
    <3>3. Octet(kept, i) = (((a % 4) * 16 + (b \div 16)) % 16) * 16 + (((b % 16) * 4 + (c \div 64)) \div 4)
      BY <2>4, <2>8, <3>2, Zenon
    <3>4. b = bytes[i]
      BY <2>6, <2>8 DEF b
    <3> QED BY <2>10, <3>3, <3>4, Zenon
  <2>9. CASE i = 3 * g + 3
    <3>1. 4 * g + 3 \in 1..m /\ 4 * g + 4 \in 1..m
      BY <1>0, <2>1, <2>9 DEF SymbolCount
    <3>2. v(3) = (b % 16) * 4 + (c \div 64) /\ v(4) = c % 64
      BY <1>1, <2>3, <3>1, Zenon DEF v
    <3>3. Octet(kept, i) = (((b % 16) * 4 + (c \div 64)) % 4) * 64 + (c % 64)
      BY <2>4, <2>9, <3>2, Zenon
    <3>4. c = bytes[i]
      BY <2>6, <2>9 DEF c
    <3> QED BY <2>10, <3>3, <3>4, Zenon
  <2> QED BY <2>1, <2>7, <2>8, <2>9
<1>3. Octets(kept, n) = [i \in 1..n |-> bytes[i]]
  <2> HIDE DEF kept, n
  <2> QED BY <1>2 DEF Octets
<1> QED BY <1>0, <1>3, Zenon

\* The padding is padding.
LEMMA PaddingIsPadding ==
  ASSUME NEW n \in Nat
  PROVE  PaddingOf(n) \in Seq({Padding})
<1> DEFINE w == ((n + 2) \div 3) * 4 - SymbolCount(n)
           p == PaddingOf(n)
<1>1. w \in Nat
  BY DEF SymbolCount
<1>2. p = [k \in 1..w |-> Padding]
  BY DEF PaddingOf
<1> HIDE DEF w, p
<1>3. p \in Seq({Padding})
  BY <1>1, <1>2
<1> QED BY <1>3 DEF p

\* What is kept of the text of some bytes, and how many bytes that many symbols are.
LEMMA KeptOfEncoded ==
  ASSUME NEW bytes \in Seq(Byte)
  PROVE  /\ Kept(base64_encode(bytes)) = Coded(bytes, SymbolCount(Len(bytes)))
         /\ Kept(base64_encode(bytes)) \in Seq(Alphabet)
         /\ Len(Kept(base64_encode(bytes))) = SymbolCount(Len(bytes))
         /\ base64_encode(bytes) \in Seq(Alphabet \cup {Padding})
         /\ SymbolCount(Len(bytes)) \in Nat
<1> DEFINE n == Len(bytes)
           m == SymbolCount(n)
           s == Coded(bytes, m)
           p == PaddingOf(n)
           S == Alphabet \cup {Padding}
<1>1. n \in Nat /\ m \in Nat
  BY DEF SymbolCount
<1>2. s \in Seq(Alphabet) /\ Len(s) = m
  BY <1>1, CodedIsText, Zenon
<1>3. p \in Seq({Padding})
  BY <1>1, PaddingIsPadding, Zenon
<1>4. base64_encode(bytes) = s \o p
  BY EncodedIs, Zenon
<1> HIDE DEF s, p, S
<1>5. s \in Seq(S) /\ p \in Seq(S)
  BY <1>2, <1>3 DEF S
<1>6. Kept(s \o p) = Kept(s) \o Kept(p)
  BY <1>5, KeptOfBoth, Zenon
<1>7. Kept(s) = s
  BY <1>2, AlphabetIsKept, KeptWhole, Zenon
<1>8. Kept(p) = <<>>
  <2> DEFINE T == {Padding}
  <2>1. p \in Seq(T) /\ \A c \in T : Skipped(c)
    BY <1>3 DEF Skipped
  <2> HIDE DEF T
  <2> QED BY <2>1, KeptNothing, Zenon
<1>9. s \o <<>> = s
  BY <1>2, ConcatEmptySeq, Zenon
<1>10. Kept(base64_encode(bytes)) = s
  BY <1>4, <1>6, <1>7, <1>8, <1>9, Zenon
<1>11. s \o p \in Seq(S)
  BY <1>5, ConcatProperties, Zenon
<1> QED BY <1>1, <1>2, <1>4, <1>10, <1>11, Zenon DEF s, S

\* A sequence of characters of the alphabet is a text of nothing but symbols.
LEMMA AlphabetText ==
  ASSUME NEW kept \in Seq(Alphabet)
  PROVE  SymbolText(kept)
<1>1. Len(kept) \in Nat /\ \A j \in 1..Len(kept) : kept[j] \in Alphabet
  OBVIOUS
<1> QED BY <1>1, AlphabetIsKept, Zenon DEF SymbolText

\* base64.cpp: base64_decode reads back what base64_encode wrote, for every sequence of
\* bytes, and so from every text of which it keeps the same characters, whatever white
\* space came in and whether or not the padding is still there.
THEOREM DecodeInvertsEncode ==
  ASSUME NEW bytes \in Seq(Byte), NEW coded, Kept(coded) = Kept(base64_encode(bytes))
  PROVE  base64_decode(coded) = bytes
<1> DEFINE n == Len(bytes)
           m == SymbolCount(n)
           kept == Kept(coded)
<1>1. kept = Coded(bytes, m) /\ kept \in Seq(Alphabet) /\ Len(kept) = m
  BY KeptOfEncoded, Zenon
<1>2. SymbolText(kept)
  BY <1>1, AlphabetText, Zenon
<1>3. base64_decode(coded) = Octets(kept, (3 * Len(kept)) \div 4)
  BY <1>2, DecodedIs, Zenon
<1>4. (3 * m) \div 4 = n
  BY DEF SymbolCount
<1>5. Octets(Coded(bytes, m), n) = bytes
  BY OctetsOfCoded, Zenon
<1> QED BY <1>1, <1>3, <1>4, <1>5, Zenon

\* A text cut in three.
LEMMA CutInThree ==
  ASSUME NEW S, NEW t \in Seq(S), NEW a \in 0..Len(t), NEW b \in a..Len(t)
  PROVE  /\ SubSeq(t, 1, a) \in Seq(S) /\ Len(SubSeq(t, 1, a)) = a
         /\ SubSeq(t, a + 1, b) \in Seq(S) /\ Len(SubSeq(t, a + 1, b)) = b - a
         /\ SubSeq(t, b + 1, Len(t)) \in Seq(S)
         /\ SubSeq(t, 1, a) \o (SubSeq(t, a + 1, b) \o SubSeq(t, b + 1, Len(t))) = t
<1>1. Len(t) \in Nat /\ a \in Nat /\ b \in Nat /\ a <= b /\ b <= Len(t)
  OBVIOUS
<1>2. SubSeq(t, 1, a) \in Seq(S) /\ Len(SubSeq(t, 1, a)) = a
  BY <1>1
<1>3. SubSeq(t, a + 1, b) \in Seq(S) /\ Len(SubSeq(t, a + 1, b)) = b - a
  BY <1>1
<1>4. SubSeq(t, b + 1, Len(t)) \in Seq(S)
  BY <1>1
<1>5. SubSeq(t, a + 1, b) \o SubSeq(t, b + 1, Len(t)) = SubSeq(t, a + 1, Len(t))
  <2>1. a + 1 \in 1..(Len(t) + 1) /\ b \in ((a + 1) - 1)..Len(t) /\ Len(t) \in b..Len(t)
    BY <1>1
  <2> QED BY <2>1, ConcatAdjacentSubSeq, Zenon
<1>6. SubSeq(t, 1, a) \o SubSeq(t, a + 1, Len(t)) = SubSeq(t, 1, Len(t))
  <2>1. 1 \in 1..(Len(t) + 1) /\ a \in (1 - 1)..Len(t) /\ Len(t) \in a..Len(t)
    BY <1>1
  <2> QED BY <2>1, ConcatAdjacentSubSeq, Zenon
<1>7. SubSeq(t, 1, Len(t)) = t
  BY SubSeqFull, Zenon
<1> QED BY <1>2, <1>3, <1>4, <1>5, <1>6, <1>7, Zenon

\* What is kept of it is what is kept of the three.
LEMMA KeptInThree ==
  ASSUME NEW S, NEW t \in Seq(S), NEW a \in 0..Len(t), NEW b \in a..Len(t)
  PROVE  Kept(t) = Kept(SubSeq(t, 1, a))
                     \o (Kept(SubSeq(t, a + 1, b)) \o Kept(SubSeq(t, b + 1, Len(t))))
<1> DEFINE x == SubSeq(t, 1, a)
           y == SubSeq(t, a + 1, b)
           z == SubSeq(t, b + 1, Len(t))
<1>1. x \in Seq(S) /\ y \in Seq(S) /\ z \in Seq(S) /\ x \o (y \o z) = t
  BY CutInThree, Zenon
<1> HIDE DEF x, y, z
<1>2. y \o z \in Seq(S)
  BY <1>1, ConcatProperties, Zenon
<1>3. Kept(x \o (y \o z)) = Kept(x) \o Kept(y \o z)
  BY <1>1, <1>2, KeptOfBoth, Zenon
<1>4. Kept(y \o z) = Kept(y) \o Kept(z)
  BY <1>1, KeptOfBoth, Zenon
<1> QED BY <1>1, <1>3, <1>4, Zenon DEF x, y, z

\* The text of some bytes begins with its symbols.
LEMMA SymbolsComeFirst ==
  ASSUME NEW bytes \in Seq(Byte), SymbolCount(Len(bytes)) # 0
  PROVE  /\ SymbolCount(Len(bytes)) <= Len(base64_encode(bytes))
         /\ SubSeq(base64_encode(bytes), 1, SymbolCount(Len(bytes))) = Kept(base64_encode(bytes))
<1> DEFINE n == Len(bytes)
           m == SymbolCount(n)
           s == Coded(bytes, m)
           p == PaddingOf(n)
           S == Alphabet \cup {Padding}
<1>1. n \in Nat /\ m \in Nat
  BY DEF SymbolCount
<1>2. s \in Seq(Alphabet) /\ Len(s) = m
  BY <1>1, CodedIsText, Zenon
<1>3. p \in Seq({Padding})
  BY <1>1, PaddingIsPadding, Zenon
<1>4. base64_encode(bytes) = s \o p /\ Kept(base64_encode(bytes)) = s
  BY EncodedIs, KeptOfEncoded, Zenon
<1> HIDE DEF s, p, S
<1>5. s \in Seq(S) /\ p \in Seq(S)
  BY <1>2, <1>3 DEF S
<1>6. m \in 1..Len(s) /\ 1 \in 1..Len(s)
  <2> HIDE DEF m
  <2> QED BY <1>1, <1>2 DEF m
<1>7. SubSeq(s \o p, 1, m) = SubSeq(s, 1, m)
  BY <1>5, <1>6, SubSeqOfConcat1, Zenon
<1>8. SubSeq(s, 1, m) = s
  BY <1>2, <1>5, SubSeqFull, Zenon
<1>9. m <= Len(s \o p)
  BY <1>2, <1>5
<1> QED BY <1>4, <1>7, <1>8, <1>9, Zenon

(* ---- the library ---------------------------------------------------------------- *)
\* Quotient and remainder by the size of a block.
LEMMA BlockArithmetic ==
  ASSUME NEW n \in Nat
  PROVE  /\ n = 16 * (n \div 16) + (n % 16) /\ n % 16 \in 0..15 /\ n \div 16 \in Nat
         /\ (n + 15) \div 16 = (n \div 16) + (IF n % 16 = 0 THEN 0 ELSE 1)
BY SMT

\* A number below the modulus is its own remainder.
LEMMA SmallRemainder ==
  ASSUME NEW m \in Nat, NEW w \in Nat, m < w
  PROVE  m % w = m
<1>1. m % w \in 0..(w - 1) /\ \E q \in Int : m = w * q + (m % w)
  <2>1. m = w * (m \div w) + (m % w) /\ m \div w \in Int /\ m % w \in 0..(w - 1)
    BY SMT
  <2> QED BY <2>1
<1>2. PICK q \in Int : m = w * q + (m % w)
  BY <1>1
<1>3. CASE q = 0
  BY <1>1, <1>2, <1>3
<1>4. CASE q >= 1
  <2>1. w * q >= w
    BY <1>4
  <2> QED BY <1>1, <1>2, <2>1
<1>5. CASE q <= -1
  <2>1. w * q <= -w
    BY <1>5
  <2> QED BY <1>1, <1>2, <2>1
<1> QED BY <1>3, <1>4, <1>5

\* EncryptPlain, lines 83-89: the padded message is whole blocks, has room for the
\* data and the four bytes of the length behind it, wastes at most fifteen bytes, and
\* the 32-bit computation does not wrap, for messages up to Word - 20 bytes.
THEOREM LengthFits ==
  ASSUME NEW n \in 1..(Word - 20)
  PROVE  /\ EncryptLen(n) % 16 = 0
         /\ EncryptLen(n) \in (n + 4)..(n + 19)
         /\ EncryptLen(n) < Word
<1> DEFINE q == n \div 16
           r == n % 16
           b == q + (IF r = 0 THEN 0 ELSE 1) + (IF r > 12 \/ r = 0 THEN 1 ELSE 0)
<1>1. Word \in Nat /\ n \in Nat /\ n + 20 <= Word
  BY WordAssumption DEF WordAssumption
<1>2. n = 16 * q + r /\ r \in 0..15 /\ q \in Nat
  BY <1>1, BlockArithmetic
<1>3. (n + 15) % Word = n + 15
  BY <1>1, SmallRemainder
<1>4. (n + 15) \div 16 = q + (IF r = 0 THEN 0 ELSE 1)
  BY <1>1, BlockArithmetic
<1>5. EncryptLen(n) = (b * 16) % Word
  BY <1>3, <1>4 DEF EncryptLen
<1>6. b \in Nat /\ b * 16 \in (n + 4)..(n + 19)
  <2> HIDE DEF q, r
  <2> QED BY <1>1, <1>2
<1>7. (b * 16) % Word = b * 16
  <2> HIDE DEF b
  <2> QED BY <1>1, <1>6, SmallRemainder
<1>8. (b * 16) % 16 = 0
  <2> HIDE DEF b
  <2> QED BY <1>6
<1> QED BY <1>1, <1>5, <1>6, <1>7, <1>8

\* The last eight bits and the others.
LEMMA ByteArithmetic ==
  ASSUME NEW n \in Nat
  PROVE  /\ ShiftRight(n) \in Nat /\ n % 256 \in 0..255
         /\ n = 256 * ShiftRight(n) + (n % 256)
BY DEF ShiftRight

\* Four bytes hold a length: what WriteUint32 writes, ReadUint32 reads.
THEOREM LengthWordIsReadBack ==
  ASSUME NEW n \in 0..(Word - 1)
  PROVE  /\ ReadUint32(WriteUint32(n)) = n
         /\ \A i \in 1..4 : WriteUint32(n)[i] \in Byte
<1> DEFINE c == ShiftRight(n)
           b == ShiftRight(c)
           a == ShiftRight(b)
<1>1. Word \in Nat /\ n \in Nat /\ (Word - 1) \div 256 < 256 * 256 * 256 /\ n < Word
  BY WordAssumption DEF WordAssumption
<1>2. c \in Nat /\ n % 256 \in 0..255 /\ n = 256 * c + (n % 256)
  BY <1>1, ByteArithmetic, Zenon
<1>3. b \in Nat /\ c % 256 \in 0..255 /\ c = 256 * b + (c % 256)
  BY <1>2, ByteArithmetic, ZenonT(60)
<1>4. a \in Nat /\ b % 256 \in 0..255 /\ b = 256 * a + (b % 256)
  BY <1>3, ByteArithmetic, ZenonT(60)
<1>5. WriteUint32(n) = << a % 256, b % 256, c % 256, n % 256 >>
  BY DEF WriteUint32
<1>6. a % 256 = a
  <2>1. c <= (Word - 1) \div 256
    BY <1>1 DEF ShiftRight
  <2> HIDE DEF a, b, c
  <2>2. c < 256 * 256 * 256
    <3> DEFINE top == (Word - 1) \div 256
    <3>1. top \in Int /\ top < 256 * 256 * 256 /\ c <= top
      BY <1>1, <2>1
    <3> HIDE DEF top
    <3> QED BY <3>1, <1>2
  <2> QED BY <1>3, <1>4, <2>2
<1>7. ShiftIn(a, b % 256) = b /\ ShiftIn(b, c % 256) = c /\ ShiftIn(c, n % 256) = n
  <2> HIDE DEF a, b, c
  <2>1. c <= n /\ b <= c
    BY <1>1, <1>2, <1>3
  <2>2. b % Word = b /\ c % Word = c /\ n % Word = n
    BY <1>1, <1>2, <1>3, <2>1, SmallRemainder
  <2> QED BY <1>2, <1>3, <1>4, <2>2 DEF ShiftIn
<1> QED
  <2> HIDE DEF a, b, c
  <2>1. ReadUint32(WriteUint32(n)) = ShiftIn(ShiftIn(ShiftIn(a, b % 256), c % 256), n % 256)
    BY <1>5, <1>6 DEF ReadUint32
  <2> QED BY <1>2, <1>3, <1>4, <1>5, <1>6, <1>7, <2>1 DEF Byte

\* Every message comes out of its padded form as it went in.
THEOREM PackedPlainIsReadBack ==
  ASSUME NEW plain \in Seq(Byte), Encryptable(plain)
  PROVE  /\ Pack(plain) \in Seq(Byte)
         /\ Len(Pack(plain)) = EncryptLen(Len(plain))
         /\ PlainLen(Pack(plain)) = Len(plain)
         /\ SubSeq(Pack(plain), 1, PlainLen(Pack(plain))) = plain
<1> DEFINE n == Len(plain)
           E == EncryptLen(n)
           P == Pack(plain)
<1>1. n \in 1..(Word - 20) /\ n \in Nat /\ n < Word /\ Word \in Nat
  BY WordAssumption DEF Encryptable, WordAssumption
<1>2. E \in Nat /\ n + 4 <= E
  BY <1>1, LengthFits
<1>3. /\ ReadUint32(WriteUint32(n)) = n
      /\ \A i \in 1..4 : WriteUint32(n)[i] \in Byte
  BY <1>1, LengthWordIsReadBack
<1>4. P = [i \in 1..E |-> IF i > E - 4 THEN WriteUint32(n)[i - (E - 4)]
                         ELSE IF i <= n THEN plain[i] ELSE 0]
  BY DEF Pack
<1>5. \A i \in 1..E : P[i] \in Byte
  <2> SUFFICES ASSUME NEW i \in 1..E PROVE P[i] \in Byte
    OBVIOUS
  <2> HIDE DEF P, E, n
  <2>1. CASE i > E - 4
    BY <1>2, <1>3, <1>4, <2>1
  <2>2. CASE i <= E - 4 /\ i <= n
    <3>1. plain[i] \in Byte
      BY <2>2 DEF n
    <3> QED BY <1>2, <1>4, <2>2, <3>1
  <2>3. CASE i <= E - 4 /\ i > n
    <3>1. P[i] = 0
      BY <1>1, <1>2, <1>4, <2>3
    <3> QED BY <3>1 DEF Byte
  <2> QED BY <1>1, <1>2, <2>1, <2>2, <2>3
<1>6. P \in Seq(Byte) /\ Len(P) = E
  <2> HIDE DEF E, n
  <2> QED BY <1>2, <1>4, <1>5
<1>7. PlainLen(P) = n
  <2> DEFINE word == SubSeq(P, E - 3, E)
  <2>1. \A i \in 1..4 : word[i] = WriteUint32(n)[i]
    <3> SUFFICES ASSUME NEW i \in 1..4 PROVE word[i] = WriteUint32(n)[i]
      OBVIOUS
    <3>1. word[i] = P[E - 4 + i]
      <4> HIDE DEF P, E, n
      <4> QED BY <1>2, <1>6
    <3>2. P[E - 4 + i] = WriteUint32(n)[i]
      <4> HIDE DEF E, n
      <4>1. E - 4 + i \in 1..E /\ E - 4 + i > E - 4 /\ (E - 4 + i) - (E - 4) = i
        BY <1>1, <1>2
      <4> QED BY <1>4, <4>1
    <3> QED BY <3>1, <3>2
  <2>2. ReadUint32(word) = ReadUint32(WriteUint32(n))
    <3> HIDE DEF word, n
    <3> QED BY <2>1 DEF ReadUint32
  <2> QED BY <1>3, <1>6, <2>2 DEF PlainLen
<1>8. SubSeq(P, 1, n) = plain
  <2>1. \A i \in 1..n : P[i] = plain[i]
    <3> HIDE DEF E, n
    <3> QED BY <1>1, <1>2, <1>4
  <2>2. SubSeq(P, 1, n) \in Seq(Byte) /\ Len(SubSeq(P, 1, n)) = n
    <3> HIDE DEF P, E, n
    <3> QED BY <1>1, <1>2, <1>6
  <2>3. \A i \in 1..n : SubSeq(P, 1, n)[i] = P[i]
    <3> HIDE DEF P, E, n
    <3> QED BY <1>1, <1>2, <1>6
  <2> QED BY <2>1, <2>2, <2>3
<1> QED BY <1>6, <1>7, <1>8

\* Sixteen elements from the middle of a sequence.
LEMMA Piece ==
  ASSUME NEW s \in Seq(Byte), NEW p \in Nat, p + 16 <= Len(s)
  PROVE  /\ SubSeq(s, p + 1, p + 16) \in Seq(Byte)
         /\ Len(SubSeq(s, p + 1, p + 16)) = 16
         /\ \A k \in 1..16 : SubSeq(s, p + 1, p + 16)[k] = s[p + k]
<1>1. Len(s) \in Nat
  OBVIOUS
<1>2. SubSeq(s, p + 1, p + 16) \in Seq(Byte) /\ Len(SubSeq(s, p + 1, p + 16)) = 16
  BY <1>1
<1>3. ASSUME NEW k \in 1..16 PROVE SubSeq(s, p + 1, p + 16)[k] = s[p + k]
  BY <1>1
<1> QED BY <1>2, <1>3

\* An element of a sequence of bytes is a byte.
LEMMA ElementOf ==
  ASSUME NEW s \in Seq(Byte), NEW k \in 1..Len(s)
  PROVE  s[k] \in Byte
OBVIOUS

\* Sequences with the same elements are the same.
LEMMA SameElements ==
  ASSUME NEW s \in Seq(Byte), NEW t \in Seq(Byte), Len(s) = Len(t),
         \A k \in 1..Len(s) : s[k] = t[k]
  PROVE  s = t
OBVIOUS

\* The block of a position lies within whole-block data, and is the block of each of
\* its sixteen positions.
LEMMA BlockBounds ==
  ASSUME NEW n \in Nat, n % 16 = 0, NEW i \in 1..n
  PROVE  /\ BlockStart(i) \in Nat /\ BlockStart(i) + 16 <= n
         /\ i - BlockStart(i) \in 1..16
         /\ \A k \in 1..16 : /\ BlockStart(i) + k \in 1..n
                             /\ BlockStart(BlockStart(i) + k) = BlockStart(i)
<1>1. BlockStart(i) \in Nat /\ i - BlockStart(i) \in 1..16
  BY DEF BlockStart
<1>2. BlockStart(i) + 16 <= n
  BY DEF BlockStart
<1>3. ASSUME NEW k \in 1..16 PROVE BlockStart(BlockStart(i) + k) = BlockStart(i)
  BY DEF BlockStart
<1> QED BY <1>1, <1>2, <1>3

\* What a cipher has to be: it makes a block of a block, and decrypting inverts it.
CipherInverts ==
  \A b \in Seq(Byte) : Len(b) = 16 =>
     /\ AES_encrypt(b) \in Seq(Byte) /\ Len(AES_encrypt(b)) = 16
     /\ AES_decrypt(AES_encrypt(b)) = b

\* The blocks of whole-block data are encrypted to as many bytes.
LEMMA BlocksAreBytes ==
  ASSUME NEW data \in Seq(Byte), Len(data) % 16 = 0, CipherInverts
  PROVE  /\ EachBlock(AES_encrypt, data) \in Seq(Byte)
         /\ Len(EachBlock(AES_encrypt, data)) = Len(data)
<1> DEFINE n == Len(data)
           coded == EachBlock(AES_encrypt, data)
<1>1. n \in Nat /\ n % 16 = 0
  OBVIOUS
<1>2. ASSUME NEW i \in 1..n
      PROVE  /\ BlockOf(data, i) \in Seq(Byte) /\ Len(BlockOf(data, i)) = 16
             /\ \A k \in 1..16 : BlockOf(data, i)[k] = data[BlockStart(i) + k]
  BY <1>1, BlockBounds, Piece DEF BlockOf
<1>3. coded = [i \in 1..n |-> AES_encrypt(BlockOf(data, i))[i - BlockStart(i)]]
  BY DEF EachBlock
<1>4. coded \in Seq(Byte) /\ Len(coded) = n
  <2>1. ASSUME NEW i \in 1..n
        PROVE  AES_encrypt(BlockOf(data, i))[i - BlockStart(i)] \in Byte
    <3> DEFINE piece == AES_encrypt(BlockOf(data, i))
               j == i - BlockStart(i)
    <3>1. piece \in Seq(Byte) /\ Len(piece) = 16
      BY <1>2 DEF CipherInverts
    <3>2. j \in 1..16
      BY <1>1, BlockBounds
    <3>3. piece[j] \in Byte
      <4> HIDE DEF piece, j
      <4> QED BY <3>1, <3>2, ElementOf
    <3> QED BY <3>3
  <2> HIDE DEF n, coded
  <2> QED BY <1>1, <1>3, <2>1
<1> QED BY <1>4

\* The blocks are independent of each other: if AES_decrypt inverts AES_encrypt on a
\* block, then decrypting all blocks of whole-block data inverts encrypting them.
THEOREM BlocksAreReadBack ==
  ASSUME NEW data \in Seq(Byte), Len(data) % 16 = 0, CipherInverts
  PROVE  EachBlock(AES_decrypt, EachBlock(AES_encrypt, data)) = data
<1> DEFINE n == Len(data)
           coded == EachBlock(AES_encrypt, data)
<1>1. n \in Nat /\ n % 16 = 0
  OBVIOUS
<1>2. ASSUME NEW i \in 1..n
      PROVE  /\ BlockOf(data, i) \in Seq(Byte) /\ Len(BlockOf(data, i)) = 16
             /\ \A k \in 1..16 : BlockOf(data, i)[k] = data[BlockStart(i) + k]
  BY <1>1, BlockBounds, Piece DEF BlockOf
<1>3. coded = [i \in 1..n |-> AES_encrypt(BlockOf(data, i))[i - BlockStart(i)]]
  BY DEF EachBlock
<1>4. coded \in Seq(Byte) /\ Len(coded) = n
  BY BlocksAreBytes
<1>5. ASSUME NEW i \in 1..n PROVE AES_decrypt(BlockOf(coded, i))[i - BlockStart(i)] = data[i]
  <2> DEFINE p == BlockStart(i)
             piece == AES_encrypt(BlockOf(data, i))
  <2>1. p \in Nat /\ p + 16 <= n /\ i - p \in 1..16
    BY <1>1, BlockBounds
  <2>2. piece \in Seq(Byte) /\ Len(piece) = 16
    BY <1>2 DEF CipherInverts
  <2>3. ASSUME NEW k \in 1..16 PROVE coded[p + k] = piece[k]
    <3>1. p + k \in 1..n /\ BlockStart(p + k) = p
      BY <1>1, BlockBounds
    <3>2. PICK j \in 1..n : j = p + k
      BY <3>1
    <3>3. BlockStart(j) = p
      BY <3>1, <3>2
    <3>4. BlockOf(data, j) = BlockOf(data, i)
      BY <3>3 DEF BlockOf
    <3>5. coded[j] = AES_encrypt(BlockOf(data, j))[j - BlockStart(j)]
      <4> HIDE DEF coded, n
      <4> QED BY <1>3
    <3>6. j - BlockStart(j) = k
      <4> HIDE DEF p
      <4> QED BY <2>1, <3>2, <3>3
    <3> HIDE DEF coded, p
    <3> QED BY <3>2, <3>4, <3>5, <3>6
  <2>4. /\ BlockOf(coded, i) \in Seq(Byte) /\ Len(BlockOf(coded, i)) = 16
        /\ \A k \in 1..16 : BlockOf(coded, i)[k] = coded[p + k]
    <3> HIDE DEF coded, n
    <3> QED BY <1>4, <2>1, Piece DEF BlockOf
  <2>5. BlockOf(coded, i) = piece
    <3> DEFINE other == BlockOf(coded, i)
    <3>1. other \in Seq(Byte) /\ Len(other) = 16
      BY <2>4
    <3>2. \A k \in 1..16 : other[k] = piece[k]
      <4> HIDE DEF coded, n, p, piece
      <4> QED BY <2>3, <2>4
    <3> HIDE DEF other, piece, coded, n, p
    <3>3. other = piece
      BY <2>2, <3>1, <3>2, SameElements
    <3> QED BY <3>3 DEF other
  <2>6. AES_decrypt(piece) = BlockOf(data, i)
    BY <1>2 DEF CipherInverts
  <2>7. BlockOf(data, i)[i - p] = data[p + (i - p)]
    BY <1>2, <2>1
  <2>8. p + (i - p) = i
    <3> HIDE DEF p
    <3> QED BY <2>1
  <2> QED BY <2>5, <2>6, <2>7, <2>8
<1>6. EachBlock(AES_decrypt, coded) =
        [i \in 1..n |-> AES_decrypt(BlockOf(coded, i))[i - BlockStart(i)]]
  <2> HIDE DEF coded, n
  <2> QED BY <1>4 DEF EachBlock
<1>7. EachBlock(AES_decrypt, coded) = [i \in 1..n |-> data[i]]
  <2> HIDE DEF coded, n
  <2> QED BY <1>5, <1>6
<1>8. data = [i \in 1..n |-> data[i]]
  OBVIOUS
<1> QED BY <1>7, <1>8

-----------------------------------------------------------------------------
(* What DecryptCipher answers to a text.                                   *)

\* The bytes that EncryptPlain writes in base64.
Sealed(plain) == EachBlock(AES_encrypt, Pack(plain))

LEMMA SealedIs ==
  ASSUME NEW plain \in Seq(Byte), Encryptable(plain), CipherInverts
  PROVE  /\ Sealed(plain) \in Seq(Byte) /\ Len(Sealed(plain)) = EncryptLen(Len(plain))
         /\ Len(Sealed(plain)) % 16 = 0 /\ Len(Sealed(plain)) >= Len(plain) + 4
         /\ Len(plain) \in Nat /\ Len(plain) # 0
         /\ EachBlock(AES_decrypt, Sealed(plain)) = Pack(plain)
         /\ Encrypted(plain) = base64_encode(Sealed(plain))
<1> DEFINE n == Len(plain)
           E == EncryptLen(n)
<1>1. n \in 1..(Word - 20) /\ Word \in Nat
  BY WordAssumption DEF Encryptable, WordAssumption
<1>2. E % 16 = 0 /\ E \in (n + 4)..(n + 19)
  BY <1>1, LengthFits, Zenon
<1>3. Pack(plain) \in Seq(Byte) /\ Len(Pack(plain)) = E
  BY PackedPlainIsReadBack, Zenon
<1>4. Sealed(plain) \in Seq(Byte) /\ Len(Sealed(plain)) = E
  BY <1>2, <1>3, BlocksAreBytes, Zenon DEF Sealed
<1>5. EachBlock(AES_decrypt, Sealed(plain)) = Pack(plain)
  BY <1>2, <1>3, BlocksAreReadBack, Zenon DEF Sealed
<1>6. Encrypted(plain) = base64_encode(Sealed(plain))
  BY DEF Encrypted, Sealed
<1>7. E >= n + 4 /\ n \in Nat /\ n # 0
  <2> HIDE DEF n, E
  <2> QED BY <1>1, <1>2
<1> QED BY <1>2, <1>4, <1>5, <1>6, <1>7, Zenon

\* A text of which base64_decode keeps the same characters gives the message back.
LEMMA IntactIsRead ==
  ASSUME NEW plain \in Seq(Byte), Encryptable(plain), CipherInverts,
         NEW t, t # <<>>, Kept(t) = Kept(Encrypted(plain))
  PROVE  Decrypted(t) = [res |-> 0, plain |-> plain]
<1> DEFINE data == base64_decode(t)
           packed == EachBlock(AES_decrypt, data)
<1>1. data = Sealed(plain)
  <2>1. Kept(t) = Kept(base64_encode(Sealed(plain))) /\ Sealed(plain) \in Seq(Byte)
    BY SealedIs, Zenon
  <2> QED BY <2>1, DecodeInvertsEncode, Zenon
<1>2. packed = Pack(plain)
  BY <1>1, SealedIs, Zenon
<1>3. /\ Len(data) % 16 = 0 /\ Len(data) >= Len(plain) + 4
      /\ Len(plain) \in Nat /\ Len(plain) # 0 /\ data \in Seq(Byte)
  BY <1>1, SealedIs, Zenon
<1>4. PlainLen(packed) = Len(plain) /\ SubSeq(packed, 1, PlainLen(packed)) = plain
  BY <1>2, PackedPlainIsReadBack, Zenon
<1> HIDE DEF data, packed
<1>5. data # <<>> /\ ~ (PlainLen(packed) > Len(data))
  BY <1>3, <1>4
<1>6. Decrypted(t) = [res |-> 0, plain |-> SubSeq(packed, 1, PlainLen(packed))]
  BY <1>3, <1>5 DEF Decrypted, data, packed
<1> QED BY <1>4, <1>6, Zenon

\* Up to twenty symbols fewer than whole blocks have are never whole blocks.
LEMMA LossShows ==
  ASSUME NEW L \in Nat, L % 16 = 0, L # 0, NEW k \in 1..20
  PROVE  /\ SymbolCount(L) - k \in Nat /\ SymbolCount(L) - k # 0
         /\ (3 * (SymbolCount(L) - k)) \div 4 \in Nat
         /\ ((3 * (SymbolCount(L) - k)) \div 4) % 16 # 0
<1> DEFINE m == SymbolCount(L)
           a == L \div 16
<1>1. a \in Nat /\ L = 16 * a /\ a # 0
  OBVIOUS
<1> HIDE DEF a
<1>2. m \in Nat /\ 64 * a <= 3 * m /\ 3 * m <= 64 * a + 2
  BY <1>1 DEF SymbolCount
<1> HIDE DEF m
<1>3. m - k \in Nat /\ m - k # 0
  BY <1>1, <1>2
<1> DEFINE d == (3 * (m - k)) \div 4
<1>4. d \in Nat /\ d >= 16 * a - 15 /\ d <= 16 * a - 1
  BY <1>1, <1>2
<1> HIDE DEF d
<1>5. d % 16 # 0
  BY <1>1, <1>4
<1> QED BY <1>3, <1>4, <1>5 DEF d, m

\* So a text that lost up to twenty of its symbols is not whole blocks.
LEMMA ShortenedIsRefused ==
  ASSUME NEW plain \in Seq(Byte), Encryptable(plain), CipherInverts,
         NEW t, t # <<>>, Kept(t) \in Seq(Alphabet),
         NEW k \in 1..20, Len(Kept(t)) = SymbolCount(EncryptLen(Len(plain))) - k
  PROVE  Decrypted(t) = [res |-> -3, plain |-> <<>>]
<1> DEFINE L == EncryptLen(Len(plain))
           data == base64_decode(t)
           d == (3 * Len(Kept(t))) \div 4
<1>1. L \in Nat /\ L % 16 = 0 /\ L # 0
  <2> DEFINE sealed == Sealed(plain)
  <2>1. /\ sealed \in Seq(Byte) /\ Len(sealed) = L /\ Len(sealed) % 16 = 0
        /\ Len(sealed) >= Len(plain) + 4 /\ Len(plain) \in Nat
    BY SealedIs, Zenon
  <2> HIDE DEF sealed, L
  <2> QED BY <2>1
<1>2. /\ SymbolCount(L) - k \in Nat
      /\ (3 * (SymbolCount(L) - k)) \div 4 \in Nat
      /\ ((3 * (SymbolCount(L) - k)) \div 4) % 16 # 0
  BY <1>1, LossShows, Zenon
<1>3. Len(Kept(t)) \in Nat /\ d \in Nat /\ d % 16 # 0
  BY <1>2, Zenon
<1>4. SymbolText(Kept(t))
  BY AlphabetText, Zenon
<1>5. data = Octets(Kept(t), d)
  BY <1>4, DecodedIs, Zenon
<1>6. Len(data) = d
  <2>1. 4 * d <= 3 * Len(Kept(t))
    BY <1>3
  <2> QED BY <1>3, <1>4, <1>5, <2>1, OctetsAreBytes, Zenon
<1>7. Len(data) % 16 # 0 /\ data # <<>>
  <2> HIDE DEF data, d
  <2> QED BY <1>3, <1>6
<1> QED BY <1>7 DEF Decrypted

\* And a text with a character that is no symbol is not decoded at all.
LEMMA MarredIsRefused ==
  ASSUME NEW t, t # <<>>, NEW i \in 1..Len(Kept(t)), Kept(t)[i] = 45
  PROVE  Decrypted(t) = [res |-> -2, plain |-> <<>>]
<1>1. SymbolValue(45) = 64 /\ 64 > 63
  BY DEF SymbolValue
<1>2. base64_decode(t) = <<>>
  BY <1>1, DecodedNothing, Zenon
<1> QED BY <1>2 DEF Decrypted

-----------------------------------------------------------------------------
(* A text and what its carrier makes of it.                                *)

Characters == Alphabet \cup {Padding, 13, 10, 45}

\* Up to twenty symbols of the text of a message are missing.
Shortened(plain, t) ==
  /\ Kept(t) \in Seq(Alphabet)
  /\ \E k \in 1..20 : Len(Kept(t)) = SymbolCount(EncryptLen(Len(plain))) - k

\* There is a character that is no symbol.
Marred(t) == \E i \in 1..Len(Kept(t)) : Kept(t)[i] = 45

\* What a text has to do with the message it was made of.
Travels(plain, t, how) ==
  /\ plain \in Seq(Byte) /\ t \in Seq(Characters)
  /\ how \in {"none", "wrapped", "unpadded", "lossy", "garbled"}
  /\ t = <<>> => plain = <<>> /\ how = "none"
  /\ t # <<>> =>
       /\ Encryptable(plain)
       /\ how = "none" => t = Encrypted(plain)
       /\ how \in {"wrapped", "unpadded"} => Kept(t) = Kept(Encrypted(plain))
       /\ how = "lossy" => Shortened(plain, t)
       /\ how = "garbled" => Marred(t)

\* The text that EncryptPlain answers.
LEMMA EncryptedIs ==
  ASSUME NEW plain \in Seq(Byte), Encryptable(plain), CipherInverts,
         NEW t, t = Encrypted(plain),
         NEW m, m = SymbolCount(EncryptLen(Len(plain)))
  PROVE  /\ t \in Seq(Characters) /\ t \in Seq(Alphabet \cup {Padding}) /\ t # <<>>
         /\ m \in Nat /\ m # 0 /\ Len(t) \in Nat /\ m <= Len(t)
         /\ Kept(t) \in Seq(Alphabet) /\ Len(Kept(t)) = m /\ SubSeq(t, 1, m) = Kept(t)
         /\ \A j \in 1..m : t[j] \in Alphabet
<1> DEFINE bytes == Sealed(plain)
<1>1. /\ bytes \in Seq(Byte) /\ Len(bytes) = EncryptLen(Len(plain)) /\ Len(bytes) >= Len(plain) + 4
      /\ Len(plain) \in Nat /\ t = base64_encode(bytes)
  BY SealedIs, Zenon
<1> HIDE DEF bytes
<1>2. /\ Kept(t) \in Seq(Alphabet) /\ Len(Kept(t)) = m /\ t \in Seq(Alphabet \cup {Padding}) /\ m \in Nat
  BY <1>1, KeptOfEncoded, Zenon
<1>3. m # 0
  <2> DEFINE n == Len(bytes)
  <2>1. n \in Nat /\ n # 0 /\ m = SymbolCount(n)
    BY <1>1
  <2> HIDE DEF n
  <2> QED BY <2>1 DEF SymbolCount
<1>4. m <= Len(t) /\ SubSeq(t, 1, m) = Kept(t)
  BY <1>1, <1>3, SymbolsComeFirst, Zenon
<1>5. Len(t) \in Nat /\ t \in Seq(Characters)
  BY <1>2 DEF Characters
<1>6. t # <<>>
  BY <1>2, <1>3, <1>4, <1>5
<1>7. ASSUME NEW j \in 1..m PROVE t[j] \in Alphabet
  <2>1. SubSeq(t, 1, m)[j] = t[j]
    BY <1>2, <1>4, <1>5
  <2> DEFINE s == SubSeq(t, 1, m)
  <2>2. s \in Seq(Alphabet) /\ Len(s) = m
    BY <1>2, <1>4, Zenon
  <2> HIDE DEF s
  <2>3. s[j] \in Alphabet
    BY <2>2
  <2> QED BY <2>1, <2>3 DEF s
<1> QED BY <1>2, <1>3, <1>4, <1>5, <1>6, <1>7, Zenon

\* A text of which something is kept is not empty.
LEMMA KeptOfSomething ==
  ASSUME NEW t, NEW S, Kept(t) \in Seq(S), Len(Kept(t)) # 0
  PROVE  t # <<>>
<1>1. Kept(<<>>) = <<>>
  <2> DEFINE B == {Padding}
             e == <<>>
  <2>1. e \in Seq(B) /\ \A c \in B : Skipped(c)
    BY DEF Skipped
  <2> HIDE DEF B, e
  <2>2. Kept(e) = <<>>
    BY <2>1, KeptNothing, Zenon
  <2> QED BY <2>2 DEF e
<1>2. Len(<<>>) = 0
  OBVIOUS
<1> QED BY <1>1, <1>2, Zenon

\* EncryptPlain.
LEMMA EncryptedTravels ==
  ASSUME NEW plain \in Seq(Byte), Encryptable(plain), CipherInverts
  PROVE  Travels(plain, Encrypted(plain), "none")
<1>1. Encrypted(plain) \in Seq(Characters) /\ Encrypted(plain) # <<>>
  BY EncryptedIs, Zenon
<1> QED BY <1>1 DEF Travels

\* Rewrap: what is kept of a text is kept of it with a line break somewhere.
LEMMA WrappedTravels ==
  ASSUME NEW plain \in Seq(Byte), Encryptable(plain), CipherInverts,
         NEW t, t = Encrypted(plain), NEW i \in 0..Len(t)
  PROVE  Travels(plain, SubSeq(t, 1, i) \o <<13, 10>> \o SubSeq(t, i + 1, Len(t)), "wrapped")
<1> DEFINE x == SubSeq(t, 1, i)
           y == SubSeq(t, i + 1, i)
           z == SubSeq(t, i + 1, Len(t))
           w == <<13, 10>>
           m == SymbolCount(EncryptLen(Len(plain)))
<1>1. /\ t \in Seq(Characters) /\ Len(t) \in Nat /\ m # 0
      /\ Kept(t) \in Seq(Alphabet) /\ Len(Kept(t)) = m
  BY EncryptedIs, Zenon
<1>2. x \in Seq(Characters) /\ z \in Seq(Characters) /\ y = <<>> /\ w \in Seq(Characters)
  <2>1. i \in i..Len(t)
    BY <1>1
  <2>2. x \in Seq(Characters) /\ z \in Seq(Characters)
    BY <1>1, <2>1, CutInThree, Zenon
  <2>3. y = <<>>
    BY <1>1
  <2>4. w \in Seq(Characters)
    BY DEF Characters
  <2> QED BY <2>2, <2>3, <2>4, Zenon
<1>3. Kept(t) = Kept(x) \o (Kept(y) \o Kept(z))
  <2>1. i \in i..Len(t)
    BY <1>1
  <2> QED BY <1>1, <2>1, KeptInThree, Zenon
<1>4. Kept(y) = <<>> /\ Kept(w) = <<>>
  <2>1. y \in Seq({13, 10}) /\ w \in Seq({13, 10})
    BY <1>2
  <2> DEFINE B == {13, 10}
  <2>2. y \in Seq(B) /\ w \in Seq(B) /\ \A c \in B : Skipped(c)
    BY <2>1 DEF Skipped, Space
  <2> HIDE DEF B, y, w
  <2> QED BY <2>2, KeptNothing, Zenon
<1> HIDE DEF x, y, z, w, m
<1>5. Kept(x) \in Seq(Characters) /\ Kept(z) \in Seq(Characters)
  BY <1>2, KeptType, Zenon
<1>6. Kept(x \o w \o z) = Kept(x) \o Kept(w) \o Kept(z)
  <2>1. x \o w \in Seq(Characters)
    BY <1>2, ConcatProperties, Zenon
  <2>2. Kept((x \o w) \o z) = Kept(x \o w) \o Kept(z) /\ Kept(x \o w) = Kept(x) \o Kept(w)
    BY <1>2, <2>1, KeptOfBoth, Zenon
  <2> QED BY <2>2, Zenon
<1>7. Kept(x) \o <<>> = Kept(x) /\ <<>> \o Kept(z) = Kept(z)
  BY <1>5, ConcatEmptySeq, Zenon
<1>8. Kept(x \o w \o z) = Kept(t)
  BY <1>3, <1>4, <1>6, <1>7, Zenon
<1>9. x \o w \o z \in Seq(Characters)
  <2>1. x \o w \in Seq(Characters)
    BY <1>2, ConcatProperties, Zenon
  <2> QED BY <1>2, <2>1, ConcatProperties, Zenon
<1>10. x \o w \o z # <<>>
  BY <1>1, <1>8, KeptOfSomething, Zenon
<1>11. Travels(plain, x \o w \o z, "wrapped")
  <2> DEFINE new == x \o w \o z
  <2>1. new \in Seq(Characters) /\ new # <<>> /\ Kept(new) = Kept(Encrypted(plain))
    BY <1>8, <1>9, <1>10, Zenon
  <2> HIDE DEF new
  <2>2. Travels(plain, new, "wrapped")
    BY <2>1 DEF Travels
  <2> QED BY <2>2 DEF new
<1> QED BY <1>11, Zenon DEF x, w, z

\* StripPadding: what is left are the symbols.
LEMMA UnpaddedTravels ==
  ASSUME NEW plain \in Seq(Byte), Encryptable(plain), CipherInverts,
         NEW t, t = Encrypted(plain)
  PROVE  Travels(plain, SubSeq(t, 1, Len(Kept(t))), "unpadded")
<1> DEFINE new == SubSeq(t, 1, Len(Kept(t)))
<1>1. Kept(t) \in Seq(Alphabet) /\ Len(Kept(t)) # 0 /\ new = Kept(t)
  BY EncryptedIs, Zenon
<1> HIDE DEF new
<1>2. Kept(new) = Kept(t)
  BY <1>1, AlphabetIsKept, KeptWhole, Zenon
<1>3. new # <<>>
  BY <1>1, <1>2, KeptOfSomething, Zenon
<1>4. new \in Seq(Characters)
  BY <1>1 DEF Characters
<1>5. Travels(plain, new, "unpadded")
  BY <1>2, <1>3, <1>4 DEF Travels
<1> QED BY <1>5 DEF new

\* Lose: the symbols that are lost are missing from what is kept.
LEMMA LossyTravels ==
  ASSUME NEW plain \in Seq(Byte), Encryptable(plain), CipherInverts,
         NEW t, t = Encrypted(plain), NEW i \in Nat, i # 0, NEW k \in 1..20,
         i + k <= Len(Kept(t)) + 1
  PROVE  Travels(plain, SubSeq(t, 1, i - 1) \o SubSeq(t, i + k, Len(t)), "lossy")
<1> DEFINE m == SymbolCount(EncryptLen(Len(plain)))
           a == i - 1
           b == (i - 1) + k
           x == SubSeq(t, 1, a)
           y == SubSeq(t, a + 1, b)
           z == SubSeq(t, b + 1, Len(t))
           S == Alphabet \cup {Padding}
<1>1. /\ t \in Seq(S) /\ t \in Seq(Characters) /\ Len(t) \in Nat /\ m \in Nat /\ m # 0 /\ m <= Len(t)
      /\ Kept(t) \in Seq(Alphabet) /\ Len(Kept(t)) = m /\ \A j \in 1..m : t[j] \in Alphabet
  BY EncryptedIs, Zenon
<1> HIDE DEF m, S
<1>2. a \in 0..Len(t) /\ b \in a..Len(t) /\ b <= m /\ b + 1 = i + k /\ b - a = k
  BY <1>1
<1> HIDE DEF a, b
<1>3. /\ x \in Seq(S) /\ y \in Seq(S) /\ Len(y) = k /\ z \in Seq(S)
  <2>1. x \in Seq(S) /\ y \in Seq(S) /\ Len(y) = b - a /\ z \in Seq(S)
    <3>1. t \in Seq(S)
      BY <1>1
    <3> QED BY <1>2, <3>1, CutInThree, ZenonT(60)
  <2> QED BY <1>2, <2>1, Zenon
<1>4. Kept(t) = Kept(x) \o (Kept(y) \o Kept(z))
  BY <1>1, <1>2, KeptInThree, Zenon
<1>5. Kept(y) = y
  <2>1. y \in Seq(Alphabet)
    <3>1. \A j \in 1..(b - a) : a + j \in 1..m
      BY <1>1, <1>2
    <3>2. \A j \in (a + 1)..b : t[j] \in Alphabet
      BY <1>1, <1>2
    <3>3. a + 1 \in Int /\ b \in Int
      BY <1>1, <1>2
    <3> QED BY <3>2, <3>3, SubSeqProperties, Zenon
  <2> HIDE DEF y
  <2> QED BY <2>1, AlphabetIsKept, KeptWhole, Zenon
<1> HIDE DEF x, y, z
<1>6. Kept(x) \in Seq(Alphabet) /\ Kept(z) \in Seq(Alphabet) /\ Kept(y) \in Seq(Alphabet)
  <2>1. \A c \in S : Skipped(c) \/ c \in Alphabet
    BY DEF S, Skipped
  <2> QED BY <1>3, <2>1, KeptType, Zenon
<1>7. Kept(x \o z) = Kept(x) \o Kept(z)
  BY <1>3, KeptOfBoth, Zenon
<1>8. Kept(x \o z) \in Seq(Alphabet) /\ Len(Kept(x \o z)) = m - k
  <2> DEFINE kx == Kept(x)
             ky == Kept(y)
             kz == Kept(z)
  <2>1. kx \in Seq(Alphabet) /\ ky \in Seq(Alphabet) /\ kz \in Seq(Alphabet)
    BY <1>6
  <2>2. Len(ky) = k
    BY <1>3, <1>5
  <2>3. Len(kx \o (ky \o kz)) = m
    BY <1>1, <1>4
  <2> HIDE DEF kx, ky, kz
  <2>4. Len(kx \o (ky \o kz)) = Len(kx) + (Len(ky) + Len(kz))
    BY <2>1
  <2>5. kx \o kz \in Seq(Alphabet) /\ Len(kx \o kz) = Len(kx) + Len(kz)
    BY <2>1
  <2>6. Len(kx) \in Nat /\ Len(kz) \in Nat
    BY <2>1
  <2>7. Len(kx) + Len(kz) = m - k
    BY <1>1, <2>2, <2>3, <2>4, <2>6
  <2> QED BY <1>7, <2>5, <2>7 DEF kx, kz
<1> DEFINE new == x \o z
<1>9. Shortened(plain, new)
  BY <1>8 DEF Shortened, m
<1>10. new # <<>>
  <2> DEFINE L == EncryptLen(Len(plain))
             bytes == Sealed(plain)
  <2>1. /\ bytes \in Seq(Byte) /\ Len(bytes) = L /\ Len(bytes) % 16 = 0
        /\ Len(bytes) >= Len(plain) + 4 /\ Len(plain) \in Nat
    BY SealedIs, Zenon
  <2>2. L \in Nat /\ L % 16 = 0 /\ L # 0
    <3> HIDE DEF L, bytes
    <3> QED BY <2>1
  <2>3. m - k # 0
    BY <2>2, LossShows, Zenon DEF m
  <2> QED BY <1>8, <2>3, KeptOfSomething, Zenon
<1>11. new \in Seq(Characters)
  <2>1. x \in Seq(Characters) /\ z \in Seq(Characters)
    BY <1>3 DEF S, Characters
  <2> QED BY <2>1, ConcatProperties, Zenon
<1>12. Travels(plain, new, "lossy")
  <2> HIDE DEF new
  <2> QED BY <1>9, <1>10, <1>11 DEF Travels
<1>13. x = SubSeq(t, 1, i - 1) /\ z = SubSeq(t, i + k, Len(t))
  BY <1>2, Zenon DEF x, z, a
<1> QED BY <1>12, <1>13, Zenon

\* Garble: the character is kept, and is no symbol.
LEMMA GarbledTravels ==
  ASSUME NEW plain \in Seq(Byte), Encryptable(plain), CipherInverts,
         NEW t, t = Encrypted(plain), NEW i \in Nat, i # 0, i <= Len(Kept(t))
  PROVE  Travels(plain, [t EXCEPT ![i] = 45], "garbled")
<1> DEFINE new == [t EXCEPT ![i] = 45]
           a == i - 1
           x == SubSeq(new, 1, a)
           y == SubSeq(new, a + 1, i)
           z == SubSeq(new, i + 1, Len(new))
           m == SymbolCount(EncryptLen(Len(plain)))
<1>1. t \in Seq(Characters) /\ Len(t) \in Nat /\ m \in Nat /\ m <= Len(t) /\ Len(Kept(t)) = m
  BY EncryptedIs, Zenon
<1>2. i \in 1..Len(t) /\ 45 \in Characters
  <2> HIDE DEF m
  <2>1. i \in 1..Len(t)
    BY <1>1
  <2> QED BY <2>1 DEF Characters
<1>3. new \in Seq(Characters) /\ Len(new) = Len(t) /\ new[i] = 45
  BY <1>1, <1>2
<1> HIDE DEF new
<1>4. a \in 0..Len(new) /\ i \in a..Len(new) /\ a + 1 = i
  BY <1>1, <1>2, <1>3
<1>5. /\ x \in Seq(Characters) /\ y \in Seq(Characters) /\ z \in Seq(Characters)
      /\ Len(y) = i - a
  <2> HIDE DEF a
  <2> QED BY <1>3, <1>4, CutInThree, ZenonT(60)
<1>6. Kept(new) = Kept(x) \o (Kept(y) \o Kept(z))
  <2> HIDE DEF a
  <2> QED BY <1>3, <1>4, KeptInThree, Zenon
<1>7. y = <<45>>
  <2>1. y[1] = 45 /\ Len(y) = 1
    BY <1>2, <1>3, <1>4, <1>5
  <2> HIDE DEF y
  <2> QED BY <1>5, <2>1
<1>8. Kept(y) = y
  <2> DEFINE B == {45}
  <2>0. ~ Skipped(45)
    BY DEF Skipped, Space, Padding
  <2> HIDE DEF y
  <2>1. y \in Seq(B) /\ \A c \in B : ~ Skipped(c)
    BY <1>7, <2>0
  <2> HIDE DEF B
  <2> QED BY <2>1, KeptWhole, Zenon
<1> HIDE DEF x, y, z, a
<1>9. Kept(x) \in Seq(Characters) /\ Kept(z) \in Seq(Characters)
  BY <1>5, KeptType, Zenon
<1>10. \E j \in 1..Len(Kept(new)) : Kept(new)[j] = 45
  <2> DEFINE kx == Kept(x)
             kz == Kept(z)
             all == kx \o (<<45>> \o kz)
  <2>1. kx \in Seq(Characters) /\ kz \in Seq(Characters) /\ all = Kept(new)
    BY <1>6, <1>7, <1>8, <1>9
  <2> HIDE DEF kx, kz
  <2>2. Len(kx) + 1 \in 1..Len(all) /\ all[Len(kx) + 1] = 45
    BY <1>2, <2>1
  <2> HIDE DEF all
  <2> QED BY <2>1, <2>2
<1>11. new # <<>>
  BY <1>1, <1>2, <1>3
<1>12. Travels(plain, new, "garbled")
  BY <1>3, <1>10, <1>11 DEF Travels, Marred
<1> QED BY <1>12 DEF new

\* No text, no message.
LEMMA NothingIsRefused ==
  Decrypted(<<>>) = [res |-> -1, plain |-> <<>>]
<1> DEFINE e == <<>>
           m == (3 * Len(e)) \div 4
<1>1. Kept(e) = e /\ SymbolText(e)
  <2>1. e \in Seq(Alphabet)
    OBVIOUS
  <2> HIDE DEF e
  <2>2. Kept(e) = e
    BY <2>1, AlphabetIsKept, KeptWhole, Zenon
  <2>3. SymbolText(e)
    BY <2>1, AlphabetText, Zenon
  <2> QED BY <2>2, <2>3
<1>2. base64_decode(e) = Octets(e, m)
  <2> HIDE DEF e
  <2> QED BY <1>1, DecodedIs, Zenon
<1>3. Octets(e, m) = <<>>
  <2>1. m = 0
    OBVIOUS
  <2> HIDE DEF m
  <2> QED BY <2>1 DEF Octets
<1>4. base64_decode(<<>>) = <<>>
  BY <1>2, <1>3
<1> QED BY <1>4 DEF Decrypted

\* What DecryptCipher answers to it.
LEMMA AnswerToTravelled ==
  ASSUME NEW plain, NEW t, NEW how, Travels(plain, t, how), CipherInverts
  PROVE  /\ Decrypted(t).res \in -4..0 /\ Decrypted(t).plain \in Seq(Byte)
         /\ plain # <<>> /\ how \in {"none", "wrapped", "unpadded"}
              => Decrypted(t) = [res |-> 0, plain |-> plain]
         /\ how \in {"lossy", "garbled"} => Decrypted(t).res < 0
<1>1. CASE t = <<>>
  <2>1. Decrypted(t) = [res |-> -1, plain |-> <<>>]
    BY <1>1, NothingIsRefused, Zenon
  <2>2. plain = <<>> /\ how = "none"
    BY <1>1 DEF Travels
  <2> QED BY <2>1, <2>2
<1>2. CASE t # <<>> /\ how \in {"none", "wrapped", "unpadded"}
  <2>1. plain \in Seq(Byte) /\ Encryptable(plain) /\ Kept(t) = Kept(Encrypted(plain))
    BY <1>2, Zenon DEF Travels
  <2>2. Decrypted(t) = [res |-> 0, plain |-> plain]
    BY <1>2, <2>1, IntactIsRead, Zenon
  <2> QED BY <1>2, <2>1, <2>2
<1>3. CASE t # <<>> /\ how = "lossy"
  <2>1. plain \in Seq(Byte) /\ Encryptable(plain) /\ Shortened(plain, t)
    BY <1>3 DEF Travels
  <2>2. PICK k \in 1..20 : Len(Kept(t)) = SymbolCount(EncryptLen(Len(plain))) - k
    BY <2>1, Zenon DEF Shortened
  <2>3. Kept(t) \in Seq(Alphabet)
    BY <2>1, Zenon DEF Shortened
  <2>4. Decrypted(t) = [res |-> -3, plain |-> <<>>]
    BY <1>3, <2>1, <2>2, <2>3, ShortenedIsRefused, Zenon
  <2> QED BY <1>3, <2>4
<1>4. CASE t # <<>> /\ how = "garbled"
  <2>1. Marred(t)
    BY <1>4 DEF Travels
  <2>2. Decrypted(t) = [res |-> -2, plain |-> <<>>]
    BY <1>4, <2>1, MarredIsRefused, Zenon DEF Marred
  <2> QED BY <1>4, <2>2
<1>5. how \in {"none", "wrapped", "unpadded", "lossy", "garbled"}
  BY Zenon DEF Travels
<1> QED BY <1>1, <1>2, <1>3, <1>4, <1>5

-----------------------------------------------------------------------------
(* The invariants of StpCrypto.                                            *)

\* The text is what its carrier made of the text of the message, and the answer is
\* what DecryptCipher makes of it.
IInv ==
  /\ g_clnt_or_svr \in {-1, 0, 1} /\ res \in -4..0
  /\ Travels(sent, text, change)
  /\ answer # NoAnswer => answer = Decrypted(text)

\* A text that has not been carried yet is that of its message.
LEMMA FreshText ==
  ASSUME NEW plain, NEW t, Travels(plain, t, "none"), t # <<>>
  PROVE  plain \in Seq(Byte) /\ Encryptable(plain) /\ t = Encrypted(plain)
BY DEF Travels

\* What a text was changed to is what that change makes of the text of the message.
LEMMA PlacesHold ==
  ASSUME NEW t, NEW i \in {j \in {1, 22, 43} : j <= Len(Kept(t))},
         NEW plain, Travels(plain, t, "none")
  PROVE  /\ i \in Nat /\ i # 0 /\ i <= Len(Kept(t)) /\ t # <<>> /\ Len(t) \in Nat
         /\ CipherInverts => i \in 0..Len(t)
<1>1. i \in Nat /\ i # 0 /\ i <= Len(Kept(t))
  OBVIOUS
<1>2. t # <<>>
  <2> SUFFICES ASSUME t = <<>> PROVE FALSE
    OBVIOUS
  <2> DEFINE e == <<>>
  <2>1. Kept(e) = e
    <3>1. e \in Seq(Alphabet)
      OBVIOUS
    <3> HIDE DEF e
    <3> QED BY <3>1, AlphabetIsKept, KeptWhole, Zenon
  <2> QED BY <1>1, <2>1
<1>3. Len(t) \in Nat
  BY DEF Travels
<1>4. ASSUME CipherInverts PROVE i \in 0..Len(t)
  <2>1. plain \in Seq(Byte) /\ Encryptable(plain) /\ t = Encrypted(plain)
    BY <1>2, FreshText, Zenon
  <2>2. PICK m : m = SymbolCount(EncryptLen(Len(plain)))
    OBVIOUS
  <2>3. m \in Nat /\ m <= Len(t) /\ Len(Kept(t)) = m
    BY <1>4, <2>1, <2>2, EncryptedIs, Zenon
  <2> QED BY <1>1, <1>3, <2>3
<1> QED BY <1>1, <1>2, <1>3, <1>4

LEMMA InitIInv ==
  ASSUME Init
  PROVE  IInv
<1>1. Travels(<<>>, <<>>, "none")
  BY DEF Travels
<1> QED BY <1>1 DEF Init, IInv

\* One case per action; a text changes only while there is no answer to it.
LEMMA NextIInv ==
  ASSUME IInv, [Next]_vars, CipherInverts
  PROVE  IInv'
<1>0. /\ g_clnt_or_svr \in {-1, 0, 1} /\ res \in -4..0
      /\ Travels(sent, text, change)
      /\ answer # NoAnswer => answer = Decrypted(text)
  BY DEF IInv
<1>1. ASSUME NEW r \in {0, 1, 2}, InitStpCrypto(r) PROVE IInv'
  BY <1>0, <1>1 DEF InitStpCrypto, IInv
<1>2. ASSUME NEW r \in {0, 1}, AssignRole(r) PROVE IInv'
  BY <1>0, <1>2 DEF AssignRole, IInv
<1>3. ASSUME NEW p \in Plains, EncryptPlain(p) PROVE IInv'
  <2>1. /\ Encryptable(p) /\ answer = NoAnswer /\ text = <<>> /\ res' = 0 /\ sent' = p
        /\ text' = Encrypted(p) /\ g_clnt_or_svr' = g_clnt_or_svr /\ change' = change
        /\ answer' = answer
    BY <1>3 DEF EncryptPlain
  <2>2. p \in Seq(Byte)
    BY PlainsAssumption DEF PlainsAssumption
  <2>3. change = "none"
    BY <1>0, <2>1 DEF Travels
  <2>4. Travels(p, Encrypted(p), "none")
    BY <2>1, <2>2, EncryptedTravels, Zenon
  <2>5. Travels(sent', text', change')
    BY <2>1, <2>3, <2>4, Zenon
  <2> QED BY <1>0, <2>1, <2>5 DEF IInv
<1>4. ASSUME NEW p \in Plains, EncryptPlainFails(p) PROVE IInv'
  BY <1>0, <1>4 DEF EncryptPlainFails, IInv
<1>5. CASE DecryptCipher
  <2>1. /\ answer' = Decrypted(text) /\ res' = answer'.res /\ sent' = sent /\ text' = text
        /\ change' = change /\ g_clnt_or_svr' = g_clnt_or_svr
    BY <1>5 DEF DecryptCipher
  <2>2. Decrypted(text).res \in -4..0
    BY <1>0, AnswerToTravelled, Zenon
  <2>3. res' \in -4..0
    BY <2>1, <2>2, Zenon
  <2> QED BY <1>0, <2>1, <2>3 DEF IInv
<1>6. CASE Free
  <2>1. Travels(<<>>, <<>>, "none")
    BY DEF Travels
  <2> QED BY <1>0, <1>6, <2>1 DEF Free, IInv
<1>7. ASSUME NEW how, NEW new, Carried(how, new),
             Travels(sent, text, "none") => Travels(sent, new, how)
      PROVE  IInv'
  <2>1. /\ change = "none" /\ answer = NoAnswer /\ change' = how /\ text' = new /\ sent' = sent
        /\ answer' = answer /\ g_clnt_or_svr' = g_clnt_or_svr /\ res' = res
    BY <1>7 DEF Carried
  <2>2. Travels(sent', text', change')
    BY <1>0, <1>7, <2>1, Zenon
  <2> QED BY <1>0, <2>1, <2>2 DEF IInv
<1>8. ASSUME NEW i \in Places, Rewrap(i) PROVE IInv'
  <2> DEFINE new == SubSeq(text, 1, i) \o <<13, 10>> \o SubSeq(text, i + 1, Len(text))
  <2>1. ASSUME Travels(sent, text, "none") PROVE Travels(sent, new, "wrapped")
    <3>1. text # <<>> /\ i \in 0..Len(text)
      BY <2>1, PlacesHold, Zenon DEF Places, Symbols
    <3>2. sent \in Seq(Byte) /\ Encryptable(sent) /\ text = Encrypted(sent)
      BY <2>1, <3>1, FreshText, Zenon
    <3> QED BY <3>1, <3>2, WrappedTravels, Zenon
  <2>2. Carried("wrapped", new)
    BY <1>8 DEF Rewrap
  <2> QED BY <1>7, <2>1, <2>2, Zenon
<1>9. ASSUME NEW i \in Places, Garble(i) PROVE IInv'
  <2> DEFINE new == [text EXCEPT ![i] = 45]
  <2>1. ASSUME Travels(sent, text, "none") PROVE Travels(sent, new, "garbled")
    <3>1. text # <<>> /\ i \in Nat /\ i # 0 /\ i <= Len(Kept(text))
      BY <2>1, PlacesHold, Zenon DEF Places, Symbols
    <3>2. sent \in Seq(Byte) /\ Encryptable(sent) /\ text = Encrypted(sent)
      BY <2>1, <3>1, FreshText, Zenon
    <3> QED BY <3>1, <3>2, GarbledTravels, Zenon
  <2>2. Carried("garbled", new)
    BY <1>9 DEF Garble
  <2> QED BY <1>7, <2>1, <2>2, Zenon
<1>10. ASSUME NEW i \in Places, NEW k \in Losses, Lose(i, k) PROVE IInv'
  <2> DEFINE new == SubSeq(text, 1, i - 1) \o SubSeq(text, i + k, Len(text))
  <2>0. k \in 1..20
    BY LossesAssumption DEF LossesAssumption
  <2>1. i + k <= Len(Kept(text)) + 1 /\ Carried("lossy", new)
    BY <1>10 DEF Lose, Symbols
  <2>2. ASSUME Travels(sent, text, "none") PROVE Travels(sent, new, "lossy")
    <3>1. text # <<>> /\ i \in Nat /\ i # 0
      BY <2>2, PlacesHold, Zenon DEF Places, Symbols
    <3>2. sent \in Seq(Byte) /\ Encryptable(sent) /\ text = Encrypted(sent)
      BY <2>2, <3>1, FreshText, Zenon
    <3> QED BY <2>0, <2>1, <3>1, <3>2, LossyTravels, Zenon
  <2> QED BY <1>7, <2>1, <2>2, Zenon
<1>11. CASE text # <<>> /\ StripPadding
  <2> DEFINE new == SubSeq(text, 1, Len(Kept(text)))
  <2>1. ASSUME Travels(sent, text, "none") PROVE Travels(sent, new, "unpadded")
    <3>1. sent \in Seq(Byte) /\ Encryptable(sent) /\ text = Encrypted(sent)
      BY <1>11, <2>1, FreshText, Zenon
    <3> QED BY <3>1, UnpaddedTravels, Zenon
  <2>2. Carried("unpadded", new)
    BY <1>11 DEF StripPadding, Symbols
  <2> QED BY <1>7, <2>1, <2>2, Zenon
<1>12. CASE UNCHANGED vars
  BY <1>0, <1>12 DEF vars, IInv
<1> QED BY <1>1, <1>2, <1>3, <1>4, <1>5, <1>6, <1>8, <1>9, <1>10, <1>11, <1>12 DEF Next

\* The invariant holds in every state.
LEMMA Invariant ==
  ASSUME CipherInverts
  PROVE  Spec => []IInv
<1>1. Init => IInv
  BY InitIInv
<1>2. IInv /\ [Next]_vars => IInv'
  BY NextIInv
<1> QED BY <1>1, <1>2, PTL DEF Spec

\* Every function of stp_crypto.cc keeps to its types: results are one of five numbers,
\* answers are bytes and texts consist of the characters that are put in them.
THEOREM TypeCorrect ==
  ASSUME CipherInverts
  PROVE  Spec => []TypeOK
<1>1. ASSUME IInv PROVE TypeOK
  <2>0. /\ g_clnt_or_svr \in {-1, 0, 1} /\ res \in -4..0
        /\ Travels(sent, text, change)
        /\ answer # NoAnswer => answer = Decrypted(text)
    BY <1>1 DEF IInv
  <2>1. sent \in Seq(Byte) /\ \A i \in 1..Len(text) : text[i] \in Alphabet \cup {Padding, 13, 10, 45}
    <3>1. sent \in Seq(Byte) /\ text \in Seq(Characters)
      BY <2>0 DEF Travels
    <3>2. \A i \in 1..Len(text) : text[i] \in Characters
      BY <3>1
    <3> QED BY <3>1, <3>2, Zenon DEF Characters
  <2>2. change \in {"none", "wrapped", "unpadded", "lossy", "garbled"}
    BY <2>0, Zenon DEF Travels
  <2>3. Decrypted(text).res \in -4..0 /\ Decrypted(text).plain \in Seq(Byte)
    BY <2>0, AnswerToTravelled, Zenon
  <2>4. answer # NoAnswer => answer.res \in -4..0 /\ answer.plain \in Seq(Byte)
    BY <2>0, <2>3, Zenon
  <2> QED BY <2>0, <2>1, <2>2, <2>4 DEF TypeOK
<1> QED BY <1>1, Invariant, PTL

\* stp_crypto.cc: DecryptCipher answers what EncryptPlain was given, for every message
\* that 32 bits have room for, with or without the line breaks and the padding; the
\* cipher is any that is inverted on one block.
THEOREM RoundTripHolds ==
  ASSUME CipherInverts
  PROVE  Spec => []RoundTrip
<1>1. ASSUME IInv PROVE RoundTrip
  <2>1. Travels(sent, text, change) /\ (answer # NoAnswer => answer = Decrypted(text))
    BY <1>1 DEF IInv
  <2>2. sent # <<>> /\ change \in {"none", "wrapped", "unpadded"}
          => Decrypted(text) = [res |-> 0, plain |-> sent]
    BY <2>1, AnswerToTravelled, Zenon
  <2> QED BY <2>1, <2>2, Zenon DEF RoundTrip
<1> QED BY <1>1, Invariant, PTL

\* stp_crypto.cc: DecryptCipher refuses every text that lost up to twenty symbols in a
\* row or has a character that is none, whatever the message and the cipher.
THEOREM DamageIsNoticedHolds ==
  ASSUME CipherInverts
  PROVE  Spec => []DamageIsNoticed
<1>1. ASSUME IInv PROVE DamageIsNoticed
  <2>1. Travels(sent, text, change) /\ (answer # NoAnswer => answer = Decrypted(text))
    BY <1>1 DEF IInv
  <2>2. change \in {"lossy", "garbled"} => Decrypted(text).res < 0
    BY <2>1, AnswerToTravelled, Zenon
  <2> QED BY <2>1, <2>2, Zenon DEF DamageIsNoticed
<1> QED BY <1>1, Invariant, PTL

\* The cipher is the standard's.
CipherIsStandard ==
  \A b \in Seq(Byte) : Len(b) = 16 => AES_encrypt(b) = StandardCipher(b)

\* stp_crypto.cc: EncryptPlain answers the standard text of every message, if the
\* cipher is the standard's on one block.
THEOREM StandardTextHolds ==
  ASSUME CipherInverts, CipherIsStandard
  PROVE  Spec => []StandardText
<1>1. ASSUME IInv, change = "none", sent # <<>>
      PROVE  text = Rfc4648(EachBlock(StandardCipher, Pack(sent)))
  <2>1. Travels(sent, text, "none")
    BY <1>1 DEF IInv
  <2>2. text # <<>>
    BY <1>1, <2>1 DEF Travels
  <2>3. sent \in Seq(Byte) /\ Encryptable(sent) /\ text = Encrypted(sent)
    BY <2>1, <2>2, FreshText, Zenon
  <2>4. Sealed(sent) \in Seq(Byte) /\ Encrypted(sent) = base64_encode(Sealed(sent))
    BY <2>3, SealedIs, Zenon
  <2>5. base64_encode(Sealed(sent)) = Rfc4648(Sealed(sent))
    BY <2>4, EncodeIsStandard, Zenon
  <2>6. Sealed(sent) = EachBlock(StandardCipher, Pack(sent))
    <3> DEFINE data == Pack(sent)
               n == Len(data)
    <3>1. data \in Seq(Byte) /\ n = EncryptLen(Len(sent))
      BY <2>3, PackedPlainIsReadBack, Zenon
    <3>2. n \in Nat /\ n % 16 = 0
      <4>1. Len(sent) \in 1..(Word - 20)
        BY <2>3 DEF Encryptable
      <4>2. EncryptLen(Len(sent)) % 16 = 0
        BY <4>1, LengthFits, Zenon
      <4> HIDE DEF data
      <4> QED BY <3>1, <4>2
    <3> HIDE DEF data
    <3>3. ASSUME NEW i \in 1..n PROVE AES_encrypt(BlockOf(data, i)) = StandardCipher(BlockOf(data, i))
      <4>1. BlockOf(data, i) \in Seq(Byte) /\ Len(BlockOf(data, i)) = 16
        <5> HIDE DEF n
        <5>1. BlockStart(i) \in Nat /\ BlockStart(i) + 16 <= n
          BY <3>2, BlockBounds, Zenon
        <5> QED BY <3>1, <5>1, Piece, Zenon DEF BlockOf, n
      <4> QED BY <4>1, Zenon DEF CipherIsStandard
    <3> HIDE DEF n
    <3>4. [i \in 1..n |-> AES_encrypt(BlockOf(data, i))[i - BlockStart(i)]]
            = [i \in 1..n |-> StandardCipher(BlockOf(data, i))[i - BlockStart(i)]]
      BY <3>3
    <3> QED BY <3>4, Zenon DEF Sealed, EachBlock, data, n
  <2> QED BY <2>3, <2>4, <2>5, <2>6, Zenon
<1>2. ASSUME IInv PROVE StandardText
  BY <1>1, <1>2, Zenon DEF StandardText
<1> QED BY <1>2, Invariant, PTL
=============================================================================
