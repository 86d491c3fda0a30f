------------------------------ MODULE JsonText ------------------------------
(***************************************************************************)
(* The texts of jsoncpp: how numbers and strings are written and how their *)
(* tokens are decoded.  A text is a sequence of character codes.  Integers *)
(* keep their two widths as parameters (32 and 64 in the program), a       *)
(* double is a number of halves rounded to Mantissa bits (53), and RealMax *)
(* halves is the largest double.                                           *)
(***************************************************************************)
EXTENDS Integers, Sequences, SequencesExt

CONSTANTS IntBits, LargestBits, Mantissa, RealMax

ASSUME TextAssumption == /\ IntBits \in Nat /\ Mantissa \in Nat /\ LargestBits \in Nat /\ RealMax \in Nat
                         /\ 4 < IntBits /\ IntBits < Mantissa /\ Mantissa < LargestBits

Quote == 34
Slash == 47
Backslash == 92
Minus == 45
Dot == 46
Exponent == {69, 101}
IsDigit(c) == c \in 48 .. 57

maxInt == 2 ^ (IntBits - 1) - 1
minInt == -maxInt - 1
maxUInt == 2 ^ IntBits - 1
maxLargestInt == 2 ^ (LargestBits - 1) - 1
minLargestInt == -maxLargestInt - 1
maxLargestUInt == 2 ^ LargestBits - 1

\* True of every width; said here because the provers know nothing of powers.
ASSUME RangeAssumption == {maxInt, maxUInt} \subseteq Nat

nullValue == [type |-> "null",   n |-> 0, s |-> <<>>]
booleanValue(b)    == [type |-> "bool",   n |-> IF b THEN 1 ELSE 0, s |-> <<>>]
intValue(n)     == [type |-> "int",    n |-> n, s |-> <<>>]
uintValue(n)    == [type |-> "uint",   n |-> n, s |-> <<>>]
realValue(h)    == [type |-> "real",   n |-> h, s |-> <<>>]
stringValue(s)  == [type |-> "string", n |-> 0, s |-> s]
arrayValue == [type |-> "array",  n |-> 0, s |-> <<>>]
objectValue == [type |-> "object", n |-> 0, s |-> <<>>]
NoValue    == [type |-> "error",  n |-> 0, s |-> <<>>]   \* the decoder added an error

(* ---- doubles (the hardware and the C++ library) ------------------------ *)
\* -0.0, which is equal to 0.0 and differs from it in its text only.
negativeZero == [type |-> "real", n |-> 0, s |-> <<Minus>>]
Nearest(a, b) == LET q == a \div b   r == a % b IN IF 2 * r > b \/ (2 * r = b /\ q % 2 = 1) THEN q + 1 ELSE q
\* The double nearest to a/b halves.
Double(a, b) ==
  LET m == IF a < 0 THEN -a ELSE a
      e == CHOOSE k \in 0 .. 30 : m < b * 2 ^ (Mantissa + k) /\ \A j \in 0 .. k - 1 : m >= b * 2 ^ (Mantissa + j)
      d == Nearest(m, b * 2 ^ e) * 2 ^ e
  IN IF a < 0 THEN -d ELSE d

(* ---- scanning: where a token ends ---------------------------------------- *)
\* The number of characters of s, from position i, that are digits.
Run(s, i) == CHOOSE k \in 0 .. Len(s) - i + 1 : /\ \A j \in i .. i + k - 1 : IsDigit(s[j])
                                                /\ i + k > Len(s) \/ ~IsDigit(s[i + k])
\* The position behind the digits from i on, a fraction at f, the letter and sign of an exponent at x.
AfterDigits(s, i) == i + Run(s, i)
AfterFraction(s, f) == IF f <= Len(s) /\ s[f] = Dot THEN AfterDigits(s, f + 1) ELSE f
AfterExponentSign(s, x) == IF x > Len(s) \/ s[x] \notin Exponent THEN x
                           ELSE IF x < Len(s) /\ s[x + 1] \in {43, Minus} THEN x + 2 ELSE x + 1
\* The parts of a number token: its integral digits from i, fraction at f, exponent at x with digits from y.
Split(s, i, f, x, y) ==
  [int |-> SubSeq(s, i, f - 1), frac |-> SubSeq(s, f + 1, x - 1),
   hasExp |-> y > x, expMinus |-> y = x + 2 /\ s[x + 1] = Minus,
   exp |-> IF y > x THEN SubSeq(s, y, AfterDigits(s, y) - 1) ELSE <<>>,
   end |-> IF y > x THEN AfterDigits(s, y) - 1 ELSE x - 1]
Parts(s) ==
  LET i == IF s # <<>> /\ s[1] = Minus THEN 2 ELSE 1
      f == AfterDigits(s, i)
      x == AfterFraction(s, f)
  IN Split(s, i, f, x, AfterExponentSign(s, x))
\* How many characters readNumber takes.
readNumber(s) == Parts(s).end
\* How many characters readString takes after the opening quote; 0 when no quote ends it.
readString(s) ==
  LET EndFrom[i \in Nat] == IF i > Len(s) THEN 0
                            ELSE IF s[i] = Backslash THEN EndFrom[i + 2]
                            ELSE IF s[i] = Quote THEN i ELSE EndFrom[i + 1]
  IN EndFrom[2]

(* ---- numbers ---------------------------------------------------------------- *)
Number(digits) == FoldLeft(LAMBDA v, c : 10 * v + (c - 48), 0, digits)
Negative(s) == s[1] = Minus

\* operator>> into a double: the whole token must be a number, and not out of range.
Scaled(m, e) == IF e >= 0 THEN Double(m * 10 ^ e, 1) ELSE Double(m, 10 ^ (-e))
InRealRange(h) == IF h > RealMax \/ h < -RealMax THEN NoValue ELSE realValue(h)
RealOf(p, sign) ==
  IF p.int \o p.frac = <<>> \/ (p.hasExp /\ p.exp = <<>>) THEN NoValue
  ELSE InRealRange(Scaled(2 * sign * Number(p.int \o p.frac),
                          (IF p.expMinus THEN -1 ELSE 1) * Number(p.exp) - Len(p.frac)))
decodeDouble(s) == LET v == RealOf(Parts(s), IF Negative(s) THEN -1 ELSE 1)
                   IN IF Negative(s) /\ v = realValue(0) THEN negativeZero ELSE v

\* The last digit is not compared with what the maximum leaves for it.
decodeNumber_NoLastDigitMutant(s) ==
  LET max == IF Negative(s) THEN maxLargestInt + 1 ELSE maxLargestUInt
      first == IF Negative(s) THEN 2 ELSE 1
      Take(v, i) == IF v = -1 \/ ~IsDigit(s[i]) \/ v > max \div 10 \/ (v = max \div 10 /\ i < Len(s)) THEN -1
                    ELSE (10 * v + (s[i] - 48)) % 2 ^ LargestBits
      value == FoldLeft(Take, 0, [k \in 1 .. Len(s) - first + 1 |-> k + first - 1])
  IN IF value = -1 THEN decodeDouble(s) ELSE IF Negative(s) THEN intValue(-value)
     ELSE IF value <= maxInt THEN intValue(value) ELSE uintValue(value)

\* An integer of the token's sign if it fits, else a double.
decodeNumber(s) ==
  LET max == IF Negative(s) THEN maxLargestInt + 1 ELSE maxLargestUInt
      threshold == max \div 10
      first == IF Negative(s) THEN 2 ELSE 1
      TooLarge(v, d, i) == v >= threshold /\ (v > threshold \/ i # Len(s) \/ d > max % 10)
      Take(v, i) == IF v = -1 \/ ~IsDigit(s[i]) \/ TooLarge(v, s[i] - 48, i) THEN -1 ELSE 10 * v + (s[i] - 48)
      value == FoldLeft(Take, 0, [k \in 1 .. Len(s) - first + 1 |-> k + first - 1])
  IN IF value = -1 THEN decodeDouble(s)
     ELSE IF Negative(s) THEN intValue(-value)
     ELSE IF value <= maxInt THEN intValue(value) ELSE uintValue(value)

uintToString[n \in Nat] == (IF n < 10 THEN <<>> ELSE uintToString[n \div 10]) \o <<48 + (n % 10)>>
\* %.17g prints a double exactly; without a fraction it has no point, so -0.0 is -0.
valueToString(v) ==
  LET m == IF v.n < 0 THEN -v.n ELSE v.n
      text == IF v.type = "real" THEN uintToString[m \div 2] \o (IF m % 2 = 1 THEN <<Dot, 53>> ELSE <<>>)
              ELSE uintToString[m]
  IN (IF v.n < 0 \/ v = negativeZero THEN <<Minus>> ELSE <<>>) \o text

(* ---- strings ---------------------------------------------------------------- *)
codePointToUTF8(cp) ==
  LET Tail6(k) == 128 + ((cp \div 64 ^ k) % 64)
  IN IF cp <= 127 THEN <<cp>>
     ELSE IF cp <= 2047 THEN <<192 + cp \div 64, Tail6(0)>>
     ELSE IF cp <= 65535 THEN <<224 + cp \div 4096, Tail6(1), Tail6(0)>>
     ELSE IF cp <= 1114111 THEN <<240 + cp \div 262144, Tail6(2), Tail6(1), Tail6(0)>>
     ELSE <<>>

HexDigit(c) == IF IsDigit(c) THEN c - 48 ELSE IF c \in 97 .. 102 THEN c - 87 ELSE IF c \in 65 .. 70 THEN c - 55 ELSE -1
\* The number after \u at position i of s, or -1.
decodeUnicodeEscapeSequence(s, i) ==
  IF Len(s) < i + 3 \/ \E k \in i .. i + 3 : HexDigit(s[k]) = -1 THEN -1
  ELSE FoldLeft(LAMBDA v, c : 16 * v + HexDigit(c), 0, SubSeq(s, i, i + 3))
\* The code point whose digits begin at position i, and the position after it.
decodeUnicodeCodePoint(s, i) ==
  LET high == decodeUnicodeEscapeSequence(s, i)
      low == IF Len(s) >= i + 9 /\ s[i + 4] = Backslash /\ s[i + 5] = 117 THEN decodeUnicodeEscapeSequence(s, i + 6) ELSE -1
  IN IF high \notin 55296 .. 56319 THEN [cp |-> high, next |-> i + 4]
     ELSE [cp |-> IF low = -1 THEN -1 ELSE 65536 + (high % 1024) * 1024 + (low % 1024), next |-> i + 10]

EscapeLetter == (98 :> 8) @@ (102 :> 12) @@ (110 :> 10) @@ (114 :> 13) @@ (116 :> 9)
                @@ (Quote :> Quote) @@ (Slash :> Slash) @@ (Backslash :> Backslash)
\* The characters between the quotes, decoded from each position on.
decodeString(s) ==
  LET Prefixed(c, rest) == IF rest.type = "error" THEN rest ELSE stringValue(c \o rest.s)
      DecodeFrom[i \in Nat] ==
        IF i >= Len(s) THEN stringValue(<<>>)
        ELSE IF s[i] = Quote THEN stringValue(<<>>)
        ELSE IF s[i] # Backslash THEN Prefixed(<<s[i]>>, DecodeFrom[i + 1])
        ELSE IF i + 1 >= Len(s) THEN NoValue
        ELSE IF s[i + 1] \in DOMAIN EscapeLetter THEN Prefixed(<<EscapeLetter[s[i + 1]]>>, DecodeFrom[i + 2])
        ELSE IF s[i + 1] # 117 THEN NoValue
        ELSE LET u == decodeUnicodeCodePoint(SubSeq(s, 1, Len(s) - 1), i + 2)
             IN IF u.cp = -1 THEN NoValue ELSE Prefixed(codePointToUTF8(u.cp), DecodeFrom[u.next])
  IN DecodeFrom[2]

HexLetter(d) == IF d < 10 THEN 48 + d ELSE 55 + d
Escaped(c) == IF c \in {Quote, Backslash, 8, 9, 10, 12, 13}
              THEN <<Backslash, CHOOSE l \in DOMAIN EscapeLetter : EscapeLetter[l] = c>>
              ELSE IF c < 32 THEN <<Backslash, 117, 48, 48, HexLetter(c \div 16), HexLetter(c % 16)>>
              ELSE <<c>>
valueToQuotedStringN(s) == <<Quote>> \o FlattenSeq([k \in 1 .. Len(s) |-> Escaped(s[k])]) \o <<Quote>>
\* The version that takes a C string stops at its first NUL.
CString(s) == LET nul == {k \in 1 .. Len(s) : s[k] = 0}
              IN IF nul = {} THEN s ELSE SubSeq(s, 1, (CHOOSE k \in nul : \A j \in nul : k <= j) - 1)
valueToQuotedString(s) == valueToQuotedStringN(CString(s))
=============================================================================
