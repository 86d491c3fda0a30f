-------------------------------- MODULE Aes --------------------------------
(***************************************************************************)
(* The block cipher of stputil/security/aes_core.c, in the variant that is *)
(* built (AES_ASM and FULL_UNROLL are not defined).  A u32 is the sequence *)
(* of its four bytes, most significant first, so that GETU32 and PUTU32    *)
(* cut a block into words and join them; a masked table entry is a byte of *)
(* a word.  Below it, FIPS-197 as a reference: the cipher on the bytes of  *)
(* the state, with the S-box computed in the field and no table.           *)
(***************************************************************************)
EXTENDS Integers, Sequences

Bytes == 0..255
NullKey == <<>>                   \* userKey is NULL

\* F(v); v, as the value of a bound variable, is evaluated once.
With(v, F(_)) == CHOOSE w \in {F(u) : u \in {v}} : TRUE

-----------------------------------------------------------------------------
Bit(n, k) == (n \div 2^k) % 2
XorNibble == [a \in 0..15, b \in 0..15 |->
               LET bit(k) == 2^k * ((Bit(a, k) + Bit(b, k)) % 2)
               IN  bit(0) + bit(1) + bit(2) + bit(3)]
Xor(a, b) == 16 * XorNibble[a \div 16, b \div 16] + XorNibble[a % 16, b % 16]

\* The operator ^ on u32.
v (+) w == << Xor(v[1], w[1]), Xor(v[2], w[2]), Xor(v[3], w[3]), Xor(v[4], w[4]) >>

\* Products in GF(2^8) with the factors of the MixColumns matrices.
Double(a) == IF a < 128 THEN 2 * a ELSE Xor(2 * a - 256, 27)
Times(k, a) == LET a2 == Double(a) a4 == Double(a2) a8 == Double(a4)
               IN  CASE k = 1  -> a
                     [] k = 2  -> a2
                     [] k = 3  -> Xor(a2, a)
                     [] k = 9  -> Xor(a8, a)
                     [] k = 11 -> Xor(Xor(a8, a2), a)
                     [] k = 13 -> Xor(Xor(a8, a4), a)
                     [] k = 14 -> Xor(Xor(a8, a4), a2)

\* Td4, entry by entry: the inverse S-box.
Td4 == LET entries == <<
   82,   9, 106, 213,  48,  54, 165,  56, 191,  64, 163, 158, 129, 243, 215, 251,
  124, 227,  57, 130, 155,  47, 255, 135,  52, 142,  67,  68, 196, 222, 233, 203,
   84, 123, 148,  50, 166, 194,  35,  61, 238,  76, 149,  11,  66, 250, 195,  78,
    8,  46, 161, 102,  40, 217,  36, 178, 118,  91, 162,  73, 109, 139, 209,  37,
  114, 248, 246, 100, 134, 104, 152,  22, 212, 164,  92, 204,  93, 101, 182, 146,
  108, 112,  72,  80, 253, 237, 185, 218,  94,  21,  70,  87, 167, 141, 157, 132,
  144, 216, 171,   0, 140, 188, 211,  10, 247, 228,  88,   5, 184, 179,  69,   6,
  208,  44,  30, 143, 202,  63,  15,   2, 193, 175, 189,   3,   1,  19, 138, 107,
   58, 145,  17,  65,  79, 103, 220, 234, 151, 242, 207, 206, 240, 180, 230, 115,
  150, 172, 116,  34, 231, 173,  53, 133, 226, 249,  55, 232,  28, 117, 223, 110,
   71, 241,  26, 113,  29,  41, 197, 137, 111, 183,  98,  14, 170,  24, 190,  27,
  252,  86,  62,  75, 198, 210, 121,  32, 154, 219, 192, 254, 120, 205,  90, 244,
   31, 221, 168,  51, 136,   7, 199,  49, 177,  18,  16,  89,  39, 128, 236,  95,
   96,  81, 127, 169,  25, 181,  74,  13,  45, 229, 122, 159, 147, 201, 156, 239,
  160, 224,  59,  77, 174,  42, 245, 176, 200, 235, 187,  60, 131,  83, 153,  97,
   23,  43,   4, 126, 186, 119, 214,  38, 225, 105,  20,  99,  85,  33,  12, 125 >>
       IN  [x \in Bytes |-> entries[x + 1]]

\* S, from which the other tables are made, is what Td4 inverts.
S == [x \in Bytes |-> CHOOSE y \in Bytes : Td4[y] = x]

\* The entries of the eight tables, each a column of the matrix times the S-box.
Column(factors, x) == [i \in 1..4 |-> Times(factors[i], x)]
Te0 == [x \in Bytes |-> Column(<<2, 1, 1, 3>>, S[x])]
Te1 == [x \in Bytes |-> Column(<<3, 2, 1, 1>>, S[x])]
Te2 == [x \in Bytes |-> Column(<<1, 3, 2, 1>>, S[x])]
Te3 == [x \in Bytes |-> Column(<<1, 1, 3, 2>>, S[x])]
Td0 == [x \in Bytes |-> Column(<<14, 9, 13, 11>>, Td4[x])]
Td1 == [x \in Bytes |-> Column(<<11, 14, 9, 13>>, Td4[x])]
Td2 == [x \in Bytes |-> Column(<<13, 11, 14, 9>>, Td4[x])]
Td3 == [x \in Bytes |-> Column(<<9, 13, 11, 14>>, Td4[x])]

rcon == << 1, 2, 4, 8, 16, 32, 64, 128, 27, 54 >>
-----------------------------------------------------------------------------
GETU32(block, j) == SubSeq(block, 4 * j - 3, 4 * j)
PUTU32(words) == words[1] \o words[2] \o words[3] \o words[4]

\* Four words, each from its number.
Words(Word(_)) == << Word(1), Word(2), Word(3), Word(4) >>

\* The four masked entries: the byte where each table holds S itself.
SubWord(w) == << Te2[w[1]][1], Te3[w[2]][2], Te0[w[3]][3], Te1[w[4]][4] >>
RotWord(w) == << w[2], w[3], w[4], w[1] >>

\* rk[i] from the words before it; nk words are the key itself.
KeyWord_NoSubMutant(rk, nk) ==
  LET i    == Len(rk)
      last == rk[i]
      temp == IF i % nk = 0 THEN SubWord(RotWord(last)) (+) <<rcon[i \div nk], 0, 0, 0>>
              ELSE last
  IN  rk[i - nk + 1] (+) temp

\* rk[i] from the words before it; nk words are the key itself.
KeyWord(rk, nk) ==
  LET i    == Len(rk)
      last == rk[i]
      temp == IF i % nk = 0 THEN SubWord(RotWord(last)) (+) <<rcon[i \div nk], 0, 0, 0>>
              ELSE IF nk = 8 /\ i % 8 = 4 THEN SubWord(last)
              ELSE last
  IN  rk[i - nk + 1] (+) temp

Expand(userKey, nk, words) ==
  LET rd_key[n \in nk..words] ==
        IF n = nk THEN [j \in 1..nk |-> GETU32(userKey, j)]
        ELSE With(rd_key[n - 1], LAMBDA rk : Append(rk, KeyWord(rk, nk)))
  IN  rd_key[words]

Rounds(bits) == CASE bits = 128 -> 10 [] bits = 192 -> 12 [] bits = 256 -> 14

\* An error leaves *key as it was: no rd_key and no rounds are answered.
AES_set_encrypt_key(userKey, bits) ==
  CASE userKey = NullKey -> [res |-> -1]
    [] userKey # NullKey /\ bits \notin {128, 192, 256} -> [res |-> -2]
    [] OTHER ->
         [res |-> 0, rounds |-> Rounds(bits),
          rd_key |-> Expand(userKey, bits \div 32, 4 * (Rounds(bits) + 1))]

InvMixWord(w) == Td0[Te1[w[1]][4]] (+) Td1[Te1[w[2]][4]] (+) Td2[Te1[w[3]][4]] (+) Td3[Te1[w[4]][4]]

\* The round keys in reverse order, all but the first and the last transformed.
AES_set_decrypt_key(userKey, bits) ==
  LET key == AES_set_encrypt_key(userKey, bits)
  IN  IF key.res < 0 THEN key
      ELSE [key EXCEPT !.rd_key =
              [i \in 1..Len(@) |->
                 LET round == (i - 1) \div 4
                     w     == @[4 * (key.rounds - round) + ((i - 1) % 4) + 1]
                 IN  IF round \in {0, key.rounds} THEN w ELSE InvMixWord(w)]]
-----------------------------------------------------------------------------
\* s0..s3, and the neighbour a word takes its k-th byte from: k words ahead in one
\* direction of the cipher, k words back in the other.
RoundKey(key, round, j) == key.rd_key[4 * round + j]
Ahead(j, k) == ((j - 1 + k) % 4) + 1
Back(j, k)  == ((j - 1 + 4 - k) % 4) + 1

EncryptRound(s, key, round) ==
  Words(LAMBDA j : Te0[s[j][1]] (+) Te1[s[Ahead(j, 1)][2]] (+) Te2[s[Ahead(j, 2)][3]]
                   (+) Te3[s[Ahead(j, 3)][4]] (+) RoundKey(key, round, j))
EncryptLast(t, key) ==
  Words(LAMBDA j : SubWord(Words(LAMBDA k : t[Ahead(j, k - 1)][k])) (+) RoundKey(key, key.rounds, j))

DecryptRound(s, key, round) ==
  Words(LAMBDA j : Td0[s[j][1]] (+) Td1[s[Back(j, 1)][2]] (+) Td2[s[Back(j, 2)][3]]
                   (+) Td3[s[Back(j, 3)][4]] (+) RoundKey(key, round, j))
DecryptLast(t, key) ==
  Words(LAMBDA j : Words(LAMBDA k : Td4[t[Back(j, k - 1)][k]]) (+) RoundKey(key, key.rounds, j))

FirstState(in, key) == Words(LAMBDA j : GETU32(in, j) (+) RoundKey(key, 0, j))

\* Of one block of 16 bytes; a key of AES_set_encrypt_key.
EncryptBlock(in, key) ==
  LET state[r \in 0..(key.rounds - 1)] ==
        IF r = 0 THEN FirstState(in, key)
        ELSE With(state[r - 1], LAMBDA s : EncryptRound(s, key, r))
  IN  With(state[key.rounds - 1], LAMBDA t : PUTU32(EncryptLast(t, key)))

\* A key of AES_set_decrypt_key.
DecryptBlock(in, key) ==
  LET state[r \in 0..(key.rounds - 1)] ==
        IF r = 0 THEN FirstState(in, key)
        ELSE With(state[r - 1], LAMBDA s : DecryptRound(s, key, r))
  IN  With(state[key.rounds - 1], LAMBDA t : PUTU32(DecryptLast(t, key)))
-----------------------------------------------------------------------------
(* Reference: FIPS-197, sections 4 and 5.                                  *)

\* The product of two elements of the field, bit by bit of the second.
Doubled == [a \in Bytes |-> Double(a)]
GMul(a, b) ==
  LET shifted[k \in 0..7] == IF k = 0 THEN a ELSE Doubled[shifted[k - 1]]
      term(k) == IF Bit(b, k) = 1 THEN shifted[k] ELSE 0
  IN  Xor(Xor(Xor(term(0), term(1)), Xor(term(2), term(3))),
          Xor(Xor(term(4), term(5)), Xor(term(6), term(7))))

\* The multiplicative inverse, and the affine transformation of it.
SBox == [x \in Bytes |->
          LET b == IF x = 0 THEN 0 ELSE CHOOSE y \in Bytes : GMul(x, y) = 1
              rotated(n) == ((b * 2^n) % 256) + (b \div 2^(8 - n))
          IN  Xor(Xor(Xor(b, rotated(1)), Xor(rotated(2), rotated(3))), Xor(rotated(4), 99))]

KeyExpansion(userKey, nk, words) ==
  LET sub(x) == Words(LAMBDA k : SBox[x[k]])
      temp(w, i) == CASE i % nk = 0 -> sub(Tail(w[i]) \o <<w[i][1]>>) (+) <<rcon[i \div nk], 0, 0, 0>>
                      [] i % nk = 4 /\ nk > 6 -> sub(w[i])
                      [] OTHER -> w[i]
      keys[i \in nk..words] ==
        IF i = nk THEN [j \in 1..nk |-> GETU32(userKey, j)]
        ELSE With(keys[i - 1], LAMBDA w : Append(w, w[i - nk] (+) temp(w, i - 1)))
  IN  keys[words]

\* The state is its four columns; column c holds row r at r.
SubBytes(s)   == Words(LAMBDA c : Words(LAMBDA r : SBox[s[c][r]]))
ShiftRows(s)  == Words(LAMBDA c : Words(LAMBDA r : s[Ahead(c, r - 1)][r]))
MixColumns(s) == Words(LAMBDA c : Words(LAMBDA r :
                   LET next == s[c][Ahead(r, 1)]
                   IN  Xor(Xor(Doubled[s[c][r]], Xor(Doubled[next], next)),
                           Xor(s[c][Ahead(r, 2)], s[c][Ahead(r, 3)]))))
AddRoundKey(s, w, round) == Words(LAMBDA c : s[c] (+) w[4 * round + c])

Fips197Schedule(userKey, bits) == KeyExpansion(userKey, bits \div 32, 4 * (bits \div 32 + 7))
Fips197Cipher(in, w) ==
  LET rounds == (Len(w) \div 4) - 1
      state[r \in 0..rounds] ==
        IF r = 0 THEN AddRoundKey(Words(LAMBDA j : GETU32(in, j)), w, 0)
        ELSE With(state[r - 1], LAMBDA s : With(ShiftRows(SubBytes(s)), LAMBDA shifted :
               AddRoundKey(IF r = rounds THEN shifted ELSE MixColumns(shifted), w, r)))
  IN  With(state[rounds], LAMBDA s : PUTU32(s))
=============================================================================
