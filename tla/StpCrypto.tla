----------------------------- MODULE StpCrypto -----------------------------
(***************************************************************************)
(* The payload library stpcrypto/stp_crypto.cc: InitStpCrypto,             *)
(* EncryptPlain and DecryptCipher, and a text that travels between a       *)
(* caller of the one and a caller of the other.  A message is padded to    *)
(* whole blocks of 16 bytes with its length in the last four, each block   *)
(* is encrypted on its own, and the result is written in base64.           *)
(*                                                                         *)
(* AES is a pair of operators on blocks, with the fixed key inside: any    *)
(* pair in the proofs, module Aes in StpCryptoMC.  External: the           *)
(* assignment of g_clnt_or_svr, an exported variable that nothing in the   *)
(* repository assigns: until the program that links the library does so,   *)
(* EncryptPlain answers -1.                                                *)
(***************************************************************************)
EXTENDS Base64

CONSTANTS
  Word,              \* 2^32: lengths are uint32_t and wrap here
  AES_encrypt(_),    \* of one block with the fixed key
  AES_decrypt(_),
  StandardCipher(_), \* reference for AES_encrypt: what FIPS-197 makes of a block
  Plains,            \* messages that are encrypted
  Losses,            \* how many symbols in a row one text may lose on its way
  NoAnswer           \* no DecryptCipher since the last EncryptPlain

\* Lengths are multiples of the block and fit four bytes.
WordAssumption == Word \in Nat /\ Word >= 32 /\ Word % 16 = 0 /\ (Word - 1) \div 256 < 256 * 256 * 256
ASSUME WordAssumption

\* Messages are bytes.
PlainsAssumption == Plains \subseteq Seq(Byte)
ASSUME PlainsAssumption

\* The longest loss that the lengths alone can tell: twenty symbols are fifteen bytes,
\* one less than a block.
LossesAssumption == Losses \subseteq 1..20
ASSUME LossesAssumption

VARIABLES g_clnt_or_svr, res, sent, text, change, answer
vars == <<g_clnt_or_svr, res, sent, text, change, answer>>
-----------------------------------------------------------------------------
\* Room for three bytes of the length only.
EncryptLen_RoomMutant(plain_len) ==
  LET remain == plain_len % 16
      blocks == ((plain_len + 15) % Word) \div 16
                + (IF remain > 13 \/ remain = 0 THEN 1 ELSE 0)
  IN  (blocks * 16) % Word

\* encrypt_len: one block more when the last has no room for the length.
EncryptLen(plain_len) ==
  LET remain == plain_len % 16
      blocks == ((plain_len + 15) % Word) \div 16
                + (IF remain > 12 \/ remain = 0 THEN 1 ELSE 0)
  IN  (blocks * 16) % Word

\* A shift by eight bits at a time; most significant byte first.
ShiftRight(n) == n \div 256
WriteUint32(n) == LET third == ShiftRight(n) second == ShiftRight(third) first == ShiftRight(second)
                  IN  << first % 256, second % 256, third % 256, n % 256 >>
ShiftIn(n, byte) == (256 * n + byte) % Word
ReadUint32(buf) == ShiftIn(ShiftIn(ShiftIn(buf[1], buf[2]), buf[3]), buf[4])

\* calloc, memcpy and WriteUint32, in that order: zeros, the message, its length.
Pack(plain) ==
  LET len == EncryptLen(Len(plain))
  IN  [i \in 1..len |-> IF i > len - 4 THEN WriteUint32(Len(plain))[i - (len - 4)]
                        ELSE IF i <= Len(plain) THEN plain[i] ELSE 0]

\* Each block by itself, none depending on another.
BlockStart(i) == ((i - 1) \div 16) * 16
BlockOf(data, i) == SubSeq(data, BlockStart(i) + 1, BlockStart(i) + 16)
EachBlock(F(_), data) ==
  [i \in 1..Len(data) |-> F(BlockOf(data, i))[i - BlockStart(i)]]

\* The length DecryptCipher finds at the end.
PlainLen(data) == ReadUint32(SubSeq(data, Len(data) - 3, Len(data)))

Encrypted(plain) == base64_encode(EachBlock(AES_encrypt, Pack(plain)))

\* Bytes enough for the trailing length: the messages EncryptPlain has room for.
Encryptable(plain) == Len(plain) \in 1..(Word - 20)

Decrypted(cipher) ==
  LET data  == base64_decode(cipher)
      plain == EachBlock(AES_decrypt, data)
      fail(err) == [res |-> err, plain |-> <<>>]
  IN  CASE cipher = <<>>                -> fail(-1)
        [] cipher # <<>> /\ data = <<>> -> fail(-2)
        [] Len(data) % 16 # 0           -> fail(-3)
        [] data # <<>> /\ Len(data) % 16 = 0 ->
             IF PlainLen(plain) > Len(data) THEN fail(-4)
             ELSE [res |-> 0, plain |-> SubSeq(plain, 1, PlainLen(plain))]
-----------------------------------------------------------------------------
Init == /\ g_clnt_or_svr = -1
        /\ res = 0
        /\ sent = <<>> /\ text = <<>> /\ change = "none"
        /\ answer = NoAnswer

\* Checks its argument and keeps nothing of it.
InitStpCrypto(clnt_or_svr) ==
  /\ res' = IF clnt_or_svr \in {0, 1} THEN 0 ELSE -1
  /\ UNCHANGED <<g_clnt_or_svr, sent, text, change, answer>>

\* External: the linking program assigns the exported variable.
AssignRole(role) ==
  /\ g_clnt_or_svr = -1
  /\ g_clnt_or_svr' = role
  /\ UNCHANGED <<res, sent, text, change, answer>>

EncryptPlainFails(plain) ==
  /\ plain = <<>> \/ g_clnt_or_svr = -1
  /\ res' = -1
  /\ UNCHANGED <<g_clnt_or_svr, sent, text, change, answer>>

\* One message at a time: the caller has freed what the last one left.
EncryptPlain(plain) ==
  /\ g_clnt_or_svr # -1 /\ Encryptable(plain)
  /\ text = <<>> /\ answer = NoAnswer
  /\ res' = 0
  /\ sent' = plain /\ text' = Encrypted(plain)
  /\ UNCHANGED <<g_clnt_or_svr, change, answer>>

DecryptCipher ==
  /\ answer = NoAnswer
  /\ answer' = Decrypted(text)
  /\ res' = answer'.res
  /\ UNCHANGED <<g_clnt_or_svr, sent, text, change>>

\* Free: both callers are done with their buffers.
Free ==
  /\ answer # NoAnswer
  /\ sent' = <<>> /\ text' = <<>> /\ change' = "none" /\ answer' = NoAnswer
  /\ UNCHANGED <<g_clnt_or_svr, res>>
-----------------------------------------------------------------------------
(* External: what may happen to a text between the two callers, once.      *)

Carried(how, new) ==
  /\ change = "none" /\ answer = NoAnswer
  /\ change' = how /\ text' = new
  /\ UNCHANGED <<g_clnt_or_svr, res, sent, answer>>

Symbols == Len(Kept(text))

\* A line break, as a mail gateway or an editor puts it in.
Rewrap(i) == Carried("wrapped", SubSeq(text, 1, i) \o <<13, 10>> \o SubSeq(text, i + 1, Len(text)))

StripPadding == Carried("unpadded", SubSeq(text, 1, Symbols))

\* k symbols from the i-th on are lost.
Lose(i, k) == /\ i + k <= Symbols + 1
              /\ Carried("lossy", SubSeq(text, 1, i - 1) \o SubSeq(text, i + k, Len(text)))

\* The i-th character becomes one that is no symbol.
Garble(i) == Carried("garbled", [text EXCEPT ![i] = 45])

\* First, last and middle symbols of texts of one, two and three blocks.
Places == {i \in {1, 22, 43} : i <= Symbols}

Next == \/ \E r \in {0, 1, 2} : InitStpCrypto(r)
        \/ \E r \in {0, 1} : AssignRole(r)
        \/ \E p \in Plains : EncryptPlain(p) \/ EncryptPlainFails(p)
        \/ DecryptCipher
        \/ Free
        \/ \E i \in Places : Rewrap(i) \/ Garble(i) \/ \E k \in Losses : Lose(i, k)
        \/ text # <<>> /\ StripPadding

Spec == Init /\ [][Next]_vars
-----------------------------------------------------------------------------
\* Types: the text consists of symbols, padding and what its carrier put in.
TypeOK ==
  /\ g_clnt_or_svr \in {-1, 0, 1}
  /\ res \in -4..0
  /\ sent \in Seq(Byte)
  /\ \A i \in 1..Len(text) : text[i] \in Alphabet \cup {Padding, 13, 10, 45}
  /\ change \in {"none", "wrapped", "unpadded", "lossy", "garbled"}
  /\ answer # NoAnswer => answer.res \in -4..0 /\ answer.plain \in Seq(Byte)

\* What EncryptPlain was given is what DecryptCipher answers, whatever its length is
\* modulo the block, and also when line breaks came in or the padding went
\* ("Be liberal in what you accept" in base64.cpp).
RoundTrip ==
  answer # NoAnswer /\ sent # <<>> /\ change \in {"none", "wrapped", "unpadded"}
    => answer = [res |-> 0, plain |-> sent]

\* A text that lost up to twenty symbols in a row, or has a character that is no
\* symbol, is refused: the length tests of DecryptCipher alone notice it.
DamageIsNoticed ==
  answer # NoAnswer /\ change \in {"lossy", "garbled"} => answer.res < 0

\* The text EncryptPlain answers is standard: base64, for each number of bytes modulo
\* three, of the blocks that the standard cipher makes of the padded message.  Another
\* implementation of the two standards reads it.
StandardText ==
  change = "none" /\ sent # <<>> => text = Rfc4648(EachBlock(StandardCipher, Pack(sent)))
=============================================================================
