---------------------------- MODULE StpCryptoMC ----------------------------
(***************************************************************************)
(* StpCrypto with the AES of module Aes under the key of GetStpCryptKey,   *)
(* and messages of every length around the ends of the first three blocks. *)
(***************************************************************************)
EXTENDS StpCrypto, Aes

\* Each remainder modulo 16 occurs at least twice, 12 and 13 among them.
MCPlains == {[i \in 1..n |-> (97 + 5 * i) % 128] : n \in 0..35}

\* GetStpCryptKey: the characters 1234567890 three times, 1 and 2.
StpCryptKey == [i \in 1..32 |-> 48 + (i % 10)]
EncryptKey  == AES_set_encrypt_key(StpCryptKey, 256)
DecryptKey  == AES_set_decrypt_key(StpCryptKey, 256)
Schedule    == Fips197Schedule(StpCryptKey, 256)

\* The blocks of the messages and what becomes of them, computed once.
Blocks     == UNION {{BlockOf(Pack(p), 16 * k) : k \in 1..(Len(Pack(p)) \div 16)} : p \in MCPlains \ {<<>>}}
Enciphered == [b \in Blocks |-> EncryptBlock(b, EncryptKey)]
Deciphered == [c \in {Enciphered[b] : b \in Blocks} |-> DecryptBlock(c, DecryptKey)]
Reference  == [b \in Blocks |-> Fips197Cipher(b, Schedule)]

MCEncrypt(block) == Enciphered[block]
MCDecrypt(block) == IF block \in DOMAIN Deciphered THEN Deciphered[block]
                    ELSE DecryptBlock(block, DecryptKey)
FipsEncrypt(block) == Reference[block]

\* The other key sizes of AES_set_encrypt_key, which the library does not use, make the
\* standard cipher too, and AES_set_decrypt_key makes its inverse.
KeySizesAgree ==
  \A bits \in {128, 192} : \A b \in {BlockOf(Pack(p), 1) : p \in MCPlains \ {<<>>}} :
    LET key == SubSeq(StpCryptKey, 1, bits \div 8)
        c   == EncryptBlock(b, AES_set_encrypt_key(key, bits))
    IN  /\ c = Fips197Cipher(b, Fips197Schedule(key, bits))
        /\ DecryptBlock(c, AES_set_decrypt_key(key, bits)) = b
ASSUME KeySizesAgree
=============================================================================
